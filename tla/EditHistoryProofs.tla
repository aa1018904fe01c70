------------------------- MODULE EditHistoryProofs -------------------------
(***************************************************************************)
(* Proofs about EditHistory, for every byte set, every source, every       *)
(* payload and every bound.  The inductive invariant says that the undo    *)
(* entries chain the contents the user left, oldest first, up to the one   *)
(* shown; that the redo entries chain the contents ahead; and that the     *)
(* patch shows the present.  Before it come the lemmas about the operators  *)
(* EditState is built from: buffers, the replay of an undo stack, the diff  *)
(* that becomes the patch, writes into a patch, and the merging of undo     *)
(* entries.                                                                *)
(***************************************************************************)
EXTENDS EditHistory, TLAPS, FiniteSetTheorems, WellFoundedInduction

-----------------------------------------------------------------------------
(* A non-empty set of naturals has a least element. *)
LEMMA LeastNatural ==
    ASSUME NEW T \in SUBSET Nat, T # {}
    PROVE  \E m \in T : \A k \in T : m <= k
  <1>1. IsWellFoundedOn(OpToRel(<, Nat), Nat)
    BY NatLessThanWellFounded
  <1>2. PICK m \in T : \A k \in T : ~ (<<k, m>> \in OpToRel(<, Nat))
    BY <1>1, WFMin, Zenon
  <1>3. \A k \in T : ~ (k < m)
    BY <1>2 DEF OpToRel
  <1> QED
    BY <1>3

-----------------------------------------------------------------------------
(* Buffers. *)

(* A slice inside a buffer is a buffer. *)
LEMMA SliceType ==
    ASSUME NEW S, NEW buf \in Seq(S), NEW off \in Nat, NEW n \in Nat, off + n <= Len(buf)
    PROVE  /\ Slice(buf, off, n) \in Seq(S)
           /\ Len(Slice(buf, off, n)) = n
           /\ \A i \in 1 .. n : Slice(buf, off, n)[i] = buf[off + i]
  BY DEF Slice

(* A splice inside a buffer is a buffer, of the expected length. *)
LEMMA SpliceType ==
    ASSUME NEW S, NEW buf \in Seq(S), NEW off \in Nat, NEW rem \in Nat, NEW ins \in Seq(S),
           off + rem <= Len(buf)
    PROVE  /\ Splice(buf, off, rem, ins) \in Seq(S)
           /\ Len(Splice(buf, off, rem, ins)) = Len(buf) - rem + Len(ins)
  <1> DEFINE n == Len(buf) - rem + Len(ins)
  <1>1. n \in Nat
    OBVIOUS
  <1>2. ASSUME NEW i \in 1 .. n
        PROVE  (IF i <= off THEN buf[i]
                ELSE IF i <= off + Len(ins) THEN ins[i - off]
                ELSE buf[i - Len(ins) + rem]) \in S
    <2>1. CASE i <= off
      BY <2>1
    <2>2. CASE ~(i <= off) /\ i <= off + Len(ins)
      <3>1. i - off \in 1 .. Len(ins)
        BY <2>2
      <3> QED BY <2>2, <3>1
    <2>3. CASE ~(i <= off) /\ ~(i <= off + Len(ins))
      <3>1. i - Len(ins) + rem \in 1 .. Len(buf)
        BY <2>3
      <3> QED BY <2>3, <3>1
    <2> QED BY <2>1, <2>2, <2>3
  <1> QED
    BY <1>1, <1>2 DEF Splice

(* The bytes of two buffers one after the other. *)
LEMMA ConcatPoint ==
    ASSUME NEW S, NEW s \in Seq(S), NEW t \in Seq(S)
    PROVE  /\ s \o t \in Seq(S)
           /\ Len(s \o t) = Len(s) + Len(t)
           /\ \A j \in 1 .. (Len(s) + Len(t)) :
                 (s \o t)[j] = IF j <= Len(s) THEN s[j] ELSE t[j - Len(s)]
  OBVIOUS

(* A function from 1 .. n is a buffer of length n. *)
LEMMA FunctionIsBuffer ==
    ASSUME NEW S, NEW n \in Nat, NEW f \in [1 .. n -> S]
    PROVE  f \in Seq(S) /\ Len(f) = n
  OBVIOUS

(* Buffers of the same length with the same bytes are the same. *)
LEMMA BufferEqual ==
    ASSUME NEW S, NEW a \in Seq(S), NEW b \in Seq(S), Len(a) = Len(b),
           \A i \in 1 .. Len(a) : a[i] = b[i]
    PROVE  a = b
  <1>1. a = [i \in 1 .. Len(a) |-> a[i]] /\ b = [i \in 1 .. Len(b) |-> b[i]]
    OBVIOUS
  <1> QED BY <1>1

(* The bytes of a splice. *)
LEMMA SplicePoint ==
    ASSUME NEW S, NEW buf \in Seq(S), NEW off \in Nat, NEW rem \in Nat, NEW ins \in Seq(S),
           off + rem <= Len(buf), NEW i \in 1 .. (Len(buf) - rem + Len(ins))
    PROVE  Splice(buf, off, rem, ins)[i] =
              IF i <= off THEN buf[i]
              ELSE IF i <= off + Len(ins) THEN ins[i - off]
              ELSE buf[i - Len(ins) + rem]
  BY DEF Splice

(* Replaying an entry keeps a buffer a buffer. *)
LEMMA ReplayedType ==
    ASSUME NEW buf \in Seq(Byte), NEW e \in EditEntry
    PROVE  Replayed(buf, e) \in Seq(Byte)
  <1>1. /\ e.offset \in Nat
        /\ e.old_bytes \in Seq(Byte)
        /\ e.new_bytes \in Seq(Byte)
    BY DEF EditEntry
  <1>2. CASE e.offset + Len(e.old_bytes) > Len(buf)
    BY <1>2 DEF Replayed
  <1>3. CASE ~(e.offset + Len(e.old_bytes) > Len(buf))
    <2>1. e.offset + Len(e.old_bytes) <= Len(buf)
      BY <1>1, <1>3
    <2>2. Splice(buf, e.offset, Len(e.old_bytes), e.new_bytes) \in Seq(Byte)
      BY <1>1, <2>1, SpliceType
    <2> QED BY <1>3, <2>2 DEF Replayed
  <1> QED BY <1>2, <1>3

-----------------------------------------------------------------------------
(* The replay of a stack, which the code computes with a loop and the model *)
(* with a recursive function, exists and is what its recursion says.       *)
LEMMA ContentsChain ==
    ASSUME NEW base \in Seq(Byte), NEW stack \in Seq(EditEntry)
    PROVE  /\ Contents(base, stack) \in [0 .. Len(stack) -> Seq(Byte)]
           /\ Contents(base, stack)[0] = base
           /\ \A k \in 1 .. Len(stack) :
                 Contents(base, stack)[k] = Replayed(Contents(base, stack)[k - 1], stack[k])
  <1> DEFINE n == Len(stack)
             Chains(m) == {f \in [0 .. m -> Seq(Byte)] :
                             /\ f[0] = base
                             /\ \A k \in 1 .. m : f[k] = Replayed(f[k - 1], stack[k])}
             Bad == {m \in 0 .. n : Chains(m) = {}}
  <1>0. n \in Nat /\ \A k \in 1 .. n : stack[k] \in EditEntry
    OBVIOUS
  <1>1. Bad = {}
    <2> SUFFICES ASSUME Bad # {} PROVE FALSE
      OBVIOUS
    <2>1. PICK m \in Bad : \A k \in Bad : m <= k
      <3>1. Bad \in SUBSET Nat
        BY <1>0
      <3> QED BY <3>1, LeastNatural
    <2>2. m \in 0 .. n /\ Chains(m) = {}
      BY <2>1
    <2>3. m # 0
      <3> SUFFICES ASSUME m = 0 PROVE FALSE
        OBVIOUS
      <3> DEFINE f == [k \in 0 .. 0 |-> base]
      <3>1. f \in Chains(0)
        OBVIOUS
      <3> QED BY <2>2, <3>1
    <2>4. m - 1 \in 0 .. n /\ m - 1 \notin Bad
      <3>1. m - 1 \in 0 .. n /\ ~(m <= m - 1)
        BY <2>2, <2>3, <1>0
      <3> QED BY <3>1, <2>1
    <2>5. PICK f \in Chains(m - 1) : TRUE
      BY <2>4
    <2> DEFINE g == [k \in 0 .. m |-> IF k < m THEN f[k] ELSE Replayed(f[m - 1], stack[m])]
    <2>6. f[m - 1] \in Seq(Byte) /\ stack[m] \in EditEntry
      BY <2>2, <2>3, <2>5, <1>0
    <2>7. Replayed(f[m - 1], stack[m]) \in Seq(Byte)
      BY <2>6, ReplayedType
    <2>8. g \in [0 .. m -> Seq(Byte)]
      BY <2>2, <2>3, <2>5, <2>7, <1>0
    <2>9. g[0] = base
      BY <2>2, <2>3, <2>5, <1>0
    <2>10. ASSUME NEW k \in 1 .. m PROVE g[k] = Replayed(g[k - 1], stack[k])
      <3>1. k - 1 \in 0 .. m /\ k - 1 < m /\ g[k - 1] = f[k - 1]
        BY <2>2, <1>0
      <3>2. CASE k = m
        BY <3>1, <3>2, <2>2, <1>0
      <3>3. CASE k < m
        <4>1. k \in 1 .. (m - 1) /\ g[k] = f[k]
          BY <3>3, <2>2, <1>0
        <4>2. f[k] = Replayed(f[k - 1], stack[k])
          BY <4>1, <2>5
        <4> QED BY <3>1, <4>1, <4>2
      <3> QED BY <3>2, <3>3, <2>2, <1>0
    <2> HIDE DEF g
    <2>11. g \in Chains(m)
      BY <2>8, <2>9, <2>10
    <2> QED BY <2>2, <2>11
  <1>2. PICK f \in Chains(n) : TRUE
    <2>1. n \in 0 .. n
      BY <1>0
    <2> QED BY <1>1, <2>1
  <1> DEFINE Eqn(c) == c = [k \in 0 .. n |-> IF k = 0 THEN base ELSE Replayed(c[k - 1], stack[k])]
  <1>3. Eqn(f)
    BY <1>0, <1>2
  <1>4. Contents(base, stack) = CHOOSE c : Eqn(c)
    BY DEF Contents
  <1> DEFINE c == Contents(base, stack)
  <1>5. Eqn(c)
    BY <1>3, <1>4
  <1> HIDE DEF c
  <1>6. DOMAIN c = 0 .. n /\ c[0] = base
    BY <1>5, <1>0
  <1>7. \A k \in 1 .. n : c[k] = Replayed(c[k - 1], stack[k])
    BY <1>5, <1>0
  <1> DEFINE Off == {k \in 0 .. n : c[k] # f[k]}
  <1>8. Off = {}
    <2> SUFFICES ASSUME Off # {} PROVE FALSE
      OBVIOUS
    <2>1. PICK m \in Off : \A k \in Off : m <= k
      <3>1. Off \in SUBSET Nat
        BY <1>0
      <3> QED BY <3>1, LeastNatural
    <2>2. m # 0
      BY <1>2, <1>6, <2>1
    <2>3. m \in 1 .. n /\ m - 1 \in 0 .. n /\ ~(m <= m - 1)
      BY <2>1, <2>2, <1>0
    <2>4. c[m - 1] = f[m - 1]
      BY <2>1, <2>3
    <2> QED BY <1>2, <1>7, <2>1, <2>3, <2>4
  <1>9. c = f
    BY <1>5, <1>6, <1>8, <1>2
  <1> QED BY <1>2, <1>9 DEF c


(* An entry takes the buffer `pre` to `post`, and says truly what it replaced. *)
Applies(pre, e, post) ==
    /\ e.offset + Len(e.old_bytes) <= Len(pre)
    /\ e.old_bytes = Slice(pre, e.offset, Len(e.old_bytes))
    /\ post = Splice(pre, e.offset, Len(e.old_bytes), e.new_bytes)

(* Replaying a stack whose entries chain a trail of buffers walks that trail. *)
LEMMA ReplayOfChain ==
    ASSUME NEW base \in Seq(Byte), NEW stack \in Seq(EditEntry),
           NEW trail, trail[1] = base,
           \A k \in 1 .. Len(stack) : trail[k] \in Seq(Byte),
           \A k \in 1 .. Len(stack) : Applies(trail[k], stack[k], trail[k + 1])
    PROVE  \A k \in 0 .. Len(stack) : Contents(base, stack)[k] = trail[k + 1]
  <1> DEFINE n == Len(stack)
             c == Contents(base, stack)
             Off == {k \in 0 .. n : c[k] # trail[k + 1]}
  <1>0. n \in Nat /\ \A k \in 1 .. n : stack[k] \in EditEntry
    OBVIOUS
  <1>1. /\ c \in [0 .. n -> Seq(Byte)]
        /\ c[0] = base
        /\ \A k \in 1 .. n : c[k] = Replayed(c[k - 1], stack[k])
    BY ContentsChain
  <1> HIDE DEF c
  <1>2. Off = {}
    <2> SUFFICES ASSUME Off # {} PROVE FALSE
      OBVIOUS
    <2>1. PICK m \in Off : \A k \in Off : m <= k
      <3>1. Off \in SUBSET Nat
        BY <1>0
      <3> QED BY <3>1, LeastNatural
    <2>2. m # 0
      BY <1>1, <2>1
    <2>3. m \in 1 .. n /\ m - 1 \in 0 .. n /\ ~(m <= m - 1) /\ (m - 1) + 1 = m
      BY <2>1, <2>2, <1>0
    <2>4. c[m - 1] = trail[m]
      BY <2>1, <2>3
    <2>5. Applies(trail[m], stack[m], trail[m + 1]) /\ stack[m] \in EditEntry
      BY <2>3, <1>0
    <2>6. Replayed(trail[m], stack[m]) = trail[m + 1]
      <3>1. stack[m].offset \in Nat /\ Len(stack[m].old_bytes) \in Nat
        <4>1. stack[m].offset \in Nat /\ stack[m].old_bytes \in Seq(Byte)
          BY <2>5 DEF EditEntry
        <4> QED BY <4>1
      <3>2. Len(trail[m]) \in Nat
        <4>1. trail[m] \in Seq(Byte)
          BY <2>3
        <4> QED BY <4>1
      <3> QED BY <2>5, <3>1, <3>2, SMTT(60) DEF Replayed, Applies
    <2> QED BY <1>1, <2>1, <2>3, <2>4, <2>6
  <1> QED BY <1>2 DEF c

-----------------------------------------------------------------------------
(* Patches. *)

(* The shape of the editor's patches: overwrites in front of one splice. *)
PatchOK(p, base) ==
    /\ p = [over |-> p.over, at |-> p.at, del |-> p.del, ins |-> p.ins]
    /\ p.at \in Nat /\ p.del \in Nat /\ p.ins \in Seq(Byte)
    /\ p.at + p.del <= Len(base)
    /\ DOMAIN p.over \subseteq 0 .. (Len(base) - 1)
    /\ ~IsLengthPreserving(p) => DOMAIN p.over \subseteq 0 .. (p.at - 1)
    /\ \A o \in DOMAIN p.over : p.over[o] \in Byte
    /\ p.over = [o \in DOMAIN p.over |-> p.over[o]]

(* The empty patch shows the base. *)
LEMMA EmptyView ==
    ASSUME NEW base \in Seq(Byte)
    PROVE  PatchOK(EmptyPatch, base) /\ View(base, EmptyPatch) = base
  <1>1. PatchOK(EmptyPatch, base)
    BY DEF PatchOK, EmptyPatch, IsLengthPreserving
  <1>2. Len(base) \in Nat /\ base = [i \in 1 .. Len(base) |-> base[i]]
    OBVIOUS
  <1>3. OutputLen(EmptyPatch, base) = Len(base)
    BY <1>2 DEF OutputLen, EmptyPatch
  <1>4. View(base, EmptyPatch) = [i \in 1 .. Len(base) |-> base[i]]
    <2>1. ASSUME NEW i \in 1 .. Len(base)
          PROVE  (IF i - 1 \in DOMAIN EmptyPatch.over THEN EmptyPatch.over[i - 1]
                  ELSE IF i <= EmptyPatch.at THEN base[i]
                  ELSE IF i <= EmptyPatch.at + Len(EmptyPatch.ins)
                  THEN EmptyPatch.ins[i - EmptyPatch.at]
                  ELSE base[i - Len(EmptyPatch.ins) + EmptyPatch.del]) = base[i]
      <3>1. /\ DOMAIN EmptyPatch.over = {} /\ EmptyPatch.at = 0
            /\ EmptyPatch.del = 0 /\ EmptyPatch.ins = << >>
        BY DEF EmptyPatch
      <3>2. ~(i <= 0) /\ Len(<< >>) = 0 /\ i - 0 + 0 = i
        BY <1>2
      <3> QED BY <3>1, <3>2
    <2> QED BY <1>3, <2>1 DEF View
  <1> QED BY <1>1, <1>2, <1>4

(* What a patch shows is a buffer. *)
LEMMA ViewType ==
    ASSUME NEW base \in Seq(Byte), NEW p, PatchOK(p, base)
    PROVE  /\ View(base, p) \in Seq(Byte)
           /\ Len(View(base, p)) = Len(base) - p.del + Len(p.ins)
  <1> DEFINE n == Len(base) - p.del + Len(p.ins)
  <1>1. /\ Len(base) \in Nat /\ p.at \in Nat /\ p.del \in Nat /\ Len(p.ins) \in Nat
        /\ p.at + p.del <= Len(base) /\ n \in Nat /\ p.ins \in Seq(Byte)
        /\ \A o \in DOMAIN p.over : p.over[o] \in Byte
    BY DEF PatchOK
  <1>2. ASSUME NEW i \in 1 .. n
        PROVE  (IF i - 1 \in DOMAIN p.over THEN p.over[i - 1]
                ELSE IF i <= p.at THEN base[i]
                ELSE IF i <= p.at + Len(p.ins) THEN p.ins[i - p.at]
                ELSE base[i - Len(p.ins) + p.del]) \in Byte
    <2>1. CASE i - 1 \in DOMAIN p.over
      BY <2>1, <1>1
    <2>2. CASE i - 1 \notin DOMAIN p.over /\ i <= p.at
      <3>1. i \in 1 .. Len(base)
        BY <2>2, <1>1
      <3> QED BY <2>2, <3>1
    <2>3. CASE i - 1 \notin DOMAIN p.over /\ ~(i <= p.at) /\ i <= p.at + Len(p.ins)
      <3>1. i - p.at \in 1 .. Len(p.ins)
        BY <2>3, <1>1
      <3>2. p.ins[i - p.at] \in Byte
        BY <3>1, <1>1
      <3> QED BY <2>3, <3>2
    <2>4. CASE i - 1 \notin DOMAIN p.over /\ ~(i <= p.at) /\ ~(i <= p.at + Len(p.ins))
      <3>0. ~(i <= p.at + Len(p.ins)) /\ i \in 1 .. (Len(base) - p.del + Len(p.ins))
        BY <2>4
      <3>1. i - Len(p.ins) + p.del \in 1 .. Len(base)
        <4>1. /\ Len(base) \in Nat /\ p.at \in Nat /\ p.del \in Nat /\ Len(p.ins) \in Nat
              /\ p.at + p.del <= Len(base)
          BY <1>1
        <4> QED BY <3>0, <4>1, SMTT(30)
      <3>2. base[i - Len(p.ins) + p.del] \in Byte
        BY <3>1
      <3> QED BY <2>4, <3>2
    <2> QED BY <2>1, <2>2, <2>3, <2>4
  <1>3. View(base, p) \in [1 .. n -> Byte]
    BY <1>2 DEF View, OutputLen
  <1>4. n \in Nat
    BY <1>1
  <1> HIDE DEF n
  <1>5. View(base, p) \in Seq(Byte) /\ Len(View(base, p)) = n
    BY <1>3, <1>4, FunctionIsBuffer
  <1> QED BY <1>5 DEF n

(* The diff of a buffer against the base shows that buffer. *)
LEMMA DiffRoundTrip ==
    ASSUME NEW base \in Seq(Byte), NEW buf \in Seq(Byte)
    PROVE  PatchOK(Diff(base, buf), base) /\ View(base, Diff(base, buf)) = buf
  <1> DEFINE n == Lesser(Len(base), Len(buf))
             changed == {o \in 0 .. (n - 1) : base[o + 1] # buf[o + 1]}
             p == Diff(base, buf)
  <1>1. Len(base) \in Nat /\ Len(buf) \in Nat
    OBVIOUS
  <1>2. n \in Nat /\ n <= Len(base) /\ n <= Len(buf) /\ (n = Len(base) \/ n = Len(buf))
    BY <1>1 DEF Lesser
  <1> DEFINE tail == Slice(buf, n, Len(buf) - n)
  <1>3. /\ tail \in Seq(Byte) /\ Len(tail) = Len(buf) - n
        /\ \A i \in 1 .. (Len(buf) - n) : tail[i] = buf[n + i]
    <2>1. Len(buf) - n \in Nat /\ n + (Len(buf) - n) <= Len(buf)
      BY <1>1, <1>2
    <2> QED BY <1>2, <2>1, SliceType, ZenonT(40)
  <1>4. /\ p = [over |-> [o \in changed |-> buf[o + 1]],
                at |-> IF Len(base) = Len(buf) THEN 0 ELSE n,
                del |-> Len(base) - n, ins |-> tail]
    BY DEF Diff
  <1> HIDE DEF p, n, tail
  <1>5. /\ p.over = [o \in changed |-> buf[o + 1]] /\ DOMAIN p.over = changed
        /\ p.at = (IF Len(base) = Len(buf) THEN 0 ELSE n)
        /\ p.del = Len(base) - n /\ p.ins = tail
    BY <1>4
  <1>6. changed \subseteq 0 .. (n - 1) /\ changed \subseteq 0 .. (Len(base) - 1)
    BY <1>1, <1>2
  <1>7. p.at \in Nat /\ p.del \in Nat /\ p.at + p.del <= Len(base)
    BY <1>1, <1>2, <1>5
  <1>8. \A o \in changed : buf[o + 1] \in Byte
    <2> TAKE o \in changed
    <2>1. o + 1 \in 1 .. Len(buf)
      BY <1>1, <1>2, <1>6
    <2> QED BY <2>1
  <1>9. ~IsLengthPreserving(p) => changed \subseteq 0 .. (p.at - 1)
    <2> SUFFICES ASSUME ~IsLengthPreserving(p) PROVE changed \subseteq 0 .. (p.at - 1)
      OBVIOUS
    <2>1. Len(base) # Len(buf)
      <3> SUFFICES ASSUME Len(base) = Len(buf) PROVE FALSE
        OBVIOUS
      <3>1. p.del = 0 /\ Len(tail) = 0
        BY <1>1, <1>2, <1>3, <1>5
      <3>2. tail = << >>
        BY <1>3, <3>1
      <3> QED BY <1>5, <3>1, <3>2 DEF IsLengthPreserving
    <2> QED BY <2>1, <1>5, <1>6
  <1>10. PatchOK(p, base)
    <2>1. p = [over |-> p.over, at |-> p.at, del |-> p.del, ins |-> p.ins]
      BY <1>4, <1>5
    <2>2. p.over = [o \in DOMAIN p.over |-> p.over[o]]
      BY <1>5
    <2>3. \A o \in DOMAIN p.over : p.over[o] \in Byte
      BY <1>5, <1>8
    <2> QED BY <1>3, <1>5, <1>6, <1>7, <1>9, <2>1, <2>2, <2>3 DEF PatchOK
  <1>11. Len(base) - p.del + Len(p.ins) = Len(buf)
    BY <1>1, <1>2, <1>3, <1>5
  <1>12. View(base, p) \in Seq(Byte) /\ Len(View(base, p)) = Len(buf)
    BY <1>10, <1>11, ViewType
  <1>13. ASSUME NEW i \in 1 .. Len(buf) PROVE View(base, p)[i] = buf[i]
    <2>0. View(base, p)[i] =
             IF i - 1 \in DOMAIN p.over THEN p.over[i - 1]
             ELSE IF i <= p.at THEN base[i]
             ELSE IF i <= p.at + Len(p.ins) THEN p.ins[i - p.at]
             ELSE base[i - Len(p.ins) + p.del]
      BY <1>11 DEF View, OutputLen
    <2>1. CASE i - 1 \in changed
      <3>1. i - 1 + 1 = i /\ p.over[i - 1] = buf[i - 1 + 1]
        BY <2>1, <1>1, <1>5
      <3> QED BY <2>0, <2>1, <3>1, <1>5
    <2>2. CASE i - 1 \notin changed /\ i <= n
      <3>1. i - 1 \in 0 .. (n - 1) /\ i - 1 + 1 = i
        BY <2>2, <1>1, <1>2
      <3>2. base[i] = buf[i]
        BY <2>2, <3>1
      <3>3. CASE Len(base) = Len(buf)
        <4>1. /\ p.at = 0 /\ p.del = 0 /\ Len(p.ins) = 0 /\ ~(i <= 0) /\ i - 0 + 0 = i
          BY <3>3, <1>1, <1>2, <1>3, <1>5
        <4>2. ~(i <= p.at) /\ ~(i <= p.at + Len(p.ins)) /\ i - Len(p.ins) + p.del = i
          BY <4>1
        <4> QED BY <2>0, <2>2, <3>2, <4>2, <1>5
      <3>4. CASE Len(base) # Len(buf)
        BY <2>0, <2>2, <3>2, <3>4, <1>5
      <3> QED BY <3>3, <3>4
    <2>3. CASE ~(i <= n)
      <3>1. Len(base) # Len(buf) /\ i - 1 \notin changed /\ p.at = n
        BY <2>3, <1>1, <1>2, <1>5, <1>6
      <3>2. i <= n + Len(tail) /\ i - n \in 1 .. (Len(buf) - n) /\ n + (i - n) = i
        BY <2>3, <1>1, <1>2, <1>3
      <3>3. tail[i - n] = buf[n + (i - n)]
        BY <3>2, <1>3
      <3>4. tail[i - n] = buf[i]
        BY <3>2, <3>3
      <3> QED BY <2>0, <2>3, <3>1, <3>2, <3>4, <1>5
    <2> QED BY <2>1, <2>2, <2>3
  <1>14. View(base, p) = buf
    BY <1>12, <1>13, BufferEqual
  <1> QED BY <1>10, <1>14 DEF p

(* A write the patch accepts shows the written bytes in place. *)
LEMMA WriteShows ==
    ASSUME NEW base \in Seq(Byte), NEW p, PatchOK(p, base),
           NEW off \in Nat, NEW bytes \in Seq(Byte), AcceptsWrite(p, base, off, bytes)
    PROVE  /\ PatchOK(Write(p, off, bytes), base)
           /\ off + Len(bytes) <= Len(View(base, p))
           /\ View(base, Write(p, off, bytes)) = Splice(View(base, p), off, Len(bytes), bytes)
  <1> DEFINE hit == off .. (off + Len(bytes) - 1)
             q == Write(p, off, bytes)
             v == View(base, p)
  <1>1. /\ Len(base) \in Nat /\ p.at \in Nat /\ p.del \in Nat /\ Len(p.ins) \in Nat
        /\ p.at + p.del <= Len(base) /\ p.ins \in Seq(Byte) /\ Len(bytes) \in Nat
        /\ \A o \in DOMAIN p.over : p.over[o] \in Byte
        /\ DOMAIN p.over \subseteq 0 .. (Len(base) - 1)
        /\ p = [over |-> p.over, at |-> p.at, del |-> p.del, ins |-> p.ins]
    BY DEF PatchOK
  <1>2. /\ q.over = [o \in (DOMAIN p.over) \cup hit |->
                        IF o \in hit THEN bytes[o - off + 1] ELSE p.over[o]]
        /\ q.at = p.at /\ q.del = p.del /\ q.ins = p.ins
        /\ q = [over |-> q.over, at |-> q.at, del |-> q.del, ins |-> q.ins]
    <2> DEFINE written == [o \in (DOMAIN p.over) \cup hit |->
                             IF o \in hit THEN bytes[o - off + 1] ELSE p.over[o]]
    <2>1. q = [p EXCEPT !.over = written]
      BY DEF Write
    <2>2. p = [over |-> p.over, at |-> p.at, del |-> p.del, ins |-> p.ins]
      BY <1>1
    <2> HIDE DEF written
    <2>3. q = [over |-> written, at |-> p.at, del |-> p.del, ins |-> p.ins]
      BY <2>1, <2>2
    <2> HIDE DEF q
    <2>4. q.over = written /\ q.at = p.at /\ q.del = p.del /\ q.ins = p.ins
      BY <2>3
    <2> QED BY <2>3, <2>4 DEF written
  <1>3. /\ v \in Seq(Byte)
        /\ Len(v) = Len(base) - p.del + Len(p.ins)
    BY ViewType
  <1>4. off + Len(bytes) <= Len(base) /\ off + Len(bytes) <= Len(v)
    <2>1. CASE IsLengthPreserving(p)
      <3>1. p.del = 0 /\ Len(p.ins) = 0
        BY <2>1 DEF IsLengthPreserving
      <3> QED BY <2>1, <3>1, <1>1, <1>3 DEF AcceptsWrite
    <2>2. CASE ~IsLengthPreserving(p)
      BY <2>2, <1>1, <1>3 DEF AcceptsWrite
    <2> QED BY <2>1, <2>2
  <1>5. IsLengthPreserving(q) <=> IsLengthPreserving(p)
    BY <1>2 DEF IsLengthPreserving
  <1> HIDE DEF q, v
  <1>6. \A o \in hit : o - off + 1 \in 1 .. Len(bytes) /\ bytes[o - off + 1] \in Byte
    <2> TAKE o \in hit
    <2>1. o - off + 1 \in 1 .. Len(bytes)
      BY <1>1
    <2> QED BY <2>1
  <1>7. PatchOK(q, base)
    <2>1. DOMAIN q.over = (DOMAIN p.over) \cup hit
      BY <1>2
    <2>2. hit \subseteq 0 .. (Len(base) - 1)
      BY <1>1, <1>4
    <2>3. ~IsLengthPreserving(q) => DOMAIN q.over \subseteq 0 .. (q.at - 1)
      <3> SUFFICES ASSUME ~IsLengthPreserving(p) PROVE DOMAIN q.over \subseteq 0 .. (p.at - 1)
        BY <1>2, <1>5
      <3>1. off + Len(bytes) <= p.at
        BY DEF AcceptsWrite
      <3>2. hit \subseteq 0 .. (p.at - 1)
        BY <1>1, <3>1
      <3>3. DOMAIN p.over \subseteq 0 .. (p.at - 1)
        BY DEF PatchOK
      <3> QED BY <2>1, <3>2, <3>3
    <2>4. \A o \in DOMAIN q.over : q.over[o] \in Byte
      BY <1>1, <1>2, <1>6, <2>1
    <2>5. q.over = [o \in DOMAIN q.over |-> q.over[o]]
      BY <1>2
    <2>6. DOMAIN q.over \subseteq 0 .. (Len(base) - 1)
      BY <1>1, <2>1, <2>2
    <2> QED BY <1>1, <1>2, <2>3, <2>4, <2>5, <2>6 DEF PatchOK
  <1> DEFINE w == View(base, q)
             x == Splice(v, off, Len(bytes), bytes)
  <1>8. w \in Seq(Byte) /\ Len(w) = Len(v)
    BY <1>2, <1>3, <1>7, ViewType
  <1>9. x \in Seq(Byte) /\ Len(x) = Len(v)
    <2>0. v \in Seq(Byte) /\ Len(bytes) \in Nat /\ off + Len(bytes) <= Len(v)
      BY <1>1, <1>3, <1>4
    <2>1. x \in Seq(Byte) /\ Len(x) = Len(v) - Len(bytes) + Len(bytes)
      BY <2>0, SpliceType
    <2> QED BY <2>1, <1>1, <1>3
  <1>10. ASSUME NEW i \in 1 .. Len(v) PROVE w[i] = x[i]
    <2>1. w[i] = IF i - 1 \in DOMAIN q.over THEN q.over[i - 1]
                 ELSE IF i <= q.at THEN base[i]
                 ELSE IF i <= q.at + Len(q.ins) THEN q.ins[i - q.at]
                 ELSE base[i - Len(q.ins) + q.del]
      BY <1>2, <1>3 DEF View, OutputLen
    <2>2. v[i] = IF i - 1 \in DOMAIN p.over THEN p.over[i - 1]
                 ELSE IF i <= p.at THEN base[i]
                 ELSE IF i <= p.at + Len(p.ins) THEN p.ins[i - p.at]
                 ELSE base[i - Len(p.ins) + p.del]
      BY <1>3 DEF View, OutputLen, v
    <2>3. x[i] = IF i <= off THEN v[i]
                 ELSE IF i <= off + Len(bytes) THEN bytes[i - off]
                 ELSE v[i - Len(bytes) + Len(bytes)]
      <3>1. Len(v) - Len(bytes) + Len(bytes) = Len(v)
        BY <1>1, <1>3
      <3>2. i \in 1 .. (Len(v) - Len(bytes) + Len(bytes))
        BY <3>1
      <3>3. v \in Seq(Byte) /\ Len(bytes) \in Nat /\ off + Len(bytes) <= Len(v)
        BY <1>1, <1>3, <1>4
      <3> QED BY <3>2, <3>3 DEF Splice
    <2>4. i \in Nat /\ i - Len(bytes) + Len(bytes) = i /\ (i - 1) - off + 1 = i - off
      BY <1>1
    <2>5. CASE i - 1 \in hit
      <3>1. ~(i <= off) /\ i <= off + Len(bytes)
        BY <2>5, <1>1
      <3>2. w[i] = bytes[i - off]
        BY <2>1, <2>4, <2>5, <1>2
      <3> QED BY <2>3, <3>1, <3>2
    <2>6. CASE i - 1 \notin hit
      <3>1. i <= off \/ ~(i <= off + Len(bytes))
        BY <2>6, <1>1
      <3>2. x[i] = v[i]
        BY <2>3, <2>4, <3>1
      <3>3. w[i] = v[i]
        BY <2>1, <2>2, <2>6, <1>2
      <3> QED BY <3>2, <3>3
    <2> QED BY <2>5, <2>6
  <1> HIDE DEF w, x
  <1>11. w = x
    BY <1>8, <1>9, <1>10, BufferEqual
  <1> QED BY <1>4, <1>7, <1>11 DEF q, v, w, x

-----------------------------------------------------------------------------
(* Two splices in a row that amount to one. *)

(* A splice that keeps the length overwrites in place. *)
LEMMA OverwritePoint ==
    ASSUME NEW S, NEW buf \in Seq(S), NEW off \in Nat, NEW ins \in Seq(S),
           off + Len(ins) <= Len(buf)
    PROVE  /\ Splice(buf, off, Len(ins), ins) \in Seq(S)
           /\ Len(Splice(buf, off, Len(ins), ins)) = Len(buf)
           /\ \A i \in 1 .. Len(buf) :
                 Splice(buf, off, Len(ins), ins)[i] =
                    IF off < i /\ i <= off + Len(ins) THEN ins[i - off] ELSE buf[i]
  <1>1. Len(ins) \in Nat /\ Len(buf) \in Nat /\ Len(buf) - Len(ins) + Len(ins) = Len(buf)
    OBVIOUS
  <1>2. /\ Splice(buf, off, Len(ins), ins) \in Seq(S)
        /\ Len(Splice(buf, off, Len(ins), ins)) = Len(buf)
    BY <1>1, SpliceType
  <1>3. ASSUME NEW i \in 1 .. Len(buf)
        PROVE  Splice(buf, off, Len(ins), ins)[i] =
                  IF off < i /\ i <= off + Len(ins) THEN ins[i - off] ELSE buf[i]
    <2>1. Splice(buf, off, Len(ins), ins)[i] =
             IF i <= off THEN buf[i]
             ELSE IF i <= off + Len(ins) THEN ins[i - off]
             ELSE buf[i - Len(ins) + Len(ins)]
      BY <1>1 DEF Splice
    <2>2. i - Len(ins) + Len(ins) = i /\ (off < i <=> ~(i <= off))
      BY <1>1
    <2> QED BY <2>1, <2>2
  <1> QED BY <1>2, <1>3

(* The bytes of start .. stop - 1 after x went to a and then y to b. *)
UnionBytes(a, x, b, y, start, stop) ==
    [i \in 1 .. (stop - start) |->
        LET o == start + i - 1 IN
        IF b <= o /\ o < b + Len(y) THEN y[o - b + 1] ELSE x[o - a + 1]]

(* Two overwrites of touching ranges are one overwrite of the union. *)
LEMMA OverwriteUnion ==
    ASSUME NEW S, NEW pre \in Seq(S), NEW a \in Nat, NEW x \in Seq(S), a + Len(x) <= Len(pre),
           NEW b \in Nat, NEW y \in Seq(S), b + Len(y) <= Len(pre),
           a <= b + Len(y), b <= a + Len(x),
           NEW start \in Nat, NEW stop \in Nat,
           start = Lesser(a, b), stop = Greater(a + Len(x), b + Len(y)),
           NEW z \in Seq(S), Len(z) = stop - start,
           z = UnionBytes(a, x, b, y, start, stop),
           NEW mid, mid = Splice(pre, a, Len(x), x)
    PROVE  /\ start + Len(z) <= Len(pre)
           /\ Splice(mid, b, Len(y), y) = Splice(pre, start, Len(z), z)
           /\ Splice(mid, b, Len(y), y) = Splice(mid, start, Len(z), z)
  <1>0. \A i \in 1 .. (stop - start) :
           z[i] = LET o == start + i - 1 IN
                  IF b <= o /\ o < b + Len(y) THEN y[o - b + 1] ELSE x[o - a + 1]
    BY DEF UnionBytes
  <1>1. /\ Len(x) \in Nat /\ Len(y) \in Nat /\ Len(z) \in Nat /\ Len(pre) \in Nat
        /\ start <= a /\ start <= b /\ a + Len(x) <= stop /\ b + Len(y) <= stop
        /\ (start = a \/ start = b) /\ (stop = a + Len(x) \/ stop = b + Len(y))
    BY DEF Lesser, Greater
  <1>2. start + Len(z) = stop /\ stop <= Len(pre)
    BY <1>1, SMTT(30)
  <1> DEFINE post == Splice(mid, b, Len(y), y)
             one == Splice(pre, start, Len(z), z)
             two == Splice(mid, start, Len(z), z)
  <1>3. /\ mid \in Seq(S) /\ Len(mid) = Len(pre)
        /\ \A i \in 1 .. Len(pre) :
              mid[i] = IF a < i /\ i <= a + Len(x) THEN x[i - a] ELSE pre[i]
    BY OverwritePoint, SMTT(30)
  <1>4. /\ post \in Seq(S) /\ Len(post) = Len(pre)
        /\ \A i \in 1 .. Len(pre) :
              post[i] = IF b < i /\ i <= b + Len(y) THEN y[i - b] ELSE mid[i]
    BY <1>3, OverwritePoint, SMTT(30)
  <1>5. /\ one \in Seq(S) /\ Len(one) = Len(pre)
        /\ \A i \in 1 .. Len(pre) :
              one[i] = IF start < i /\ i <= start + Len(z) THEN z[i - start] ELSE pre[i]
    <2>1. pre \in Seq(S) /\ z \in Seq(S) /\ start \in Nat /\ start + Len(z) <= Len(pre)
      BY <1>2
    <2> QED BY ONLY <2>1, OverwritePoint DEF one
  <1>6. /\ two \in Seq(S) /\ Len(two) = Len(pre)
        /\ \A i \in 1 .. Len(pre) :
              two[i] = IF start < i /\ i <= start + Len(z) THEN z[i - start] ELSE mid[i]
    <2>1. mid \in Seq(S) /\ z \in Seq(S) /\ start \in Nat /\ start + Len(z) <= Len(mid)
      BY <1>2, <1>3
    <2>2. /\ two \in Seq(S) /\ Len(two) = Len(mid)
          /\ \A i \in 1 .. Len(mid) :
                two[i] = IF start < i /\ i <= start + Len(z) THEN z[i - start] ELSE mid[i]
      BY ONLY <2>1, OverwritePoint DEF two
    <2> QED BY <2>2, <1>3
  <1> HIDE DEF post, one, two
  <1>7. ASSUME NEW i \in 1 .. Len(pre)
        PROVE  post[i] = one[i] /\ post[i] = two[i]
    <2>1. CASE start < i /\ i <= stop
      <3>1. i - start \in 1 .. (stop - start) /\ start + (i - start) - 1 = i - 1
            /\ (i - 1) - b + 1 = i - b /\ (i - 1) - a + 1 = i - a
        <4>1. i \in Nat
          BY <1>1
        <4> QED BY <4>1, <2>1, SMTT(60)
      <3>2. z[i - start] = IF b <= i - 1 /\ i - 1 < b + Len(y) THEN y[i - b] ELSE x[i - a]
        BY <1>0, <3>1
      <3>3. (b <= i - 1 /\ i - 1 < b + Len(y)) <=> (b < i /\ i <= b + Len(y))
        BY <1>1, SMTT(30)
      <3>4. ~(b < i /\ i <= b + Len(y)) => (a < i /\ i <= a + Len(x))
        BY <2>1, <1>1, SMTT(30)
      <3>5. one[i] = z[i - start] /\ two[i] = z[i - start]
        BY <2>1, <1>2, <1>5, <1>6
      <3> QED BY <3>2, <3>3, <3>4, <3>5, <1>3, <1>4
    <2>2. CASE ~(start < i /\ i <= stop)
      <3>1. ~(b < i /\ i <= b + Len(y)) /\ ~(a < i /\ i <= a + Len(x))
        BY <2>2, <1>1, SMTT(30)
      <3> QED BY <2>2, <3>1, <1>2, <1>3, <1>4, <1>5, <1>6
    <2> QED BY <2>1, <2>2
  <1>8. post = one
    BY <1>4, <1>5, <1>7, BufferEqual
  <1>9. post = two
    BY <1>4, <1>6, <1>7, BufferEqual
  <1> QED BY <1>1, <1>2, <1>8, <1>9 DEF post, one, two

(* An overwrite inside what a splice inserted is that splice with other bytes. *)
LEMMA OverwriteInside ==
    ASSUME NEW S, NEW pre \in Seq(S), NEW a \in Nat, NEW r \in Nat, NEW x \in Seq(S),
           a + r <= Len(pre),
           NEW b \in Nat, NEW y \in Seq(S), a <= b, b + Len(y) <= a + Len(x),
           NEW mid, mid = Splice(pre, a, r, x),
           NEW z, z = Splice(x, b - a, Len(y), y)
    PROVE  /\ z \in Seq(S) /\ Len(z) = Len(x)
           /\ a + Len(z) <= Len(mid)
           /\ Splice(mid, b, Len(y), y) = Splice(pre, a, r, z)
           /\ Splice(mid, b, Len(y), y) = Splice(mid, a, Len(z), z)
  <1> DEFINE n == Len(pre) - r + Len(x)
             post == Splice(mid, b, Len(y), y)
             one == Splice(pre, a, r, z)
             two == Splice(mid, a, Len(z), z)
  <1>1. /\ Len(x) \in Nat /\ Len(y) \in Nat /\ Len(pre) \in Nat /\ n \in Nat
        /\ b - a \in Nat /\ (b - a) + Len(y) <= Len(x) /\ b + Len(y) <= n /\ a + Len(x) <= n
    OBVIOUS
  <1>2. /\ z \in Seq(S) /\ Len(z) = Len(x)
        /\ \A j \in 1 .. Len(x) :
              z[j] = IF b - a < j /\ j <= (b - a) + Len(y) THEN y[j - (b - a)] ELSE x[j]
    BY <1>1, OverwritePoint, SMTT(60)
  <1>3. /\ mid \in Seq(S) /\ Len(mid) = n
        /\ \A i \in 1 .. n : mid[i] = IF i <= a THEN pre[i]
                                      ELSE IF i <= a + Len(x) THEN x[i - a]
                                      ELSE pre[i - Len(x) + r]
    <2>1. mid \in Seq(S) /\ Len(mid) = n
      BY SpliceType
    <2>2. \A i \in 1 .. n : mid[i] = IF i <= a THEN pre[i]
                                    ELSE IF i <= a + Len(x) THEN x[i - a]
                                    ELSE pre[i - Len(x) + r]
      BY DEF Splice
    <2> QED BY <2>1, <2>2
  <1>4. /\ one \in Seq(S) /\ Len(one) = n
        /\ \A i \in 1 .. n : one[i] = IF i <= a THEN pre[i]
                                      ELSE IF i <= a + Len(x) THEN z[i - a]
                                      ELSE pre[i - Len(x) + r]
    <2>1. one \in Seq(S) /\ Len(one) = Len(pre) - r + Len(z)
      BY <1>2, SpliceType
    <2>2. \A i \in 1 .. (Len(pre) - r + Len(z)) :
             one[i] = IF i <= a THEN pre[i]
                      ELSE IF i <= a + Len(z) THEN z[i - a]
                      ELSE pre[i - Len(z) + r]
      BY DEF Splice
    <2> QED BY <1>2, <2>1, <2>2
  <1>5. /\ post \in Seq(S) /\ Len(post) = n
        /\ \A i \in 1 .. n :
              post[i] = IF b < i /\ i <= b + Len(y) THEN y[i - b] ELSE mid[i]
    <2>1. mid \in Seq(S) /\ b + Len(y) <= Len(mid)
      BY <1>1, <1>3
    <2>2. /\ post \in Seq(S) /\ Len(post) = Len(mid)
          /\ \A i \in 1 .. Len(mid) :
                post[i] = IF b < i /\ i <= b + Len(y) THEN y[i - b] ELSE mid[i]
      BY <2>1, OverwritePoint
    <2> QED BY <2>2, <1>3
  <1>6. /\ two \in Seq(S) /\ Len(two) = n
        /\ \A i \in 1 .. n :
              two[i] = IF a < i /\ i <= a + Len(z) THEN z[i - a] ELSE mid[i]
    <2>1. mid \in Seq(S) /\ z \in Seq(S) /\ a + Len(z) <= Len(mid)
      BY <1>1, <1>2, <1>3
    <2>2. /\ two \in Seq(S) /\ Len(two) = Len(mid)
          /\ \A i \in 1 .. Len(mid) :
                two[i] = IF a < i /\ i <= a + Len(z) THEN z[i - a] ELSE mid[i]
      BY <2>1, OverwritePoint, SMTT(60)
    <2> QED BY <2>2, <1>3
  <1> HIDE DEF n, post, one, two
  <1>7. ASSUME NEW i \in 1 .. n
        PROVE  post[i] = one[i] /\ post[i] = two[i]
    <2>1. CASE a < i /\ i <= a + Len(x)
      <3>1. i - a \in 1 .. Len(x) /\ (i - a) - (b - a) = i - b /\ ~(i <= a)
        BY <2>1, <1>1
      <3>2. (b - a < i - a /\ i - a <= (b - a) + Len(y)) <=> (b < i /\ i <= b + Len(y))
        BY <1>1
      <3>3. z[i - a] = IF b < i /\ i <= b + Len(y) THEN y[i - b] ELSE x[i - a]
        BY <1>2, <3>1, <3>2
      <3>4. mid[i] = x[i - a] /\ one[i] = z[i - a] /\ two[i] = z[i - a]
        BY <2>1, <3>1, <1>2, <1>3, <1>4, <1>6
      <3> QED BY <3>3, <3>4, <1>5
    <2>2. CASE ~(a < i /\ i <= a + Len(x))
      <3>1. ~(b < i /\ i <= b + Len(y))
        BY <2>2, <1>1
      <3>2. post[i] = mid[i] /\ two[i] = mid[i]
        BY <2>2, <3>1, <1>2, <1>5, <1>6
      <3>3. i <= a \/ (~(i <= a) /\ ~(i <= a + Len(x)))
        BY <2>2, <1>1
      <3>4. one[i] = mid[i]
        BY <3>3, <1>3, <1>4
      <3> QED BY <3>2, <3>4
    <2> QED BY <2>1, <2>2
  <1>8. post = one
    BY <1>4, <1>5, <1>7, BufferEqual
  <1>9. post = two
    BY <1>5, <1>6, <1>7, BufferEqual
  <1> QED BY <1>1, <1>2, <1>3, <1>8, <1>9 DEF post, one, two

(* An insert right behind an insert is one insert of both. *)
LEMMA InsertBehind ==
    ASSUME NEW S, NEW pre \in Seq(S), NEW a \in Nat, NEW x \in Seq(S), a <= Len(pre),
           NEW y \in Seq(S),
           NEW mid, mid = Splice(pre, a, 0, x)
    PROVE  Splice(mid, a + Len(x), 0, y) = Splice(pre, a, 0, x \o y)
  <1> DEFINE n == Len(pre) + Len(x) + Len(y)
             post == Splice(mid, a + Len(x), 0, y)
             one == Splice(pre, a, 0, x \o y)
  <1>1. /\ Len(x) \in Nat /\ Len(y) \in Nat /\ Len(pre) \in Nat /\ n \in Nat
        /\ x \o y \in Seq(S) /\ Len(x \o y) = Len(x) + Len(y)
        /\ \A j \in 1 .. (Len(x) + Len(y)) :
              (x \o y)[j] = IF j <= Len(x) THEN x[j] ELSE y[j - Len(x)]
    OBVIOUS
  <1>2. /\ mid \in Seq(S) /\ Len(mid) = Len(pre) + Len(x)
        /\ \A i \in 1 .. (Len(pre) + Len(x)) :
              mid[i] = IF i <= a THEN pre[i]
                       ELSE IF i <= a + Len(x) THEN x[i - a]
                       ELSE pre[i - Len(x)]
    <2>1. mid \in Seq(S) /\ Len(mid) = Len(pre) - 0 + Len(x)
      BY SpliceType
    <2>2. Len(pre) - 0 + Len(x) = Len(pre) + Len(x)
      BY <1>1
    <2>3. \A i \in 1 .. (Len(pre) - 0 + Len(x)) :
              mid[i] = IF i <= a THEN pre[i]
                       ELSE IF i <= a + Len(x) THEN x[i - a]
                       ELSE pre[i - Len(x) + 0]
      BY DEF Splice
    <2>4. \A i \in Nat : i - Len(x) + 0 = i - Len(x)
      BY <1>1
    <2> QED BY <1>1, <2>1, <2>2, <2>3, <2>4
  <1>3. /\ post \in Seq(S) /\ Len(post) = n
        /\ \A i \in 1 .. n :
              post[i] = IF i <= a + Len(x) THEN mid[i]
                        ELSE IF i <= a + Len(x) + Len(y) THEN y[i - (a + Len(x))]
                        ELSE mid[i - Len(y)]
    <2>0. a + Len(x) \in Nat /\ (a + Len(x)) + 0 <= Len(mid) /\ 0 \in Nat
      BY <1>1, <1>2
    <2>1. post \in Seq(S) /\ Len(post) = Len(mid) - 0 + Len(y)
      BY <2>0, <1>2, SpliceType
    <2>2. Len(mid) - 0 + Len(y) = n
      <3>1. Len(mid) = Len(pre) + Len(x) /\ Len(pre) \in Nat /\ Len(x) \in Nat /\ Len(y) \in Nat
        BY <1>1, <1>2
      <3> QED BY ONLY <3>1
    <2>3. \A i \in 1 .. (Len(mid) - 0 + Len(y)) :
              post[i] = IF i <= a + Len(x) THEN mid[i]
                        ELSE IF i <= a + Len(x) + Len(y) THEN y[i - (a + Len(x))]
                        ELSE mid[i - Len(y) + 0]
      BY DEF Splice
    <2>4. \A i \in Nat : i - Len(y) + 0 = i - Len(y)
      BY <1>1
    <2> QED BY <1>1, <2>1, <2>2, <2>3, <2>4
  <1>4. /\ one \in Seq(S) /\ Len(one) = n
        /\ \A i \in 1 .. n :
              one[i] = IF i <= a THEN pre[i]
                       ELSE IF i <= a + (Len(x) + Len(y)) THEN (x \o y)[i - a]
                       ELSE pre[i - (Len(x) + Len(y))]
    <2>0. a + 0 <= Len(pre) /\ 0 \in Nat /\ x \o y \in Seq(S)
      BY <1>1
    <2>1. one \in Seq(S) /\ Len(one) = Len(pre) - 0 + Len(x \o y)
      <3> DEFINE xy == x \o y
      <3>1. pre \in Seq(S) /\ a \in Nat /\ 0 \in Nat /\ xy \in Seq(S) /\ a + 0 <= Len(pre)
        BY <2>0
      <3> HIDE DEF xy
      <3>2. /\ Splice(pre, a, 0, xy) \in Seq(S)
            /\ Len(Splice(pre, a, 0, xy)) = Len(pre) - 0 + Len(xy)
        BY ONLY <3>1, SpliceType
      <3> QED BY <3>2 DEF xy
    <2>2. Len(pre) - 0 + Len(x \o y) = n
      BY <1>1
    <2>3. \A i \in 1 .. (Len(pre) - 0 + Len(x \o y)) :
              one[i] = IF i <= a THEN pre[i]
                       ELSE IF i <= a + Len(x \o y) THEN (x \o y)[i - a]
                       ELSE pre[i - Len(x \o y) + 0]
      BY DEF Splice
    <2>4. \A i \in Nat : i - Len(x \o y) + 0 = i - (Len(x) + Len(y))
      BY <1>1
    <2> QED BY <1>1, <2>1, <2>2, <2>3, <2>4
  <1> HIDE DEF post, one
  <1>5. ASSUME NEW i \in 1 .. n PROVE post[i] = one[i]
    <2>1. CASE i <= a
      <3>1. i <= a + Len(x) /\ i \in 1 .. (Len(pre) + Len(x))
        BY <2>1, <1>1
      <3> QED BY <2>1, <3>1, <1>2, <1>3, <1>4
    <2>2. CASE ~(i <= a) /\ i <= a + Len(x)
      <3>1. i \in 1 .. (Len(pre) + Len(x)) /\ i <= a + (Len(x) + Len(y))
            /\ i - a \in 1 .. (Len(x) + Len(y)) /\ i - a <= Len(x)
        BY <2>2, <1>1
      <3>2. (x \o y)[i - a] = x[i - a]
        BY <3>1, <1>1
      <3> QED BY <2>2, <3>1, <3>2, <1>2, <1>3, <1>4
    <2>3. CASE ~(i <= a + Len(x)) /\ i <= a + (Len(x) + Len(y))
      <3>1. ~(i <= a) /\ i - a \in 1 .. (Len(x) + Len(y)) /\ ~(i - a <= Len(x))
            /\ (i - a) - Len(x) = i - (a + Len(x)) /\ i <= a + Len(x) + Len(y)
        BY <2>3, <1>1
      <3>2. (x \o y)[i - a] = y[(i - a) - Len(x)]
        BY <3>1, <1>1
      <3>3. one[i] = (x \o y)[i - a]
        BY <2>3, <3>1, <1>4
      <3>4. post[i] = y[i - (a + Len(x))]
        BY <2>3, <3>1, <1>3
      <3> QED BY <3>1, <3>2, <3>3, <3>4
    <2>4. CASE ~(i <= a + (Len(x) + Len(y)))
      <3>1. /\ ~(i <= a + Len(x)) /\ ~(i <= a + Len(x) + Len(y)) /\ ~(i <= a)
            /\ i - Len(y) \in 1 .. (Len(pre) + Len(x))
            /\ ~(i - Len(y) <= a) /\ ~(i - Len(y) <= a + Len(x))
            /\ (i - Len(y)) - Len(x) = i - (Len(x) + Len(y))
        BY <2>4, <1>1
      <3>2. post[i] = mid[i - Len(y)]
        BY <3>1, <1>3
      <3>3. mid[i - Len(y)] = pre[(i - Len(y)) - Len(x)]
        BY <3>1, <1>2
      <3>4. one[i] = pre[i - (Len(x) + Len(y))]
        BY <2>4, <3>1, <1>4
      <3> QED BY <3>1, <3>2, <3>3, <3>4
    <2> QED BY <1>1, <2>1, <2>2, <2>3, <2>4
  <1> HIDE DEF n
  <1>6. post = one
    BY <1>3, <1>4, <1>5, BufferEqual
  <1> QED BY <1>6 DEF post, one

-----------------------------------------------------------------------------
(* Entries. *)

(* The entry removes or inserts something. *)
NonTrivial(e) == e.old_bytes # << >> \/ e.new_bytes # << >>

(* The entry m does the work of last and of an edit made right after it:    *)
(* from pre to post, and in place from mid if that edit keeps the length.   *)
MergesTo(pre, last, e, mid, post, m) ==
    /\ m \in EditEntry
    /\ Applies(pre, m, post)
    /\ IsLP(m) <=> IsLP(last)
    /\ NonTrivial(m)
    /\ IsLP(e) => /\ m.offset + Len(m.new_bytes) <= Len(mid)
                  /\ post = Splice(mid, m.offset, Len(m.new_bytes), m.new_bytes)

(* The fields of an entry. *)
LEMMA EntryFields ==
    ASSUME NEW e \in EditEntry
    PROVE  /\ e.offset \in Nat /\ e.old_bytes \in Seq(Byte) /\ e.new_bytes \in Seq(Byte)
           /\ Len(e.old_bytes) \in Nat /\ Len(e.new_bytes) \in Nat
           /\ e = [offset |-> e.offset, old_bytes |-> e.old_bytes, new_bytes |-> e.new_bytes]
  <1>1. e.offset \in Nat /\ e.old_bytes \in Seq(Byte) /\ e.new_bytes \in Seq(Byte)
    BY DEF EditEntry
  <1>2. e = [offset |-> e.offset, old_bytes |-> e.old_bytes, new_bytes |-> e.new_bytes]
    BY DEF EditEntry
  <1> QED BY <1>1, <1>2

(* The buffer after an entry. *)
LEMMA AppliesType ==
    ASSUME NEW pre \in Seq(Byte), NEW e \in EditEntry, NEW post, Applies(pre, e, post)
    PROVE  /\ post \in Seq(Byte)
           /\ Len(post) = Len(pre) - Len(e.old_bytes) + Len(e.new_bytes)
           /\ \A i \in 1 .. Len(e.old_bytes) : e.old_bytes[i] = pre[e.offset + i]
  <1>1. /\ e.offset \in Nat /\ e.new_bytes \in Seq(Byte) /\ Len(e.old_bytes) \in Nat
        /\ e.offset + Len(e.old_bytes) <= Len(pre)
        /\ e.old_bytes = Slice(pre, e.offset, Len(e.old_bytes))
        /\ post = Splice(pre, e.offset, Len(e.old_bytes), e.new_bytes)
    BY EntryFields DEF Applies
  <1>2. /\ post \in Seq(Byte)
        /\ Len(post) = Len(pre) - Len(e.old_bytes) + Len(e.new_bytes)
    <2> DEFINE off == e.offset
               rem == Len(e.old_bytes)
               new == e.new_bytes
    <2>1. /\ pre \in Seq(Byte) /\ off \in Nat /\ rem \in Nat /\ new \in Seq(Byte)
          /\ off + rem <= Len(pre) /\ post = Splice(pre, off, rem, new)
      BY <1>1
    <2> HIDE DEF off, rem, new
    <2>2. post \in Seq(Byte) /\ Len(post) = Len(pre) - rem + Len(new)
      BY ONLY <2>1, SpliceType, SMTT(60)
    <2> QED BY <2>2 DEF rem, new
  <1>3. \A i \in 1 .. Len(e.old_bytes) :
           Slice(pre, e.offset, Len(e.old_bytes))[i] = pre[e.offset + i]
    BY <1>1, SliceType, ZenonT(40)
  <1> QED BY <1>1, <1>2, <1>3

(* merge_entry: a run of typing. *)
LEMMA MergeTypingRun ==
    ASSUME NEW pre \in Seq(Byte), NEW last \in EditEntry, NEW e \in EditEntry,
           NEW mid, NEW post, Applies(pre, last, mid), Applies(mid, e, post),
           IsTypingRun(last, e), NonTrivial(last)
    PROVE  MergesTo(pre, last, e, mid, post, merge_entry(last, e))
  <1> DEFINE a == last.offset
             x == last.new_bytes
             b == e.offset
             y == e.new_bytes
             start == Lesser(a, b)
             stop == Greater(a + Len(x), b + Len(y))
             m == merge_entry(last, e)
             In(u, o) == u.offset <= o /\ o < End(u)
  <1>1. /\ a \in Nat /\ b \in Nat /\ x \in Seq(Byte) /\ y \in Seq(Byte)
        /\ Len(x) \in Nat /\ Len(y) \in Nat
        /\ last.old_bytes \in Seq(Byte) /\ e.old_bytes \in Seq(Byte)
    BY EntryFields
  <1>2. /\ Len(last.old_bytes) = Len(x) /\ Len(e.old_bytes) = Len(y)
        /\ a <= b + Len(y) /\ b <= a + Len(x)
    BY DEF IsTypingRun, IsLP, ranges_touch, End
  <1>3. /\ a + Len(x) <= Len(pre) /\ mid = Splice(pre, a, Len(x), x)
        /\ b + Len(y) <= Len(mid) /\ post = Splice(mid, b, Len(y), y)
    BY <1>2 DEF Applies
  <1>4. /\ mid \in Seq(Byte) /\ Len(mid) = Len(pre) /\ Len(pre) \in Nat
        /\ \A i \in 1 .. Len(pre) :
              mid[i] = IF a < i /\ i <= a + Len(x) THEN x[i - a] ELSE pre[i]
    BY <1>1, <1>3, OverwritePoint, SMTT(30)
  <1>5. \A i \in 1 .. Len(x) : last.old_bytes[i] = pre[a + i]
    BY <1>2, AppliesType
  <1>6. \A i \in 1 .. Len(y) : e.old_bytes[i] = mid[b + i]
    BY <1>2, <1>4, AppliesType
  <1>7. /\ start \in Nat /\ stop \in Nat /\ start <= a /\ start <= b
        /\ a + Len(x) <= stop /\ b + Len(y) <= stop /\ stop - start \in Nat
        /\ (start = a \/ start = b) /\ (stop = a + Len(x) \/ stop = b + Len(y))
    <2>1. /\ a \in Nat /\ b \in Nat /\ Len(x) \in Nat /\ Len(y) \in Nat
      BY <1>1
    <2> HIDE DEF a, b, x, y
    <2> QED BY ONLY <2>1 DEF start, stop, Lesser, Greater
  <1>8. /\ m.offset = start
        /\ m.new_bytes = [i \in 1 .. (stop - start) |->
                             IF In(e, start + i - 1) THEN y[(start + i - 1) - b + 1]
                             ELSE x[(start + i - 1) - a + 1]]
        /\ m.old_bytes = [i \in 1 .. (stop - start) |->
                             IF In(last, start + i - 1)
                             THEN last.old_bytes[(start + i - 1) - a + 1]
                             ELSE e.old_bytes[(start + i - 1) - b + 1]]
        /\ m = [offset |-> m.offset, new_bytes |-> m.new_bytes, old_bytes |-> m.old_bytes]
    BY DEF merge_entry, End
  <1> HIDE DEF m, start, stop
  <1>9. ASSUME NEW i \in 1 .. (stop - start)
        PROVE  /\ In(e, start + i - 1) => (start + i - 1) - b + 1 \in 1 .. Len(y)
               /\ ~In(e, start + i - 1) => (start + i - 1) - a + 1 \in 1 .. Len(x)
               /\ In(last, start + i - 1) => (start + i - 1) - a + 1 \in 1 .. Len(x)
               /\ ~In(last, start + i - 1) =>
                     /\ (start + i - 1) - b + 1 \in 1 .. Len(y)
                     /\ ~(a < start + i /\ start + i <= a + Len(x))
               /\ start + i \in 1 .. Len(pre)
               /\ a + ((start + i - 1) - a + 1) = start + i
               /\ b + ((start + i - 1) - b + 1) = start + i
    <2>1. stop <= Len(pre)
      BY <1>1, <1>3, <1>4, <1>7
    <2>2. i \in Nat /\ 1 <= i /\ i <= stop - start
      BY <1>7
    <2> HIDE DEF a, b, x, y
    <2>3. a \in Nat /\ b \in Nat /\ Len(x) \in Nat /\ Len(y) \in Nat /\ Len(pre) \in Nat
      BY <1>1, <1>4
    <2>4. /\ In(e, start + i - 1) <=> (b <= start + i - 1 /\ start + i - 1 < b + Len(y))
          /\ In(last, start + i - 1) <=> (a <= start + i - 1 /\ start + i - 1 < a + Len(x))
      BY DEF End, a, b, x, y
    <2> HIDE DEF In
    <2> QED BY ONLY <1>2, <1>7, <2>1, <2>2, <2>3, <2>4
  <1>10. m.new_bytes \in Seq(Byte) /\ Len(m.new_bytes) = stop - start
    <2>1. m.new_bytes \in [1 .. (stop - start) -> Byte]
      BY <1>1, <1>8, <1>9
    <2> QED BY <1>7, <2>1, FunctionIsBuffer
  <1>11. ASSUME NEW i \in 1 .. (stop - start) PROVE m.old_bytes[i] = pre[start + i]
    <2>1. CASE In(last, start + i - 1)
      <3>1. m.old_bytes[i] = last.old_bytes[(start + i - 1) - a + 1]
        BY <1>8, <2>1
      <3>2. (start + i - 1) - a + 1 \in 1 .. Len(x)
            /\ a + ((start + i - 1) - a + 1) = start + i
        BY <1>9, <2>1
      <3> QED BY <1>5, <3>1, <3>2
    <2>2. CASE ~In(last, start + i - 1)
      <3>1. m.old_bytes[i] = e.old_bytes[(start + i - 1) - b + 1]
        BY <1>8, <2>2
      <3>2. /\ (start + i - 1) - b + 1 \in 1 .. Len(y)
            /\ b + ((start + i - 1) - b + 1) = start + i
            /\ ~(a < start + i /\ start + i <= a + Len(x)) /\ start + i \in 1 .. Len(pre)
        BY <1>9, <2>2
      <3>3. m.old_bytes[i] = mid[start + i]
        BY <1>6, <3>1, <3>2
      <3> QED BY <1>4, <3>2, <3>3
    <2> QED BY <2>1, <2>2
  <1>12. m.old_bytes = Slice(pre, start, stop - start)
    BY <1>8, <1>11 DEF Slice
  <1>13. stop <= Len(pre) /\ start + (stop - start) = stop
    BY <1>1, <1>3, <1>4, <1>7
  <1>14. m.old_bytes \in Seq(Byte) /\ Len(m.old_bytes) = stop - start
    <2> DEFINE n == stop - start
    <2>1. /\ pre \in Seq(Byte) /\ start \in Nat /\ n \in Nat /\ start + n <= Len(pre)
          /\ m.old_bytes = Slice(pre, start, n)
      BY <1>7, <1>12, <1>13
    <2> HIDE DEF n
    <2>2. m.old_bytes \in Seq(Byte) /\ Len(m.old_bytes) = n
      BY ONLY <2>1, SliceType
    <2> QED BY <2>2 DEF n
  <1>15. /\ start + Len(m.new_bytes) <= Len(pre)
         /\ post = Splice(pre, start, Len(m.new_bytes), m.new_bytes)
         /\ post = Splice(mid, start, Len(m.new_bytes), m.new_bytes)
    <2>1. m.new_bytes = UnionBytes(a, x, b, y, start, stop)
      BY <1>8 DEF UnionBytes, End
    <2>2. b + Len(y) <= Len(pre)
      BY <1>3, <1>4
    <2>3. start = Lesser(a, b) /\ stop = Greater(a + Len(x), b + Len(y))
      BY DEF start, stop
    <2> DEFINE z == m.new_bytes
    <2> HIDE DEF a, b, x, y
    <2>4. /\ pre \in Seq(Byte) /\ a \in Nat /\ x \in Seq(Byte) /\ b \in Nat /\ y \in Seq(Byte)
          /\ start \in Nat /\ stop \in Nat /\ z \in Seq(Byte) /\ Len(z) = stop - start
          /\ a + Len(x) <= Len(pre) /\ b + Len(y) <= Len(pre)
          /\ a <= b + Len(y) /\ b <= a + Len(x)
          /\ mid = Splice(pre, a, Len(x), x)
      BY <1>1, <1>2, <1>3, <1>7, <1>10, <2>2
    <2>5. z = UnionBytes(a, x, b, y, start, stop)
      BY <2>1
    <2> HIDE DEF z
    <2>6. /\ start + Len(z) <= Len(pre)
          /\ Splice(mid, b, Len(y), y) = Splice(pre, start, Len(z), z)
          /\ Splice(mid, b, Len(y), y) = Splice(mid, start, Len(z), z)
      BY ONLY <2>3, <2>4, <2>5, OverwriteUnion, SMTT(30)
    <2> QED BY <1>3, <2>6 DEF z
  <1>16. m \in EditEntry
    BY <1>7, <1>8, <1>10, <1>14 DEF EditEntry
  <1>17. Applies(pre, m, post)
    BY <1>8, <1>10, <1>12, <1>14, <1>15 DEF Applies
  <1>18. IsLP(m) /\ IsLP(last)
    BY <1>2, <1>10, <1>14 DEF IsLP
  <1>19. NonTrivial(m)
    <2>1. Len(x) # 0
      BY <1>1, <1>2 DEF NonTrivial
    <2>2. Len(m.new_bytes) # 0
      BY <1>1, <1>7, <1>10, <2>1
    <2> QED BY <2>2 DEF NonTrivial
  <1> QED BY <1>4, <1>8, <1>15, <1>16, <1>17, <1>18, <1>19 DEF MergesTo, m

(* The second case: a length-preserving edit of what the last entry wrote. *)
LEMMA MergeInside ==
    ASSUME NEW pre \in Seq(Byte), NEW last \in EditEntry, NEW e \in EditEntry,
           NEW mid, NEW post, Applies(pre, last, mid), Applies(mid, e, post),
           IsInsideLast(last, e), NonTrivial(last),
           NEW m, m = [last EXCEPT !.new_bytes =
                         Splice(@, e.offset - last.offset, Len(e.new_bytes), e.new_bytes)]
    PROVE  MergesTo(pre, last, e, mid, post, m)
  <1> DEFINE a == last.offset
             old == last.old_bytes
             r == Len(old)
             x == last.new_bytes
             b == e.offset
             y == e.new_bytes
             z == Splice(x, b - a, Len(y), y)
  <1>1. /\ a \in Nat /\ r \in Nat /\ x \in Seq(Byte) /\ b \in Nat /\ y \in Seq(Byte)
        /\ old \in Seq(Byte) /\ Len(x) \in Nat
        /\ last = [offset |-> a, old_bytes |-> old, new_bytes |-> x]
    BY EntryFields
  <1>2. /\ Len(e.old_bytes) = Len(y) /\ a <= b /\ b + Len(y) <= a + Len(x)
    BY <1>1 DEF IsInsideLast, IsLP, End
  <1>3. /\ a + r <= Len(pre) /\ old = Slice(pre, a, r) /\ mid = Splice(pre, a, r, x)
        /\ post = Splice(mid, b, Len(y), y)
    BY <1>2 DEF Applies
  <1>4. m = [offset |-> a, old_bytes |-> old, new_bytes |-> z]
    BY <1>1
  <1> HIDE DEF a, old, x, b, y
  <1>5. /\ z \in Seq(Byte) /\ Len(z) = Len(x)
        /\ a + Len(z) <= Len(mid)
        /\ Splice(mid, b, Len(y), y) = Splice(pre, a, r, z)
        /\ Splice(mid, b, Len(y), y) = Splice(mid, a, Len(z), z)
    <2>1. /\ pre \in Seq(Byte) /\ a \in Nat /\ r \in Nat /\ x \in Seq(Byte)
          /\ b \in Nat /\ y \in Seq(Byte) /\ a + r <= Len(pre)
          /\ a <= b /\ b + Len(y) <= a + Len(x) /\ mid = Splice(pre, a, r, x)
          /\ z = Splice(x, b - a, Len(y), y)
      BY <1>1, <1>2, <1>3
    <2> HIDE DEF z, r
    <2> QED BY ONLY <2>1, OverwriteInside
  <1> HIDE DEF z
  <1>6. m.offset = a /\ m.old_bytes = old /\ m.new_bytes = z
    BY <1>4
  <1>7. m \in EditEntry
    <2>1. a \in Nat /\ old \in Seq(Byte) /\ z \in Seq(Byte)
      BY <1>1, <1>5
    <2> QED BY ONLY <1>4, <2>1 DEF EditEntry
  <1>8. Applies(pre, m, post)
    BY <1>3, <1>5, <1>6 DEF Applies
  <1>9. IsLP(m) <=> IsLP(last)
    BY <1>5, <1>6 DEF IsLP, old, x
  <1>10. NonTrivial(m)
    <2>1. old # << >> \/ x # << >>
      BY DEF NonTrivial, old, x
    <2>2. x # << >> => z # << >>
      BY <1>1, <1>5
    <2> QED BY <1>6, <2>1, <2>2 DEF NonTrivial
  <1> QED BY <1>3, <1>5, <1>6, <1>7, <1>8, <1>9, <1>10 DEF MergesTo

(* The third case: an insert right behind an insert. *)
LEMMA MergeAdjacent ==
    ASSUME NEW pre \in Seq(Byte), NEW last \in EditEntry, NEW e \in EditEntry,
           NEW mid, NEW post, Applies(pre, last, mid), Applies(mid, e, post),
           IsAdjacentInsert(last, e), NonTrivial(last), NonTrivial(e),
           NEW m, m = [last EXCEPT !.new_bytes = @ \o e.new_bytes]
    PROVE  MergesTo(pre, last, e, mid, post, m)
  <1> DEFINE a == last.offset
             x == last.new_bytes
             y == e.new_bytes
             z == x \o y
  <1>1. /\ a \in Nat /\ x \in Seq(Byte) /\ y \in Seq(Byte) /\ Len(x) \in Nat /\ Len(y) \in Nat
        /\ last = [offset |-> a, old_bytes |-> last.old_bytes, new_bytes |-> x]
    BY EntryFields
  <1>2. /\ last.old_bytes = << >> /\ e.old_bytes = << >> /\ e.offset = a + Len(x)
        /\ Len(<< >>) = 0 /\ << >> \in Seq(Byte)
    BY DEF IsAdjacentInsert, End
  <1>3. /\ a <= Len(pre) /\ mid = Splice(pre, a, 0, x)
        /\ << >> = Slice(pre, a, 0)
        /\ post = Splice(mid, a + Len(x), 0, y)
    BY <1>1, <1>2 DEF Applies
  <1>4. m = [offset |-> a, old_bytes |-> << >>, new_bytes |-> z]
    BY <1>1, <1>2
  <1>5. x # << >> /\ y # << >>
    BY <1>2 DEF NonTrivial
  <1>6. Len(x) # 0 /\ Len(y) # 0
    BY <1>1, <1>5
  <1>7. z \in Seq(Byte) /\ Len(z) = Len(x) + Len(y)
    BY <1>1
  <1>8. post = Splice(pre, a, 0, z)
    <2>1. /\ pre \in Seq(Byte) /\ a \in Nat /\ x \in Seq(Byte) /\ a <= Len(pre)
          /\ y \in Seq(Byte) /\ mid = Splice(pre, a, 0, x)
      BY <1>1, <1>3
    <2> HIDE DEF a, x, y
    <2>2. Splice(mid, a + Len(x), 0, y) = Splice(pre, a, 0, x \o y)
      BY ONLY <2>1, InsertBehind
    <2> QED BY <1>3, <2>2
  <1> HIDE DEF a, x, y, z
  <1>9. m.offset = a /\ m.old_bytes = << >> /\ m.new_bytes = z
    BY <1>4
  <1>10. m \in EditEntry
    <2>1. a \in Nat /\ << >> \in Seq(Byte) /\ z \in Seq(Byte)
      BY <1>1, <1>2, <1>7
    <2> QED BY ONLY <1>4, <2>1 DEF EditEntry
  <1>11. Applies(pre, m, post)
    BY <1>1, <1>2, <1>3, <1>8, <1>9 DEF Applies
  <1>12. ~IsLP(m) /\ ~IsLP(last) /\ ~IsLP(e)
    <2>1. Len(z) # 0
      BY <1>1, <1>6, <1>7
    <2> QED BY <1>2, <1>6, <1>9, <2>1 DEF IsLP, x, y
  <1>13. NonTrivial(m)
    <2>1. Len(z) # 0
      BY <1>1, <1>6, <1>7
    <2> QED BY <1>2, <1>9, <2>1 DEF NonTrivial
  <1> QED BY <1>10, <1>11, <1>12, <1>13 DEF MergesTo

(* record_entry folds an edit into the last entry without losing either. *)
LEMMA CoalescedMerges ==
    ASSUME NEW pre \in Seq(Byte), NEW last \in EditEntry, NEW e \in EditEntry,
           NEW mid, NEW post, Applies(pre, last, mid), Applies(mid, e, post),
           Coalesces(last, e), NonTrivial(last), NonTrivial(e)
    PROVE  MergesTo(pre, last, e, mid, post, Coalesced(last, e))
  <1>1. CASE IsTypingRun(last, e)
    BY <1>1, MergeTypingRun DEF Coalesced
  <1>2. CASE ~IsTypingRun(last, e) /\ IsInsideLast(last, e)
    BY <1>2, MergeInside DEF Coalesced
  <1>3. CASE ~IsTypingRun(last, e) /\ ~IsInsideLast(last, e) /\ IsAdjacentInsert(last, e)
    BY <1>3, MergeAdjacent DEF Coalesced
  <1> QED BY <1>1, <1>2, <1>3 DEF Coalesces

-----------------------------------------------------------------------------
(* Replace All over two matches. *)

(* The operations of a batch with two matches, at a and b. *)
TwoOps(a, b, r) == ReplaceAll(<<a, b>>, 1, r)

(* The bytes of the matches' span once both are replaced. *)
TwoReplaced(v, a, b, r) == (r \o Slice(v, a + 1, b - a - 1)) \o r

(* The fields of the two operations. *)
LEMMA ReplaceTwo ==
    ASSUME NEW a, NEW b, NEW r, NEW ops, ops = TwoOps(a, b, r)
    PROVE  /\ Len(ops) = 2
           /\ ops[1].offset = a /\ ops[1].remove = 1 /\ ops[1].insert = r
           /\ ops[2].offset = b /\ ops[2].remove = 1 /\ ops[2].insert = r
  <1> DEFINE f == [k \in 1 .. 2 |->
                     [offset |-> <<a, b>>[k], remove |-> 1, insert |-> r]]
  <1>1. ops = f
    BY DEF TwoOps, ReplaceAll
  <1>2. /\ f[1].offset = a /\ f[1].remove = 1 /\ f[1].insert = r
        /\ f[2].offset = b /\ f[2].remove = 1 /\ f[2].insert = r
    OBVIOUS
  <1>3. Len(f) = 2
    <2>1. DOMAIN f = 1 .. 2 /\ f \in Seq({f[1], f[2]})
      OBVIOUS
    <2> QED BY <2>1
  <1> QED BY <1>1, <1>2, <1>3

(* Back to front: the second match first. *)
LEMMA BatchTwo ==
    ASSUME NEW a, NEW b, NEW r, NEW ops, ops = TwoOps(a, b, r), NEW v
    PROVE  Batch(v, ops) = Splice(Splice(v, b, 1, r), a, 1, r)
  <1> DEFINE s2 == Splice(v, b, 1, r)
             s1 == Splice(s2, a, 1, r)
             Eqn(f) == f = [k \in 1 .. Len(ops) + 1 |->
                              IF k > Len(ops) THEN v
                              ELSE Splice(f[k + 1], ops[k].offset, ops[k].remove, ops[k].insert)]
             w == [k \in 1 .. 3 |-> IF k = 3 THEN v ELSE IF k = 2 THEN s2 ELSE s1]
             after == CHOOSE f : Eqn(f)
  <1>1. /\ Len(ops) = 2
        /\ ops[1].offset = a /\ ops[1].remove = 1 /\ ops[1].insert = r
        /\ ops[2].offset = b /\ ops[2].remove = 1 /\ ops[2].insert = r
    BY ReplaceTwo
  <1>2. w[1] = s1 /\ w[2] = s2 /\ w[3] = v
    OBVIOUS
  <1>3. Eqn(w)
    <2> DEFINE rhs == [k \in 1 .. 3 |->
                         IF k > 2 THEN v
                         ELSE Splice(w[k + 1], ops[k].offset, ops[k].remove, ops[k].insert)]
    <2>1. \A k \in 1 .. 3 : k = 1 \/ k = 2 \/ k = 3
      OBVIOUS
    <2> HIDE DEF s1, s2, w
    <2>2. rhs[3] = v /\ rhs[2] = Splice(w[3], b, 1, r) /\ rhs[1] = Splice(w[2], a, 1, r)
      <3>1. rhs[3] = v
        OBVIOUS
      <3>2. 2 \in 1 .. 3 /\ ~(2 > 2) /\ 2 + 1 = 3 /\ 1 \in 1 .. 3 /\ ~(1 > 2) /\ 1 + 1 = 2
        OBVIOUS
      <3>3. rhs[2] = Splice(w[3], b, 1, r)
        BY <1>1, <3>2, Zenon
      <3>4. rhs[1] = Splice(w[2], a, 1, r)
        BY <1>1, <3>2, Zenon
      <3> QED BY <3>1, <3>3, <3>4
    <2>3. \A k \in 1 .. 3 : w[k] = rhs[k]
      BY <1>2, <2>1, <2>2 DEF s1, s2
    <2>4. w = rhs
      <3>1. w = [k \in 1 .. 3 |-> w[k]] /\ rhs = [k \in 1 .. 3 |-> rhs[k]]
        BY DEF w
      <3> QED BY <2>3, <3>1
    <2>5. Len(ops) + 1 = 3
      <3>1. Len(ops) = 2
        BY <1>1
      <3> QED BY ONLY <3>1
    <2> QED BY <1>1, <2>4, <2>5
  <1>4. Eqn(after)
    BY <1>3
  <1> HIDE DEF after
  <1>5. after[3] = v
    BY <1>1, <1>4
  <1>6. after[2] = Splice(after[3], b, 1, r)
    BY <1>1, <1>4
  <1>7. after[1] = Splice(after[2], a, 1, r)
    BY <1>1, <1>4
  <1> QED BY <1>5, <1>6, <1>7 DEF Batch, after

(* The bytes of the span: a replacement, the bytes between, a replacement. *)
LEMMA BatchBytesTwo ==
    ASSUME NEW a \in Nat, NEW b \in Nat, NEW r \in Seq(Byte), NEW ops,
           ops = TwoOps(a, b, r), NEW d \in Nat, d >= 1, b = a + d,
           NEW span \in Seq(Byte), Len(span) = d + 1
    PROVE  BatchBytes(ops, span) = TwoReplaced(span, 0, d, r)
  <1> DEFINE kept == Slice(span, 1, d - 1)
             o0 == [bytes |-> << >>, cursor |-> 0]
             o1 == [bytes |-> (o0.bytes \o Slice(span, o0.cursor, (a - a) - o0.cursor)) \o r,
                    cursor |-> (a - a) + 1]
             o2 == [bytes |-> (o1.bytes \o Slice(span, o1.cursor, (b - a) - o1.cursor)) \o r,
                    cursor |-> (b - a) + 1]
             Step(f, k) == [bytes  |-> f[k - 1].bytes
                                     \o Slice(span, f[k - 1].cursor,
                                              (ops[k].offset - ops[1].offset) - f[k - 1].cursor)
                                     \o ops[k].insert,
                            cursor |-> (ops[k].offset - ops[1].offset) + ops[k].remove]
             Eqn(f) == f = [k \in 0 .. Len(ops) |->
                              IF k = 0 THEN [bytes |-> << >>, cursor |-> 0] ELSE Step(f, k)]
             w == [k \in 0 .. 2 |-> IF k = 0 THEN o0 ELSE IF k = 1 THEN o1 ELSE o2]
             out == CHOOSE f : Eqn(f)
  <1>1. /\ Len(ops) = 2
        /\ ops[1].offset = a /\ ops[1].remove = 1 /\ ops[1].insert = r
        /\ ops[2].offset = b /\ ops[2].remove = 1 /\ ops[2].insert = r
    BY ReplaceTwo
  <1>2. w[0] = o0 /\ w[1] = o1 /\ w[2] = o2
    <2> HIDE DEF o0, o1, o2
    <2> QED OBVIOUS
  <1> HIDE DEF w
  <1>3. Eqn(w)
    <2> DEFINE rhs == [k \in 0 .. 2 |->
                  IF k = 0 THEN [bytes |-> << >>, cursor |-> 0]
                  ELSE [bytes  |-> w[k - 1].bytes
                                     \o Slice(span, w[k - 1].cursor,
                                              (ops[k].offset - ops[1].offset) - w[k - 1].cursor)
                                     \o ops[k].insert,
                        cursor |-> (ops[k].offset - ops[1].offset) + ops[k].remove]]
    <2>1. \A k \in 0 .. 2 : k = 0 \/ k = 1 \/ k = 2
      OBVIOUS
    <2>2. rhs[0] = o0
      OBVIOUS
    <2>3. rhs[1] = o1
      <3>1. 1 \in 0 .. 2 /\ 1 # 0 /\ 1 - 1 = 0
        OBVIOUS
      <3> QED BY <1>1, <1>2, <3>1, Zenon DEF o1
    <2>4. rhs[2] = o2
      <3>1. 2 \in 0 .. 2 /\ 2 # 0 /\ 2 - 1 = 1
        OBVIOUS
      <3> QED BY <1>1, <1>2, <3>1, Zenon DEF o2
    <2>5. \A k \in 0 .. 2 : w[k] = rhs[k]
      BY <1>2, <2>1, <2>2, <2>3, <2>4, ZenonT(60)
    <2>6. w = rhs
      <3>1. w = [k \in 0 .. 2 |-> w[k]]
        BY DEF w
      <3>2. rhs = [k \in 0 .. 2 |-> rhs[k]]
        OBVIOUS
      <3> QED BY <2>5, <3>1, <3>2, Zenon
    <2> QED BY <1>1, <2>6
  <1>4. Eqn(out)
    <2>1. \E f : Eqn(f)
      BY <1>3
    <2> HIDE DEF Eqn
    <2> QED BY <2>1
  <1>5. BatchBytes(ops, span) =
           out[Len(ops)].bytes \o Slice(span, out[Len(ops)].cursor, Len(span) - out[Len(ops)].cursor)
    BY DEF BatchBytes
  <1> HIDE DEF out
  <1>6. out[0] = o0 /\ out[1] = Step(out, 1) /\ out[2] = Step(out, 2)
    <2>1. out = [k \in 0 .. 2 |->
                   IF k = 0 THEN [bytes |-> << >>, cursor |-> 0] ELSE Step(out, k)]
      BY <1>1, <1>4, Zenon
    <2>2. 0 \in 0 .. 2 /\ 1 \in 0 .. 2 /\ 2 \in 0 .. 2 /\ 1 # 0 /\ 2 # 0
      OBVIOUS
    <2> HIDE DEF Step
    <2>3. out[0] = o0
      BY ONLY <2>1, <2>2, Zenon DEF o0
    <2>4. out[1] = Step(out, 1)
      BY ONLY <2>1, <2>2, Zenon
    <2>5. out[2] = Step(out, 2)
      BY ONLY <2>1, <2>2, Zenon
    <2> QED BY <2>3, <2>4, <2>5
  <1>7. out[1] = o1
    <2>1. 1 - 1 = 0
      OBVIOUS
    <2> QED BY <1>1, <1>6, <2>1, Zenon DEF o1
  <1>8. out[2] = o2
    <2>1. 2 - 1 = 1
      OBVIOUS
    <2> QED BY <1>1, <1>6, <1>7, <2>1, Zenon DEF o2
  <1>9. /\ d \in Nat /\ d - 1 \in Nat /\ a - a = 0 /\ (a - a) + 1 = 1
        /\ (a - a) - 0 = 0 /\ Len(span) - (d + 1) = 0 /\ Len(span) = d + 1
    OBVIOUS
  <1>10. \A c : Slice(span, c, 0) = << >>
    BY DEF Slice
  <1>11. o1.cursor = 1 /\ o1.bytes = (<< >> \o << >>) \o r
    BY <1>9, <1>10
  <1>12. (<< >> \o << >>) \o r = r
    OBVIOUS
  <1>13. o2.cursor = d + 1 /\ o2.bytes = (r \o kept) \o r
    <2>1. o1.bytes = r /\ o1.cursor = 1
      BY <1>11, <1>12
    <2> HIDE DEF o1
    <2> QED BY <2>1
  <1>14. (r \o kept) \o r \in Seq(Byte)
    <2>1. kept \in Seq(Byte)
      <3>1. span \in Seq(Byte) /\ 1 \in Nat /\ d - 1 \in Nat /\ 1 + (d - 1) <= Len(span)
        BY <1>9
      <3>2. Slice(span, 1, d - 1) \in Seq(Byte)
        BY ONLY <3>1, SliceType
      <3> QED BY <3>2
    <2> HIDE DEF kept
    <2> QED BY <2>1
  <1>15. BatchBytes(ops, span) = ((r \o kept) \o r) \o << >>
    <2> HIDE DEF o2, kept
    <2>1. BatchBytes(ops, span) = o2.bytes \o Slice(span, o2.cursor, Len(span) - o2.cursor)
      BY <1>1, <1>5, <1>8
    <2>2. Slice(span, o2.cursor, Len(span) - o2.cursor) = << >>
      BY <1>9, <1>10, <1>13
    <2> QED BY <1>13, <2>1, <2>2
  <1>16. ((r \o kept) \o r) \o << >> = (r \o kept) \o r
    <2> HIDE DEF kept
    <2> QED BY <1>14
  <1>17. TwoReplaced(span, 0, d, r) = (r \o kept) \o r
    <2>1. 0 + 1 = 1 /\ d - 0 - 1 = d - 1
      OBVIOUS
    <2> QED BY <2>1 DEF TwoReplaced
  <1> QED BY <1>15, <1>16, <1>17

(* One splice of the span does what the two replacements do. *)
LEMMA TwoReplacements ==
    ASSUME NEW v \in Seq(Byte), NEW a \in Nat, NEW b \in Nat, NEW r \in Seq(Byte),
           a + 1 <= b, b + 1 <= Len(v),
           NEW z, z = TwoReplaced(v, a, b, r)
    PROVE  /\ z \in Seq(Byte)
           /\ Splice(v, a, b + 1 - a, z) = Splice(Splice(v, b, 1, r), a, 1, r)
  <1> DEFINE kept == Slice(v, a + 1, b - a - 1)
             d == b - a
             L == Len(r)
             n == Len(v) - 2 + 2 * L
             w == Splice(v, b, 1, r)
             one == Splice(v, a, b + 1 - a, z)
             two == Splice(w, a, 1, r)
  <1>1. /\ L \in Nat /\ Len(v) \in Nat /\ d \in Nat /\ d >= 1 /\ d - 1 \in Nat /\ b = a + d
        /\ b - a - 1 = d - 1 /\ b + 1 - a = d + 1 /\ n \in Nat /\ Len(v) >= a + d + 1
    OBVIOUS
  <1>2. /\ kept \in Seq(Byte) /\ Len(kept) = d - 1
        /\ \A i \in 1 .. (d - 1) : kept[i] = v[(a + 1) + i]
    <2>1. v \in Seq(Byte) /\ a + 1 \in Nat /\ d - 1 \in Nat /\ (a + 1) + (d - 1) <= Len(v)
      BY <1>1
    <2>2. kept = Slice(v, a + 1, d - 1)
      OBVIOUS
    <2> HIDE DEF kept, d
    <2> QED BY ONLY <2>1, <2>2, SliceType, ZenonT(60)
  <1> HIDE DEF kept
  <1>3. /\ z \in Seq(Byte) /\ Len(z) = L + (d - 1) + L
        /\ \A j \in 1 .. (L + (d - 1) + L) :
              z[j] = IF j <= L THEN r[j]
                     ELSE IF j <= L + (d - 1) THEN kept[j - L]
                     ELSE r[j - (L + (d - 1))]
    <2> DEFINE y == r \o kept
    <2>1. /\ y \in Seq(Byte) /\ Len(y) = L + (d - 1)
          /\ \A j \in 1 .. (L + (d - 1)) : y[j] = IF j <= L THEN r[j] ELSE kept[j - L]
      <3>1. r \in Seq(Byte) /\ kept \in Seq(Byte) /\ Len(kept) = d - 1
        BY <1>2
      <3> HIDE DEF d
      <3> QED BY ONLY <3>1, ConcatPoint, ZenonT(60) DEF y, L
    <2>2. z = y \o r
      BY DEF kept, TwoReplaced
    <2> HIDE DEF y
    <2>3. /\ z \in Seq(Byte) /\ Len(z) = Len(y) + L
          /\ \A j \in 1 .. (Len(y) + L) : z[j] = IF j <= Len(y) THEN y[j] ELSE r[j - Len(y)]
      <3>1. r \in Seq(Byte) /\ y \in Seq(Byte)
        BY <2>1
      <3> QED BY ONLY <2>2, <3>1, ConcatPoint DEF L
    <2>4. \A j \in 1 .. (L + (d - 1) + L) : j <= L + (d - 1) => j \in 1 .. (L + (d - 1))
      BY <1>1
    <2>5. \A j \in 1 .. (L + (d - 1) + L) : j <= L => j <= L + (d - 1)
      BY <1>1
    <2> HIDE DEF L, d
    <2> QED BY <2>1, <2>3, <2>4, <2>5
  <1>4. /\ w \in Seq(Byte) /\ Len(w) = Len(v) - 1 + L
        /\ \A i \in 1 .. (Len(v) - 1 + L) :
              w[i] = IF i <= b THEN v[i] ELSE IF i <= b + L THEN r[i - b] ELSE v[i - L + 1]
    <2>1. w \in Seq(Byte) /\ Len(w) = Len(v) - 1 + L
      BY SpliceType
    <2>2. \A i \in 1 .. (Len(v) - 1 + L) :
              w[i] = IF i <= b THEN v[i] ELSE IF i <= b + L THEN r[i - b] ELSE v[i - L + 1]
      BY DEF Splice
    <2> QED BY <2>1, <2>2
  <1>5. /\ two \in Seq(Byte) /\ Len(two) = n
        /\ \A i \in 1 .. n :
              two[i] = IF i <= a THEN w[i] ELSE IF i <= a + L THEN r[i - a] ELSE w[i - L + 1]
    <2>0. w \in Seq(Byte) /\ a \in Nat /\ 1 \in Nat /\ r \in Seq(Byte) /\ a + 1 <= Len(w)
      BY <1>1, <1>4
    <2> HIDE DEF w
    <2>1. two \in Seq(Byte) /\ Len(two) = Len(w) - 1 + Len(r)
      BY ONLY <2>0, SpliceType DEF two
    <2>2. \A i \in 1 .. (Len(w) - 1 + Len(r)) :
              two[i] = IF i <= a THEN w[i]
                       ELSE IF i <= a + Len(r) THEN r[i - a] ELSE w[i - Len(r) + 1]
      BY ONLY <2>0 DEF two, Splice
    <2>3. Len(w) - 1 + Len(r) = n
      BY <1>1, <1>4
    <2> HIDE DEF two, n
    <2> QED BY <2>1, <2>2, <2>3
  <1>6. /\ one \in Seq(Byte) /\ Len(one) = n
        /\ \A i \in 1 .. n :
              one[i] = IF i <= a THEN v[i]
                       ELSE IF i <= a + Len(z) THEN z[i - a]
                       ELSE v[i - Len(z) + (d + 1)]
    <2>0. /\ v \in Seq(Byte) /\ a \in Nat /\ d + 1 \in Nat /\ z \in Seq(Byte)
          /\ a + (d + 1) <= Len(v) /\ one = Splice(v, a, d + 1, z)
      BY <1>1, <1>3
    <2> HIDE DEF d, one
    <2>1. one \in Seq(Byte) /\ Len(one) = Len(v) - (d + 1) + Len(z)
      BY ONLY <2>0, SpliceType
    <2>2. \A i \in 1 .. (Len(v) - (d + 1) + Len(z)) :
              one[i] = IF i <= a THEN v[i]
                       ELSE IF i <= a + Len(z) THEN z[i - a]
                       ELSE v[i - Len(z) + (d + 1)]
      BY ONLY <2>0 DEF Splice
    <2>3. Len(v) - (d + 1) + Len(z) = n
      <3>1. Len(z) = L + (d - 1) + L /\ L \in Nat /\ d \in Nat /\ Len(v) \in Nat
        BY <1>1, <1>3
      <3> HIDE DEF L
      <3> QED BY ONLY <3>1 DEF n
    <2> HIDE DEF n
    <2> QED BY <2>1, <2>2, <2>3
  <1> HIDE DEF one, two, w
  <1>7. ASSUME NEW i \in 1 .. n PROVE one[i] = two[i]
    <2>0. i \in Nat /\ 1 <= i /\ i <= n
      BY <1>1
    <2>1. CASE i <= a
      <3>1. i \in 1 .. (Len(v) - 1 + L) /\ i <= b
        BY <1>1, <2>0, <2>1
      <3> QED BY <1>4, <1>5, <1>6, <2>1, <3>1
    <2>2. CASE ~(i <= a) /\ i <= a + L
      <3>1. /\ i <= a + Len(z) /\ i - a \in 1 .. (L + (d - 1) + L) /\ i - a <= L
        BY <1>1, <1>3, <2>0, <2>2
      <3>2. z[i - a] = r[i - a]
        BY <1>3, <3>1
      <3> QED BY <1>5, <1>6, <2>2, <3>1, <3>2
    <2>3. CASE ~(i <= a + L) /\ i <= a + L + (d - 1)
      <3>1. /\ ~(i <= a) /\ i <= a + Len(z) /\ i - a \in 1 .. (L + (d - 1) + L) /\ ~(i - a <= L)
            /\ i - a <= L + (d - 1) /\ (i - a) - L \in 1 .. (d - 1)
            /\ (a + 1) + ((i - a) - L) = i - L + 1
            /\ i - L + 1 \in 1 .. (Len(v) - 1 + L) /\ i - L + 1 <= b
        BY <1>1, <1>3, <2>0, <2>3, SMTT(30)
      <3>2. z[i - a] = kept[(i - a) - L]
        BY <1>3, <3>1
      <3>3. kept[(i - a) - L] = v[i - L + 1]
        BY <1>2, <3>1
      <3>4. two[i] = w[i - L + 1] /\ one[i] = z[i - a]
        BY <1>5, <1>6, <2>3, <3>1
      <3>5. w[i - L + 1] = v[i - L + 1]
        BY <1>4, <3>1
      <3> QED BY <3>2, <3>3, <3>4, <3>5
    <2>4. CASE ~(i <= a + L + (d - 1)) /\ i <= a + Len(z)
      <3>1. /\ ~(i <= a) /\ ~(i <= a + L) /\ i - a \in 1 .. (L + (d - 1) + L) /\ ~(i - a <= L)
            /\ ~(i - a <= L + (d - 1)) /\ (i - a) - (L + (d - 1)) = (i - L + 1) - b
            /\ i - L + 1 \in 1 .. (Len(v) - 1 + L) /\ ~(i - L + 1 <= b) /\ i - L + 1 <= b + L
        BY <1>1, <1>3, <2>0, <2>4
      <3>2. z[i - a] = r[(i - a) - (L + (d - 1))]
        BY <1>3, <3>1
      <3>4. two[i] = w[i - L + 1] /\ one[i] = z[i - a]
        BY <1>5, <1>6, <2>4, <3>1
      <3>5. w[i - L + 1] = r[(i - L + 1) - b]
        BY <1>4, <3>1
      <3> QED BY <3>1, <3>2, <3>4, <3>5
    <2>5. CASE ~(i <= a + Len(z))
      <3>1. /\ ~(i <= a) /\ ~(i <= a + L)
            /\ i - L + 1 \in 1 .. (Len(v) - 1 + L) /\ ~(i - L + 1 <= b) /\ ~(i - L + 1 <= b + L)
            /\ (i - L + 1) - L + 1 = i - Len(z) + (d + 1)
        <4>1. /\ L \in Nat /\ d \in Nat /\ d >= 1 /\ Len(v) \in Nat /\ Len(v) >= a + d + 1
              /\ b = a + d /\ Len(z) = L + (d - 1) + L /\ a \in Nat
          BY <1>1, <1>3
        <4> HIDE DEF L, d
        <4> QED BY ONLY <2>0, <2>5, <4>1 DEF n
      <3>4. two[i] = w[i - L + 1] /\ one[i] = v[i - Len(z) + (d + 1)]
        BY <1>5, <1>6, <2>5, <3>1
      <3>5. w[i - L + 1] = v[(i - L + 1) - L + 1]
        BY <1>4, <3>1
      <3> QED BY <3>1, <3>4, <3>5
    <2> QED BY <1>1, <2>0, <2>1, <2>2, <2>3, <2>4, <2>5
  <1>8. one = two
    <2> HIDE DEF n
    <2> QED BY <1>5, <1>6, <1>7, BufferEqual
  <1> QED BY <1>3, <1>8 DEF one, two, w

(* splice_many's single entry does what the batch asked for. *)
LEMMA BatchAsOneEntry ==
    ASSUME NEW v \in Seq(Byte), NEW a \in Nat, NEW b \in Nat, NEW r \in Seq(Byte),
           a + 1 <= b, b + 1 <= Len(v),
           NEW ops, ops = TwoOps(a, b, r),
           NEW bytes, bytes = BatchBytes(ops, Slice(v, a, b + 1 - a))
    PROVE  /\ bytes \in Seq(Byte)
           /\ Splice(v, a, b + 1 - a, bytes) = Batch(v, ops)
  <1> DEFINE span == Slice(v, a, b + 1 - a)
             d == b + 1 - a
  <1>1. d \in Nat /\ a + d <= Len(v) /\ b - a - 1 \in Nat
    OBVIOUS
  <1>2. /\ span \in Seq(Byte) /\ Len(span) = d
        /\ \A i \in 1 .. d : span[i] = v[a + i]
    <2>1. v \in Seq(Byte) /\ a \in Nat /\ d \in Nat /\ a + d <= Len(v) /\ span = Slice(v, a, d)
      BY <1>1
    <2> HIDE DEF d, span
    <2> QED BY ONLY <2>1, SliceType
  <1> HIDE DEF span
  <1>3. bytes = (r \o Slice(span, 1, b - a - 1)) \o r
    <2> DEFINE e == b - a
    <2>1. /\ span \in Seq(Byte) /\ Len(span) = e + 1 /\ bytes = BatchBytes(ops, span)
          /\ e \in Nat /\ e >= 1 /\ b = a + e /\ ops = TwoOps(a, b, r)
          /\ a \in Nat /\ b \in Nat /\ r \in Seq(Byte)
      BY <1>2 DEF span
    <2> HIDE DEF e
    <2>2. bytes = TwoReplaced(span, 0, e, r)
      BY ONLY <2>1, BatchBytesTwo
    <2>3. 0 + 1 = 1 /\ e - 0 - 1 = b - a - 1
      BY DEF e
    <2> QED BY <2>2, <2>3 DEF TwoReplaced
  <1>4. Slice(span, 1, b - a - 1) = Slice(v, a + 1, b - a - 1)
    <2>1. \A i \in 1 .. (b - a - 1) : 1 + i \in 1 .. d /\ a + (1 + i) = (a + 1) + i
      OBVIOUS
    <2>2. \A i \in 1 .. (b - a - 1) : span[1 + i] = v[(a + 1) + i]
      BY <1>2, <2>1
    <2> QED BY <2>2 DEF Slice
  <1>5. /\ bytes \in Seq(Byte)
        /\ Splice(v, a, b + 1 - a, bytes) = Splice(Splice(v, b, 1, r), a, 1, r)
    <2>1. bytes = TwoReplaced(v, a, b, r)
      BY <1>3, <1>4 DEF TwoReplaced
    <2>2. /\ v \in Seq(Byte) /\ a \in Nat /\ b \in Nat /\ r \in Seq(Byte)
          /\ a + 1 <= b /\ b + 1 <= Len(v)
      OBVIOUS
    <2> QED BY ONLY <2>1, <2>2, TwoReplacements
  <1>6. Batch(v, ops) = Splice(Splice(v, b, 1, r), a, 1, r)
    BY BatchTwo
  <1> QED BY <1>5, <1>6

-----------------------------------------------------------------------------
(* Chains of contents. *)

(* The stack leads from base through the contents of pst to now. *)
UndoChain(base, stack, pst, now) ==
    /\ Len(pst) = Len(stack)
    /\ Append(pst, now)[1] = base
    /\ \A k \in 1 .. Len(stack) :
          Applies(Append(pst, now)[k], stack[k], Append(pst, now)[k + 1])

(* The stack leads from now through the contents of fut, last one first. *)
RedoChain(stack, fut, now) ==
    /\ Len(fut) = Len(stack)
    /\ \A k \in 1 .. Len(stack) :
          Applies(Append(fut, now)[k + 1], stack[k], Append(fut, now)[k])

(* The bytes of a sequence with one more element. *)
LEMMA AppendPoint ==
    ASSUME NEW S, NEW s \in Seq(S), NEW x \in S
    PROVE  /\ Append(s, x) \in Seq(S)
           /\ Len(Append(s, x)) = Len(s) + 1
           /\ \A k \in 1 .. Len(s) : Append(s, x)[k] = s[k]
           /\ Append(s, x)[Len(s) + 1] = x
  OBVIOUS

(* A sequence without its last element. *)
LEMMA FrontPoint ==
    ASSUME NEW S, NEW s \in Seq(S), Len(s) > 0
    PROVE  /\ SubSeq(s, 1, Len(s) - 1) \in Seq(S)
           /\ Len(SubSeq(s, 1, Len(s) - 1)) = Len(s) - 1
           /\ \A k \in 1 .. (Len(s) - 1) : SubSeq(s, 1, Len(s) - 1)[k] = s[k]
           /\ s[Len(s)] \in S
  <1> DEFINE n == Len(s) - 1
  <1>1. Len(s) \in Nat /\ n \in Nat /\ Len(s) \in 1 .. Len(s) /\ n - 1 + 1 = n
        /\ \A k \in 1 .. n : k \in 1 .. Len(s)
    OBVIOUS
  <1>2. s[Len(s)] \in S
    BY <1>1
  <1>3. \A k \in 1 .. n : s[k] \in S
    BY <1>1
  <1>4. SubSeq(s, 1, n) = [k \in 1 .. n |-> s[k]]
    BY <1>1
  <1>5. [k \in 1 .. n |-> s[k]] \in [1 .. n -> S]
    BY <1>3
  <1> HIDE DEF n
  <1>6. SubSeq(s, 1, n) \in Seq(S) /\ Len(SubSeq(s, 1, n)) = n
    BY <1>1, <1>4, <1>5, FunctionIsBuffer
  <1>7. \A k \in 1 .. n : SubSeq(s, 1, n)[k] = s[k]
    BY <1>4
  <1> QED BY <1>2, <1>6, <1>7 DEF n

(* A new entry makes the chain one longer. *)
LEMMA ChainPush ==
    ASSUME NEW base \in Seq(Byte), NEW stack \in Seq(EditEntry), NEW pst \in Seq(Seq(Byte)),
           NEW now \in Seq(Byte), UndoChain(base, stack, pst, now),
           NEW e \in EditEntry, NEW post \in Seq(Byte), Applies(now, e, post)
    PROVE  UndoChain(base, Append(stack, e), Append(pst, now), post)
  <1> DEFINE n == Len(stack)
             old == Append(pst, now)
             new == Append(old, post)
             taller == Append(stack, e)
  <1>1. n \in Nat /\ Len(pst) = n
    BY DEF UndoChain
  <1>2. /\ old \in Seq(Seq(Byte)) /\ Len(old) = n + 1 /\ old[n + 1] = now /\ old[1] = base
    BY <1>1, AppendPoint DEF UndoChain
  <1> HIDE DEF old
  <1>3. /\ \A k \in 1 .. (n + 1) : new[k] = old[k]
        /\ new[n + 2] = post
    BY <1>1, <1>2, AppendPoint
  <1>4. /\ Len(taller) = n + 1 /\ taller[n + 1] = e
        /\ \A k \in 1 .. n : taller[k] = stack[k]
    BY AppendPoint
  <1> HIDE DEF new, taller
  <1>5. ASSUME NEW k \in 1 .. (n + 1) PROVE Applies(new[k], taller[k], new[k + 1])
    <2>1. CASE k = n + 1
      <3>1. new[k] = now /\ new[k + 1] = post /\ taller[k] = e
        BY <1>1, <1>2, <1>3, <1>4, <2>1
      <3> QED BY <3>1
    <2>2. CASE k # n + 1
      <3>1. k \in 1 .. n /\ k \in 1 .. (n + 1) /\ k + 1 \in 1 .. (n + 1)
        BY <1>1, <2>2
      <3>2. new[k] = old[k] /\ new[k + 1] = old[k + 1] /\ taller[k] = stack[k]
        BY <1>3, <1>4, <3>1
      <3>3. Applies(old[k], stack[k], old[k + 1])
        BY <3>1 DEF UndoChain, old
      <3> QED BY <3>2, <3>3
    <2> QED BY <2>1, <2>2
  <1>6. new[1] = base
    BY <1>1, <1>2, <1>3
  <1> QED BY <1>2, <1>4, <1>5, <1>6 DEF UndoChain, new, old, taller

(* Merging into the last entry keeps the chain's height. *)
LEMMA ChainMerge ==
    ASSUME NEW base \in Seq(Byte), NEW stack \in Seq(EditEntry), NEW pst \in Seq(Seq(Byte)),
           NEW now \in Seq(Byte), UndoChain(base, stack, pst, now), Len(stack) > 0,
           NEW m \in EditEntry, NEW post \in Seq(Byte), Applies(pst[Len(stack)], m, post)
    PROVE  UndoChain(base, [stack EXCEPT ![Len(stack)] = m], pst, post)
  <1> DEFINE n == Len(stack)
             old == Append(pst, now)
             new == Append(pst, post)
             merged == [stack EXCEPT ![n] = m]
  <1>1. n \in Nat /\ Len(pst) = n /\ n > 0
    BY DEF UndoChain
  <1>2. /\ \A k \in 1 .. n : old[k] = pst[k] /\ new[k] = pst[k]
        /\ old[n + 1] = now /\ new[n + 1] = post /\ old[1] = base
    BY <1>1, AppendPoint DEF UndoChain
  <1>3. /\ Len(merged) = n /\ merged[n] = m
        /\ \A k \in 1 .. n : k # n => merged[k] = stack[k]
    BY <1>1
  <1>4. \A k \in 1 .. n : Applies(old[k], stack[k], old[k + 1])
    BY DEF UndoChain
  <1> HIDE DEF old, new, merged
  <1>5. ASSUME NEW k \in 1 .. n PROVE Applies(new[k], merged[k], new[k + 1])
    <2>1. CASE k = n
      <3>1. new[k] = pst[n] /\ new[k + 1] = post /\ merged[k] = m
        BY <1>1, <1>2, <1>3, <2>1
      <3> QED BY <3>1
    <2>2. CASE k # n
      <3>1. k + 1 \in 1 .. n
        BY <1>1, <2>2
      <3>2. new[k] = old[k] /\ new[k + 1] = old[k + 1] /\ merged[k] = stack[k]
        BY <1>2, <1>3, <2>2, <3>1
      <3> QED BY <1>4, <3>2
    <2> QED BY <2>1, <2>2
  <1>6. new[1] = base
    <2>1. 1 \in 1 .. n
      BY <1>1
    <2> QED BY <1>2, <2>1
  <1> QED BY <1>1, <1>3, <1>5, <1>6 DEF UndoChain, new, merged

(* Undo takes the last entry off the chain. *)
LEMMA ChainPop ==
    ASSUME NEW base \in Seq(Byte), NEW stack \in Seq(EditEntry), NEW pst \in Seq(Seq(Byte)),
           NEW now \in Seq(Byte), UndoChain(base, stack, pst, now),
           NEW n, n = Len(stack), n > 0
    PROVE  /\ UndoChain(base, SubSeq(stack, 1, n - 1), SubSeq(pst, 1, n - 1), pst[n])
           /\ Applies(pst[n], stack[n], now)
  <1> DEFINE old == Append(pst, now)
             short == SubSeq(pst, 1, n - 1)
             new == Append(short, pst[n])
             front == SubSeq(stack, 1, n - 1)
  <1>1. n \in Nat /\ Len(pst) = n /\ n > 0 /\ n - 1 \in Nat
    BY DEF UndoChain
  <1>2. /\ \A k \in 1 .. n : old[k] = pst[k]
        /\ old[n + 1] = now /\ old[1] = base
    BY <1>1, AppendPoint DEF UndoChain
  <1>3. /\ short \in Seq(Seq(Byte)) /\ Len(short) = n - 1 /\ pst[n] \in Seq(Byte)
        /\ \A k \in 1 .. (n - 1) : short[k] = pst[k]
    BY <1>1, FrontPoint
  <1>4. Len(front) = n - 1 /\ \A k \in 1 .. (n - 1) : front[k] = stack[k]
    BY <1>1, FrontPoint
  <1> HIDE DEF short, front, old
  <1>5. \A k \in 1 .. n : new[k] = pst[k]
    <2>1. /\ \A k \in 1 .. (n - 1) : new[k] = short[k]
          /\ new[(n - 1) + 1] = pst[n]
      BY <1>3, AppendPoint
    <2>2. (n - 1) + 1 = n /\ \A k \in 1 .. n : k # n => k \in 1 .. (n - 1)
      BY <1>1
    <2> QED BY <1>3, <2>1, <2>2
  <1> HIDE DEF new
  <1>6. \A k \in 1 .. n : Applies(old[k], stack[k], old[k + 1])
    BY DEF UndoChain, old
  <1>7. ASSUME NEW k \in 1 .. (n - 1) PROVE Applies(new[k], front[k], new[k + 1])
    <2>1. k \in 1 .. n /\ k + 1 \in 1 .. n
      BY <1>1
    <2>2. new[k] = old[k] /\ new[k + 1] = old[k + 1] /\ front[k] = stack[k]
      BY <1>2, <1>4, <1>5, <2>1
    <2> QED BY <1>6, <2>1, <2>2
  <1>8. 1 \in 1 .. n /\ n \in 1 .. n
    BY <1>1
  <1>9. new[1] = base /\ Applies(pst[n], stack[n], now)
    <2>1. new[1] = pst[1] /\ old[1] = pst[1] /\ old[n] = pst[n]
      BY <1>2, <1>5, <1>8
    <2>2. Applies(old[n], stack[n], old[n + 1])
      BY <1>6, <1>8
    <2> QED BY <1>2, <2>1, <2>2
  <1> QED BY <1>3, <1>4, <1>7, <1>9 DEF UndoChain, new, short, front

(* Undo puts the entry in front of the redo chain. *)
LEMMA RedoPush ==
    ASSUME NEW stack \in Seq(EditEntry), NEW fut \in Seq(Seq(Byte)),
           NEW now \in Seq(Byte), RedoChain(stack, fut, now),
           NEW e \in EditEntry, NEW prev \in Seq(Byte), Applies(prev, e, now)
    PROVE  RedoChain(Append(stack, e), Append(fut, now), prev)
  <1> DEFINE n == Len(stack)
             old == Append(fut, now)
             new == Append(old, prev)
             taller == Append(stack, e)
  <1>1. n \in Nat /\ Len(fut) = n
    BY DEF RedoChain
  <1>2. old \in Seq(Seq(Byte)) /\ Len(old) = n + 1 /\ old[n + 1] = now
    BY <1>1, AppendPoint
  <1> HIDE DEF old
  <1>3. /\ \A k \in 1 .. (n + 1) : new[k] = old[k]
        /\ new[n + 2] = prev
    BY <1>1, <1>2, AppendPoint
  <1>4. /\ Len(taller) = n + 1 /\ taller[n + 1] = e
        /\ \A k \in 1 .. n : taller[k] = stack[k]
    BY AppendPoint
  <1> HIDE DEF new, taller
  <1>5. ASSUME NEW k \in 1 .. (n + 1) PROVE Applies(new[k + 1], taller[k], new[k])
    <2>1. CASE k = n + 1
      <3>1. new[k] = now /\ new[k + 1] = prev /\ taller[k] = e
        BY <1>1, <1>2, <1>3, <1>4, <2>1
      <3> QED BY <3>1
    <2>2. CASE k # n + 1
      <3>1. k \in 1 .. n /\ k \in 1 .. (n + 1) /\ k + 1 \in 1 .. (n + 1)
        BY <1>1, <2>2
      <3>2. new[k] = old[k] /\ new[k + 1] = old[k + 1] /\ taller[k] = stack[k]
        BY <1>3, <1>4, <3>1
      <3>3. Applies(old[k + 1], stack[k], old[k])
        BY <3>1 DEF RedoChain, old
      <3> QED BY <3>2, <3>3
    <2> QED BY <2>1, <2>2
  <1> QED BY <1>2, <1>4, <1>5 DEF RedoChain, new, old, taller

(* Redo takes it off again. *)
LEMMA RedoPop ==
    ASSUME NEW stack \in Seq(EditEntry), NEW fut \in Seq(Seq(Byte)),
           NEW now \in Seq(Byte), RedoChain(stack, fut, now),
           NEW n, n = Len(stack), n > 0
    PROVE  /\ RedoChain(SubSeq(stack, 1, n - 1), SubSeq(fut, 1, n - 1), fut[n])
           /\ Applies(now, stack[n], fut[n])
  <1> DEFINE old == Append(fut, now)
             short == SubSeq(fut, 1, n - 1)
             new == Append(short, fut[n])
             front == SubSeq(stack, 1, n - 1)
  <1>1. n \in Nat /\ Len(fut) = n /\ n > 0 /\ n - 1 \in Nat
    BY DEF RedoChain
  <1>2. /\ \A k \in 1 .. n : old[k] = fut[k]
        /\ old[n + 1] = now
    BY <1>1, AppendPoint
  <1>3. /\ short \in Seq(Seq(Byte)) /\ Len(short) = n - 1 /\ fut[n] \in Seq(Byte)
        /\ \A k \in 1 .. (n - 1) : short[k] = fut[k]
    BY <1>1, FrontPoint
  <1>4. Len(front) = n - 1 /\ \A k \in 1 .. (n - 1) : front[k] = stack[k]
    BY <1>1, FrontPoint
  <1> HIDE DEF short, front, old
  <1>5. \A k \in 1 .. n : new[k] = fut[k]
    <2>1. /\ \A k \in 1 .. (n - 1) : new[k] = short[k]
          /\ new[(n - 1) + 1] = fut[n]
      BY <1>3, AppendPoint
    <2>2. (n - 1) + 1 = n /\ \A k \in 1 .. n : k # n => k \in 1 .. (n - 1)
      BY <1>1
    <2> QED BY <1>3, <2>1, <2>2
  <1> HIDE DEF new
  <1>6. \A k \in 1 .. n : Applies(old[k + 1], stack[k], old[k])
    BY DEF RedoChain, old
  <1>7. ASSUME NEW k \in 1 .. (n - 1) PROVE Applies(new[k + 1], front[k], new[k])
    <2>1. k \in 1 .. n /\ k + 1 \in 1 .. n
      BY <1>1
    <2>2. new[k] = old[k] /\ new[k + 1] = old[k + 1] /\ front[k] = stack[k]
      BY <1>2, <1>4, <1>5, <2>1
    <2> QED BY <1>6, <2>1, <2>2
  <1>8. n \in 1 .. n
    BY <1>1
  <1>9. Applies(now, stack[n], fut[n])
    BY <1>2, <1>6, <1>8
  <1> QED BY <1>3, <1>4, <1>7, <1>9 DEF RedoChain, new, short, front

(* The patch rebuilt from a chained stack shows the chain's end. *)
LEMMA ChainShows ==
    ASSUME NEW base \in Seq(Byte), NEW stack \in Seq(EditEntry), NEW pst \in Seq(Seq(Byte)),
           NEW now \in Seq(Byte), UndoChain(base, stack, pst, now)
    PROVE  /\ PatchOK(Diff(base, Replay(base, stack)), base)
           /\ View(base, Diff(base, Replay(base, stack))) = now
           /\ \A k \in 1 .. Len(stack) : Contents(base, stack)[k - 1] = pst[k]
  <1> DEFINE trail == Append(pst, now)
             n == Len(stack)
  <1>1. n \in Nat /\ Len(pst) = n
    BY DEF UndoChain
  <1>2. /\ trail[1] = base /\ trail[n + 1] = now
        /\ \A k \in 1 .. n : trail[k] \in Seq(Byte) /\ trail[k] = pst[k]
        /\ \A k \in 1 .. n : Applies(trail[k], stack[k], trail[k + 1])
    <2>1. trail[1] = base /\ \A k \in 1 .. n : Applies(trail[k], stack[k], trail[k + 1])
      BY DEF UndoChain
    <2>2. trail[n + 1] = now /\ \A k \in 1 .. n : trail[k] = pst[k]
      BY <1>1, AppendPoint
    <2>3. \A k \in 1 .. n : pst[k] \in Seq(Byte)
      BY <1>1
    <2> QED BY <2>1, <2>2, <2>3
  <1> HIDE DEF trail
  <1>3. \A k \in 0 .. n : Contents(base, stack)[k] = trail[k + 1]
    BY <1>2, ReplayOfChain
  <1>4. Replay(base, stack) = now
    <2>1. n \in 0 .. n
      BY <1>1
    <2> QED BY <1>2, <1>3, <2>1 DEF Replay
  <1>5. ASSUME NEW k \in 1 .. n PROVE Contents(base, stack)[k - 1] = pst[k]
    <2>1. k - 1 \in 0 .. n /\ (k - 1) + 1 = k
      BY <1>1
    <2> QED BY <1>2, <1>3, <2>1
  <1> QED BY <1>4, <1>5, DiffRoundTrip

-----------------------------------------------------------------------------
(* The inductive invariant. *)

(* The stacks hold entries and the flags hold flags. *)
EditorTypes ==
    /\ base_source \in Seq(Byte)
    /\ undo_stack \in Seq(EditEntry)
    /\ redo_stack \in Seq(EditEntry)
    /\ mode \in {"Readonly", "Mutable"}
    /\ typing_mode \in {"Replace", "Insert"}
    /\ edit_high_nibble \in BOOLEAN
    /\ history_break \in BOOLEAN
    /\ last_edit_at \in BOOLEAN
    /\ non_lp_entries \in Nat
    /\ revision \in Nat

BufferTypes ==
    /\ present \in Seq(Byte)
    /\ past \in Seq(Seq(Byte))
    /\ future \in Seq(Seq(Byte))

(* No entry on a stack removes nothing and inserts nothing. *)
AllNonTrivial(stack) == \A k \in 1 .. Len(stack) : NonTrivial(stack[k])

PatchShows == PatchOK(patch, base_source) /\ View(base_source, patch) = present

IInv ==
    /\ EditorTypes
    /\ BufferTypes
    /\ saved = base_source
    /\ UndoChain(base_source, undo_stack, past, present)
    /\ RedoChain(redo_stack, future, present)
    /\ PatchShows
    /\ AllNonTrivial(undo_stack) /\ AllNonTrivial(redo_stack)

(* Empty stacks chain nothing. *)
LEMMA EmptyChains ==
    ASSUME NEW base \in Seq(Byte)
    PROVE  /\ UndoChain(base, << >>, << >>, base)
           /\ RedoChain(<< >>, << >>, base)
           /\ << >> \in Seq(EditEntry) /\ << >> \in Seq(Seq(Byte))
           /\ AllNonTrivial(<< >>)
  <1>1. /\ Len(<< >>) = 0 /\ 1 .. 0 = {} /\ Append(<< >>, base)[1] = base
        /\ << >> \in Seq(EditEntry) /\ << >> \in Seq(Seq(Byte))
    OBVIOUS
  <1> QED BY <1>1 DEF UndoChain, RedoChain, AllNonTrivial

(* The entry the editor builds for an edit says what the edit does. *)
LEMMA EntryApplies ==
    ASSUME IInv, NEW offset \in Nat, NEW remove \in Nat, NEW insert \in Seq(Byte),
           offset + remove <= Len(view), remove > 0 \/ insert # << >>,
           NEW e, e = Entry(offset, remove, insert),
           NEW post, post = Splice(present, offset, remove, insert)
    PROVE  /\ e \in EditEntry /\ NonTrivial(e)
           /\ Applies(present, e, post) /\ post \in Seq(Byte)
           /\ remove = Len(insert) => IsLP(e)
           /\ e.offset = offset /\ e.new_bytes = insert
  <1> DEFINE old == Slice(present, offset, remove)
  <1>1. view = present /\ present \in Seq(Byte)
    BY DEF IInv, PatchShows, BufferTypes, view
  <1>2. offset + remove <= Len(present)
    BY <1>1
  <1>3. old \in Seq(Byte) /\ Len(old) = remove
    <2>1. /\ present \in Seq(Byte) /\ offset \in Nat /\ remove \in Nat
          /\ offset + remove <= Len(present)
      BY <1>1, <1>2
    <2> QED BY ONLY <2>1, SliceType
  <1>4. post \in Seq(Byte)
    <2>1. /\ present \in Seq(Byte) /\ offset \in Nat /\ remove \in Nat /\ insert \in Seq(Byte)
          /\ offset + remove <= Len(present)
      BY <1>1, <1>2
    <2>2. Splice(present, offset, remove, insert) \in Seq(Byte)
      BY ONLY <2>1, SpliceType
    <2> QED BY <2>2
  <1>5. e = [offset |-> offset, old_bytes |-> old, new_bytes |-> insert]
    BY <1>1 DEF Entry
  <1>6. old = Slice(present, offset, remove)
    OBVIOUS
  <1> HIDE DEF old
  <1>7. e.offset = offset /\ e.old_bytes = old /\ e.new_bytes = insert
    BY <1>5
  <1>8. e \in EditEntry
    BY ONLY <1>3, <1>5, offset \in Nat, insert \in Seq(Byte) DEF EditEntry
  <1>9. Applies(present, e, post)
    BY <1>2, <1>3, <1>6, <1>7 DEF Applies
  <1>10. remove = Len(insert) => IsLP(e)
    BY <1>3, <1>7 DEF IsLP
  <1>11. NonTrivial(e)
    <2>1. remove > 0 => old # << >>
      BY <1>3
    <2> QED BY <1>7, <2>1 DEF NonTrivial
  <1> QED BY <1>4, <1>7, <1>8, <1>9, <1>10, <1>11

(* record_entry either pushes the entry or folds it into the last one. *)
LEMMA RecordCases ==
    ASSUME IInv, BelowCap, NEW e \in EditEntry, NEW boundary, Recorded(e, boundary)
    PROVE  \/ /\ undo_stack' = Append(undo_stack, e)
              /\ non_lp_entries' = CountPush(non_lp_entries, e)
           \/ /\ Len(undo_stack) > 0
              /\ Coalesces(undo_stack[Len(undo_stack)], e)
              /\ undo_stack' = [undo_stack EXCEPT ![Len(undo_stack)] =
                                  Coalesced(undo_stack[Len(undo_stack)], e)]
              /\ non_lp_entries' = non_lp_entries
  <1>1. undo_stack \in Seq(EditEntry) /\ Len(undo_stack) \in Nat
    BY DEF IInv, EditorTypes
  <1>2. MergeIntoLast(e) =>
           /\ undo_stack' = [undo_stack EXCEPT ![Len(undo_stack)] =
                               Coalesced(undo_stack[Len(undo_stack)], e)]
           /\ non_lp_entries' = non_lp_entries
    BY <1>1 DEF MergeIntoLast
  <1>3. PushEntry(e) =>
           /\ undo_stack' = Append(undo_stack, e)
           /\ non_lp_entries' = CountPush(non_lp_entries, e)
    <2>1. Len(Append(undo_stack, e)) = Len(undo_stack) + 1
      BY <1>1
    <2>2. ~(Len(Append(undo_stack, e)) > UNDO_HISTORY_CAP)
      BY <1>1, <2>1, EditConstants DEF BelowCap
    <2> QED BY <2>2 DEF PushEntry
  <1>4. undo_stack # << >> => Len(undo_stack) > 0
    BY <1>1
  <1> HIDE DEF MergeIntoLast, PushEntry, Coalesces
  <1>5. \/ PushEntry(e)
        \/ /\ undo_stack # << >> /\ Coalesces(undo_stack[Len(undo_stack)], e)
           /\ MergeIntoLast(e)
    BY DEF Recorded
  <1> QED BY <1>2, <1>3, <1>4, <1>5

(* Recording an edit keeps the chain, whether it opens a new unit or joins  *)
(* the last one; and a length-preserving edit's latest entry can be written *)
(* over the content in place, which is what the fast path does.            *)
LEMMA RecordKeepsChain ==
    ASSUME IInv, BelowCap, NEW e \in EditEntry, NonTrivial(e), NEW boundary,
           Recorded(e, boundary),
           NEW post \in Seq(Byte), Applies(present, e, post), Change(post, Joined)
    PROVE  /\ undo_stack' \in Seq(EditEntry) /\ Len(undo_stack') > 0
           /\ past' \in Seq(Seq(Byte)) /\ present' = post
           /\ UndoChain(base_source, undo_stack', past', post)
           /\ AllNonTrivial(undo_stack')
           /\ non_lp_entries' \in Nat
           /\ IsLP(e) =>
                LET last == undo_stack'[Len(undo_stack')]
                IN  /\ last \in EditEntry
                    /\ last.offset + Len(last.new_bytes) <= Len(present)
                    /\ post = Splice(present, last.offset, Len(last.new_bytes), last.new_bytes)
  <1> DEFINE n == Len(undo_stack)
  <1>1. /\ undo_stack \in Seq(EditEntry) /\ n \in Nat /\ base_source \in Seq(Byte)
        /\ past \in Seq(Seq(Byte)) /\ present \in Seq(Byte) /\ Len(past) = n
        /\ UndoChain(base_source, undo_stack, past, present)
        /\ \A k \in 1 .. n : NonTrivial(undo_stack[k])
        /\ non_lp_entries \in Nat
    BY DEF IInv, EditorTypes, BufferTypes, UndoChain, AllNonTrivial
  <1>2. /\ present' = post
        /\ past' = IF Len(undo_stack') = n THEN past ELSE Append(past, present)
    BY DEF Change, Joined
  <1>3. CASE /\ undo_stack' = Append(undo_stack, e)
             /\ non_lp_entries' = CountPush(non_lp_entries, e)
    <2>1. /\ undo_stack' \in Seq(EditEntry) /\ Len(undo_stack') = n + 1
          /\ undo_stack'[n + 1] = e
          /\ \A k \in 1 .. n : undo_stack'[k] = undo_stack[k]
      BY <1>1, <1>3, AppendPoint
    <2>2. past' = Append(past, present) /\ past' \in Seq(Seq(Byte))
      <3>1. n + 1 # n
        BY <1>1
      <3> QED BY <1>1, <1>2, <2>1, <3>1, AppendPoint
    <2>3. UndoChain(base_source, undo_stack', past', post)
      BY <1>1, <1>3, <2>2, ChainPush
    <2>4. AllNonTrivial(undo_stack')
      <3>1. \A k \in 1 .. (n + 1) : k = n + 1 \/ k \in 1 .. n
        BY <1>1
      <3> QED BY <1>1, <2>1, <3>1 DEF AllNonTrivial
    <2>5. non_lp_entries' \in Nat
      BY <1>1, <1>3 DEF CountPush
    <2>6. IsLP(e) => /\ e.offset + Len(e.new_bytes) <= Len(present)
                     /\ post = Splice(present, e.offset, Len(e.new_bytes), e.new_bytes)
      BY DEF Applies, IsLP
    <2>7. Len(undo_stack') > 0
      BY <1>1, <2>1
    <2> QED BY <1>2, <2>1, <2>2, <2>3, <2>4, <2>5, <2>6, <2>7
  <1>4. CASE /\ n > 0 /\ Coalesces(undo_stack[n], e)
             /\ undo_stack' = [undo_stack EXCEPT ![n] = Coalesced(undo_stack[n], e)]
             /\ non_lp_entries' = non_lp_entries
    <2> DEFINE last == undo_stack[n]
               m == Coalesced(last, e)
               pre == past[n]
    <2>0. n \in 1 .. n
      BY <1>1, <1>4
    <2>1. last \in EditEntry /\ NonTrivial(last) /\ pre \in Seq(Byte)
      BY <1>1, <2>0
    <2>2. Applies(pre, last, present)
      BY <1>1, <1>4, ChainPop
    <2>3. MergesTo(pre, last, e, present, post, m)
      <3>1. Coalesces(last, e)
        BY <1>4
      <3> HIDE DEF last, m, pre
      <3>2. MergesTo(pre, last, e, present, post, Coalesced(last, e))
        BY <2>1, <2>2, <3>1, CoalescedMerges
      <3> QED BY <3>2 DEF m
    <2> HIDE DEF m
    <2>4. m \in EditEntry /\ Applies(pre, m, post) /\ NonTrivial(m)
      BY <2>3 DEF MergesTo
    <2>5. /\ undo_stack' \in Seq(EditEntry) /\ Len(undo_stack') = n /\ undo_stack'[n] = m
          /\ \A k \in 1 .. n : k # n => undo_stack'[k] = undo_stack[k]
      <3>1. undo_stack' = [undo_stack EXCEPT ![n] = m]
        BY <1>4 DEF m
      <3> QED BY <1>1, <2>0, <2>4, <3>1
    <2>6. past' = past
      BY <1>2, <2>5
    <2>7. UndoChain(base_source, undo_stack', past', post)
      <3>1. undo_stack' = [undo_stack EXCEPT ![n] = m]
        BY <1>4 DEF m
      <3>2. UndoChain(base_source, [undo_stack EXCEPT ![n] = m], past, post)
        BY <1>1, <1>4, <2>4, ChainMerge
      <3> QED BY <2>6, <3>1, <3>2
    <2>8. AllNonTrivial(undo_stack')
      BY <1>1, <2>4, <2>5 DEF AllNonTrivial
    <2>9. IsLP(e) => /\ m.offset + Len(m.new_bytes) <= Len(present)
                     /\ post = Splice(present, m.offset, Len(m.new_bytes), m.new_bytes)
      BY <2>3 DEF MergesTo
    <2> QED BY <1>1, <1>2, <1>4, <2>4, <2>5, <2>6, <2>7, <2>8, <2>9
  <1> QED BY <1>3, <1>4, RecordCases

-----------------------------------------------------------------------------
(* Every step keeps the invariant. *)

(* A recording operation, whichever way it brings the patch up to date. *)
LEMMA EditRecorded ==
    ASSUME IInv, BelowCap,
           NEW offset \in Nat, NEW remove \in Nat, NEW insert \in Seq(Byte), NEW boundary,
           offset + remove <= Len(view), remove > 0 \/ insert # << >>,
           Recorded(Entry(offset, remove, insert), boundary), history_break' \in BOOLEAN,
           \/ patch' = rebuild_patch_from_stack(undo_stack')
           \/ remove = Len(insert) /\ patch' = apply_lp_write_to_patch(undo_stack'),
           Change(Splice(present, offset, remove, insert), Joined),
           UNCHANGED <<base_source, mode>>,
           typing_mode' \in {"Replace", "Insert"}, edit_high_nibble' \in BOOLEAN
    PROVE  IInv' /\ present' = Splice(present, offset, remove, insert)
  <1> DEFINE e == Entry(offset, remove, insert)
             post == Splice(present, offset, remove, insert)
             top == undo_stack'[Len(undo_stack')]
  <1>1. /\ e \in EditEntry /\ NonTrivial(e)
        /\ Applies(present, e, post) /\ post \in Seq(Byte)
        /\ remove = Len(insert) => IsLP(e)
    BY EntryApplies
  <1>2. Recorded(e, boundary) /\ Change(post, Joined)
    OBVIOUS
  <1> HIDE DEF e, post
  <1>3. /\ undo_stack' \in Seq(EditEntry) /\ Len(undo_stack') > 0
        /\ past' \in Seq(Seq(Byte)) /\ present' = post
        /\ UndoChain(base_source, undo_stack', past', post)
        /\ AllNonTrivial(undo_stack')
        /\ non_lp_entries' \in Nat
        /\ IsLP(e) => /\ top \in EditEntry
                      /\ top.offset + Len(top.new_bytes) <= Len(present)
                      /\ post = Splice(present, top.offset, Len(top.new_bytes), top.new_bytes)
    BY <1>1, <1>2, RecordKeepsChain
  <1>4. /\ base_source \in Seq(Byte) /\ saved = base_source /\ revision \in Nat
        /\ mode \in {"Readonly", "Mutable"} /\ typing_mode \in {"Replace", "Insert"}
        /\ PatchOK(patch, base_source) /\ View(base_source, patch) = present
    BY DEF IInv, EditorTypes, PatchShows
  <1>5. edit_high_nibble' \in BOOLEAN /\ typing_mode' \in {"Replace", "Insert"}
    OBVIOUS
  <1>6. /\ redo_stack' = << >> /\ last_edit_at' = TRUE
        /\ revision' = revision + 1 /\ future' = << >> /\ saved' = saved
    BY <1>2 DEF Recorded, Change
  <1>7. base_source' = base_source /\ mode' = mode /\ history_break' \in BOOLEAN
    OBVIOUS
  <1>8. EditorTypes'
    <2>1. history_break' \in BOOLEAN /\ last_edit_at' \in BOOLEAN /\ edit_high_nibble' \in BOOLEAN
      BY <1>5, <1>6, <1>7, Zenon
    <2>2. revision' \in Nat /\ redo_stack' \in Seq(EditEntry)
      BY <1>4, <1>6
    <2> QED BY <1>3, <1>4, <1>5, <1>7, <2>1, <2>2 DEF EditorTypes
  <1>9. BufferTypes'
    BY <1>1, <1>3, <1>6 DEF BufferTypes
  <1>10. UndoChain(base_source, undo_stack', past', present')
    BY <1>3
  <1>11. RedoChain(redo_stack', future', present') /\ AllNonTrivial(redo_stack')
    BY <1>6, Len(<< >>) = 0, 1 .. 0 = {} DEF RedoChain, AllNonTrivial
  <1>12. PatchOK(patch', base_source) /\ View(base_source, patch') = post
    <2>1. CASE patch' = rebuild_patch_from_stack(undo_stack')
      BY <1>1, <1>3, <1>4, <2>1, ChainShows DEF rebuild_patch_from_stack
    <2>2. CASE /\ IsLP(e)
               /\ AcceptsWrite(patch, base_source, top.offset, top.new_bytes)
               /\ patch' = Write(patch, top.offset, top.new_bytes)
      <3>1. top.offset \in Nat /\ top.new_bytes \in Seq(Byte)
        BY <1>3, <2>2, EntryFields
      <3>2. AcceptsWrite(patch, base_source, top.offset, top.new_bytes)
        BY <2>2
      <3> HIDE DEF top
      <3>3. /\ PatchOK(Write(patch, top.offset, top.new_bytes), base_source)
            /\ View(base_source, Write(patch, top.offset, top.new_bytes)) =
                  Splice(View(base_source, patch), top.offset, Len(top.new_bytes), top.new_bytes)
        BY ONLY <1>4, <3>1, <3>2, WriteShows
      <3> QED BY <1>3, <1>4, <2>2, <3>3
    <2> QED BY <1>1, <2>1, <2>2 DEF apply_lp_write_to_patch
  <1>13. IInv'
    BY <1>3, <1>4, <1>6, <1>7, <1>8, <1>9, <1>10, <1>11, <1>12 DEF IInv, PatchShows
  <1> QED BY <1>3, <1>13 DEF post

(* The same, with the typing flags left alone. *)
LEMMA RecordStep ==
    ASSUME IInv, BelowCap,
           NEW offset \in Nat, NEW remove \in Nat, NEW insert \in Seq(Byte),
           offset + remove <= Len(view), remove > 0 \/ insert # << >>,
           record_entry(Entry(offset, remove, insert), history_break),
           \/ patch' = rebuild_patch_from_stack(undo_stack')
           \/ remove = Len(insert) /\ patch' = apply_lp_write_to_patch(undo_stack'),
           Change(Splice(present, offset, remove, insert), Joined),
           UNCHANGED <<base_source, mode>>, UNCHANGED typingVars
    PROVE  IInv'
  <1>1. typing_mode' \in {"Replace", "Insert"} /\ edit_high_nibble' \in BOOLEAN
    BY DEF IInv, EditorTypes, typingVars
  <1>2. /\ Recorded(Entry(offset, remove, insert), history_break)
        /\ history_break' \in BOOLEAN
    BY DEF record_entry
  <1> QED BY <1>1, <1>2, EditRecorded

(* The editor and the buffer start over on a new content. *)
LEMMA FreshStart ==
    ASSUME NEW content \in Seq(Byte), EditorTypes', base_source' = content,
           undo_stack' = << >>, redo_stack' = << >>, Reset(content),
           PatchOK(patch', content), View(content, patch') = content
    PROVE  IInv'
  <1>1. saved' = content /\ present' = content /\ past' = << >> /\ future' = << >>
    BY DEF Reset
  <1> QED BY <1>1, EmptyChains DEF IInv, BufferTypes, PatchShows

(* A fresh editor (EditState::new) starts with the invariant. *)
LEMMA InitIInv ==
    ASSUME HistoryInit PROVE IInv
  <1>1. base_source \in Seq(Byte)
    BY EditConstants DEF HistoryInit, Init
  <1>2. edit_high_nibble \in BOOLEAN /\ history_break \in BOOLEAN /\ last_edit_at \in BOOLEAN
    BY Zenon DEF HistoryInit, Init
  <1>3. EditorTypes
    BY <1>1, <1>2, EmptyChains DEF HistoryInit, Init, EditorTypes
  <1>4. /\ saved = base_source /\ present = base_source /\ past = << >> /\ future = << >>
        /\ undo_stack = << >> /\ redo_stack = << >> /\ patch = EmptyPatch
    BY DEF HistoryInit, Init, Blank
  <1> QED BY <1>1, <1>3, <1>4, EmptyChains, EmptyView DEF IInv, BufferTypes, PatchShows

(* request_write, on the fast path and on the slow one. *)
LEMMA WriteKeeps ==
    ASSUME IInv, WriteStep PROVE IInv'
  <1>1. PICK offset \in Offsets, bytes \in Payloads :
           /\ Requested(Len(bytes), bytes)
           /\ request_write(offset, bytes, history_break)
           /\ UNCHANGED typingVars
           /\ Edit(offset, Len(bytes), bytes, Joined)
    BY DEF WriteStep
  <1>2. bytes \in Seq(Byte) /\ Len(bytes) \in Nat /\ offset \in Nat
    BY EditConstants DEF Offsets
  <1>3. /\ BelowCap /\ (Len(bytes) > 0 \/ bytes # << >>)
        /\ offset + Len(bytes) <= Len(view)
        /\ record_entry(Entry(offset, Len(bytes), bytes), history_break)
        /\ \/ patch' = rebuild_patch_from_stack(undo_stack')
           \/ patch' = apply_lp_write_to_patch(undo_stack')
        /\ UNCHANGED <<base_source, mode>>
        /\ Change(Splice(present, offset, Len(bytes), bytes), Joined)
    BY <1>1 DEF Requested, request_write, CanRecord, Edit
  <1> QED BY <1>1, <1>2, <1>3, RecordStep

(* splice of any length, recorded or merged into the last entry. *)
LEMMA SpliceKeeps ==
    ASSUME IInv, SpliceStep PROVE IInv'
  <1>1. PICK offset \in Offsets, remove \in 0 .. MaxRemove, insert \in Payloads :
           /\ Requested(remove, insert)
           /\ splice(offset, remove, insert, history_break)
           /\ UNCHANGED typingVars
           /\ Edit(offset, remove, insert, Joined)
    BY DEF SpliceStep
  <1>2. insert \in Seq(Byte) /\ remove \in Nat /\ offset \in Nat
    BY EditConstants, MaxRemoveAssumption DEF Offsets
  <1>3. /\ BelowCap /\ (remove > 0 \/ insert # << >>)
        /\ offset + remove <= Len(view)
        /\ record_entry(Entry(offset, remove, insert), history_break)
        /\ patch' = rebuild_patch_from_stack(undo_stack')
        /\ UNCHANGED <<base_source, mode>>
        /\ Change(Splice(present, offset, remove, insert), Joined)
    BY <1>1 DEF Requested, splice, CanRecord, Edit
  <1> QED BY <1>1, <1>2, <1>3, RecordStep

(* insert_at, behind the last insert or elsewhere. *)
LEMMA InsertKeeps ==
    ASSUME IInv, InsertStep PROVE IInv'
  <1>1. PICK offset \in Offsets, bytes \in Payloads :
           /\ Requested(0, bytes)
           /\ insert_at(offset, bytes, history_break)
           /\ UNCHANGED typingVars
           /\ Edit(offset, 0, bytes, Joined)
    BY DEF InsertStep
  <1>2. bytes \in Seq(Byte) /\ offset \in Nat /\ 0 \in Nat
    BY EditConstants DEF Offsets
  <1>3. /\ BelowCap /\ (0 > 0 \/ bytes # << >>)
        /\ offset + 0 <= Len(view)
        /\ record_entry(Entry(offset, 0, bytes), history_break)
        /\ patch' = rebuild_patch_from_stack(undo_stack')
        /\ UNCHANGED <<base_source, mode>>
        /\ Change(Splice(present, offset, 0, bytes), Joined)
    BY <1>1 DEF Requested, insert_at, CanRecord, Edit
  <1> QED BY <1>1, <1>2, <1>3, RecordStep

(* splice_many: the batch lands as the one entry that spans it. *)
LEMMA BatchKeeps ==
    ASSUME IInv, BatchStep PROVE IInv'
  <1>1. PICK a \in Offsets, b \in Offsets, repl \in Payloads :
           /\ Requested(1, repl)
           /\ splice_many(TwoOps(a, b, repl), history_break)
           /\ UNCHANGED typingVars
           /\ EditBatch(TwoOps(a, b, repl), Joined)
    BY DEF BatchStep, TwoOps
  <1> DEFINE ops == TwoOps(a, b, repl)
             span == b + 1 - a
             bytes == BatchBytes(ops, Slice(view, a, span))
  <1>2. repl \in Seq(Byte) /\ a \in Nat /\ b \in Nat
    BY EditConstants DEF Offsets
  <1>3. /\ Len(ops) = 2
        /\ ops[1].offset = a /\ ops[1].remove = 1 /\ ops[1].insert = repl
        /\ ops[2].offset = b /\ ops[2].remove = 1 /\ ops[2].insert = repl
    BY ReplaceTwo
  <1>4. view = present /\ present \in Seq(Byte) /\ Len(present) \in Nat
    BY DEF IInv, PatchShows, BufferTypes, view
  <1> HIDE DEF ops
  <1>5. /\ ValidBatch(ops)
        /\ record_entry(Entry(a, span, bytes), history_break)
        /\ patch' = rebuild_patch_from_stack(undo_stack')
        /\ UNCHANGED <<base_source, mode>>
    BY <1>1, <1>3 DEF splice_many, ops
  <1>6. a + 1 <= b /\ b + 1 <= Len(view)
    <2>1. 1 \in 1 .. 2 /\ 2 \in 1 .. 2 /\ 2 \in 2 .. 2 /\ 2 - 1 = 1
      OBVIOUS
    <2>2. ops[2].offset >= ops[2 - 1].offset + ops[2 - 1].remove
      BY <1>3, <1>5, <2>1 DEF ValidBatch
    <2>3. ops[2].offset + ops[2].remove <= Len(view)
      BY <1>3, <1>5, <2>1 DEF ValidBatch
    <2>4. b >= a + 1 /\ b + 1 <= Len(view)
      BY <1>3, <2>1, <2>2, <2>3
    <2> QED BY <1>2, <2>4
  <1>7. span \in Nat /\ span > 0 /\ a + span <= Len(view)
    BY <1>2, <1>4, <1>6
  <1>8. bytes \in Seq(Byte) /\ Splice(present, a, span, bytes) = Batch(present, ops)
    <2>1. /\ present \in Seq(Byte) /\ a \in Nat /\ b \in Nat /\ repl \in Seq(Byte)
          /\ a + 1 <= b /\ b + 1 <= Len(present) /\ ops = TwoOps(a, b, repl)
          /\ bytes = BatchBytes(ops, Slice(present, a, b + 1 - a))
      BY <1>2, <1>4, <1>6 DEF ops
    <2> HIDE DEF bytes
    <2> QED BY ONLY <2>1, BatchAsOneEntry DEF span
  <1> HIDE DEF bytes, span
  <1>9. Change(Splice(present, a, span, bytes), Joined)
    BY <1>1, <1>8 DEF EditBatch, ops
  <1>10. BelowCap
    BY <1>1 DEF Requested
  <1> QED BY <1>1, <1>2, <1>5, <1>7, <1>8, <1>9, <1>10, RecordStep

(* undo moves the last entry to the redo stack and rebuilds the patch. *)
LEMMA UndoKeeps ==
    ASSUME IInv, UndoStep PROVE IInv'
  <1> DEFINE n == Len(undo_stack)
             e == undo_stack[n]
  <1>1. /\ undo_stack \in Seq(EditEntry) /\ redo_stack \in Seq(EditEntry) /\ n \in Nat
        /\ base_source \in Seq(Byte) /\ saved = base_source
        /\ past \in Seq(Seq(Byte)) /\ present \in Seq(Byte) /\ future \in Seq(Seq(Byte))
        /\ UndoChain(base_source, undo_stack, past, present) /\ Len(past) = n
        /\ RedoChain(redo_stack, future, present)
        /\ AllNonTrivial(undo_stack) /\ AllNonTrivial(redo_stack)
        /\ non_lp_entries \in Nat /\ revision \in Nat
        /\ mode \in {"Readonly", "Mutable"} /\ typing_mode \in {"Replace", "Insert"}
    BY DEF IInv, EditorTypes, BufferTypes, UndoChain
  <1>2. last_edit_at \in BOOLEAN
    BY DEF IInv, EditorTypes
  <1>3. /\ n > 0 /\ revision' = revision + 1
        /\ undo_stack' = SubSeq(undo_stack, 1, n - 1)
        /\ redo_stack' = Append(redo_stack, e)
        /\ non_lp_entries' = CountPop(non_lp_entries, e)
        /\ patch' = rebuild_patch_from_stack(undo_stack')
        /\ history_break' = TRUE /\ edit_high_nibble' = TRUE
        /\ base_source' = base_source /\ mode' = mode /\ typing_mode' = typing_mode
        /\ last_edit_at' = last_edit_at
        /\ present' = past[n] /\ past' = SubSeq(past, 1, n - 1)
        /\ future' = Append(future, present) /\ saved' = saved
    BY <1>1 DEF UndoStep, undo, GoBack
  <1>4. /\ undo_stack' \in Seq(EditEntry) /\ e \in EditEntry
        /\ Len(undo_stack') = n - 1
        /\ \A k \in 1 .. (n - 1) : undo_stack'[k] = undo_stack[k]
    BY <1>1, <1>3, FrontPoint
  <1>5. past' \in Seq(Seq(Byte)) /\ present' \in Seq(Byte)
    BY <1>1, <1>3, FrontPoint
  <1>6. /\ UndoChain(base_source, undo_stack', past', present')
        /\ Applies(present', e, present)
    BY <1>1, <1>3, ChainPop
  <1>7. /\ RedoChain(redo_stack', future', present')
        /\ redo_stack' \in Seq(EditEntry) /\ future' \in Seq(Seq(Byte))
    <2>1. RedoChain(Append(redo_stack, e), Append(future, present), present')
      BY <1>1, <1>4, <1>5, <1>6, RedoPush
    <2> QED BY <1>1, <1>3, <1>4, <2>1, AppendPoint
  <1>8. AllNonTrivial(undo_stack') /\ AllNonTrivial(redo_stack')
    <2>1. \A k \in 1 .. (n - 1) : k \in 1 .. n
      BY <1>1
    <2>2. AllNonTrivial(undo_stack')
      BY <1>1, <1>4, <2>1 DEF AllNonTrivial
    <2>3. NonTrivial(e)
      BY <1>1, <1>3 DEF AllNonTrivial
    <2>4. /\ Len(redo_stack') = Len(redo_stack) + 1 /\ redo_stack'[Len(redo_stack) + 1] = e
          /\ \A k \in 1 .. Len(redo_stack) : redo_stack'[k] = redo_stack[k]
      BY <1>1, <1>3, <1>4, AppendPoint
    <2>5. \A k \in 1 .. (Len(redo_stack) + 1) :
             k = Len(redo_stack) + 1 \/ k \in 1 .. Len(redo_stack)
      BY <1>1
    <2> QED BY <1>1, <2>2, <2>3, <2>4, <2>5 DEF AllNonTrivial
  <1>9. PatchOK(patch', base_source) /\ View(base_source, patch') = present'
    <2>1. /\ base_source \in Seq(Byte) /\ undo_stack' \in Seq(EditEntry)
          /\ past' \in Seq(Seq(Byte)) /\ present' \in Seq(Byte)
          /\ UndoChain(base_source, undo_stack', past', present')
      BY <1>1, <1>4, <1>5, <1>6
    <2>2. patch' = Diff(base_source, Replay(base_source, undo_stack'))
      BY <1>3 DEF rebuild_patch_from_stack
    <2> QED BY ONLY <2>1, <2>2, ChainShows
  <1>10. EditorTypes'
    <2>1. history_break' \in BOOLEAN /\ last_edit_at' \in BOOLEAN /\ edit_high_nibble' \in BOOLEAN
      BY <1>2, <1>3, Zenon
    <2>2. revision' \in Nat
      BY <1>1, <1>3
    <2>3. non_lp_entries' \in Nat
      BY <1>1, <1>3 DEF CountPop
    <2> QED BY <1>1, <1>3, <1>4, <1>7, <2>1, <2>2, <2>3 DEF EditorTypes
  <1> QED BY <1>1, <1>3, <1>5, <1>6, <1>7, <1>8, <1>9, <1>10 DEF IInv, BufferTypes, PatchShows

(* redo moves it back. *)
LEMMA RedoKeeps ==
    ASSUME IInv, RedoStep PROVE IInv'
  <1> DEFINE n == Len(redo_stack)
             e == redo_stack[n]
  <1>1. /\ undo_stack \in Seq(EditEntry) /\ redo_stack \in Seq(EditEntry) /\ n \in Nat
        /\ base_source \in Seq(Byte) /\ saved = base_source
        /\ past \in Seq(Seq(Byte)) /\ present \in Seq(Byte) /\ future \in Seq(Seq(Byte))
        /\ UndoChain(base_source, undo_stack, past, present) /\ Len(future) = n
        /\ RedoChain(redo_stack, future, present)
        /\ AllNonTrivial(undo_stack) /\ AllNonTrivial(redo_stack)
        /\ non_lp_entries \in Nat /\ revision \in Nat
        /\ mode \in {"Readonly", "Mutable"} /\ typing_mode \in {"Replace", "Insert"}
    BY DEF IInv, EditorTypes, BufferTypes, RedoChain
  <1>2. last_edit_at \in BOOLEAN
    BY DEF IInv, EditorTypes
  <1>3. /\ n > 0 /\ revision' = revision + 1
        /\ redo_stack' = SubSeq(redo_stack, 1, n - 1)
        /\ undo_stack' = Append(undo_stack, e)
        /\ non_lp_entries' = CountPush(non_lp_entries, e)
        /\ patch' = rebuild_patch_from_stack(undo_stack')
        /\ history_break' = TRUE /\ edit_high_nibble' = TRUE
        /\ base_source' = base_source /\ mode' = mode /\ typing_mode' = typing_mode
        /\ last_edit_at' = last_edit_at
        /\ present' = future[n] /\ future' = SubSeq(future, 1, n - 1)
        /\ past' = Append(past, present) /\ saved' = saved
    BY <1>1 DEF RedoStep, redo, GoForward
  <1>4. /\ redo_stack' \in Seq(EditEntry) /\ e \in EditEntry
        /\ Len(redo_stack') = n - 1
        /\ \A k \in 1 .. (n - 1) : redo_stack'[k] = redo_stack[k]
    BY <1>1, <1>3, FrontPoint
  <1>5. future' \in Seq(Seq(Byte)) /\ present' \in Seq(Byte)
    BY <1>1, <1>3, FrontPoint
  <1>6. /\ RedoChain(redo_stack', future', present')
        /\ Applies(present, e, present')
    BY <1>1, <1>3, RedoPop
  <1>7. /\ UndoChain(base_source, undo_stack', past', present')
        /\ undo_stack' \in Seq(EditEntry) /\ past' \in Seq(Seq(Byte))
    <2>1. UndoChain(base_source, Append(undo_stack, e), Append(past, present), present')
      BY <1>1, <1>4, <1>5, <1>6, ChainPush
    <2> QED BY <1>1, <1>3, <1>4, <2>1, AppendPoint
  <1>8. AllNonTrivial(undo_stack') /\ AllNonTrivial(redo_stack')
    <2>1. \A k \in 1 .. (n - 1) : k \in 1 .. n
      BY <1>1
    <2>2. AllNonTrivial(redo_stack')
      BY <1>1, <1>4, <2>1 DEF AllNonTrivial
    <2>3. NonTrivial(e)
      BY <1>1, <1>3 DEF AllNonTrivial
    <2>4. /\ Len(undo_stack') = Len(undo_stack) + 1 /\ undo_stack'[Len(undo_stack) + 1] = e
          /\ \A k \in 1 .. Len(undo_stack) : undo_stack'[k] = undo_stack[k]
      BY <1>1, <1>3, <1>4, AppendPoint
    <2>5. \A k \in 1 .. (Len(undo_stack) + 1) :
             k = Len(undo_stack) + 1 \/ k \in 1 .. Len(undo_stack)
      BY <1>1
    <2> QED BY <1>1, <2>2, <2>3, <2>4, <2>5 DEF AllNonTrivial
  <1>9. PatchOK(patch', base_source) /\ View(base_source, patch') = present'
    BY <1>1, <1>3, <1>5, <1>7, ChainShows, ZenonT(60) DEF rebuild_patch_from_stack
  <1>10. EditorTypes'
    <2>1. history_break' \in BOOLEAN /\ last_edit_at' \in BOOLEAN /\ edit_high_nibble' \in BOOLEAN
      BY <1>2, <1>3, Zenon
    <2>2. revision' \in Nat
      BY <1>1, <1>3
    <2>3. non_lp_entries' \in Nat
      BY <1>1, <1>3 DEF CountPush
    <2> QED BY <1>1, <1>3, <1>4, <1>7, <2>1, <2>2, <2>3 DEF EditorTypes
  <1> QED BY <1>1, <1>3, <1>5, <1>6, <1>7, <1>8, <1>9, <1>10 DEF IInv, BufferTypes, PatchShows

(* revert drops the patch and both stacks. *)
LEMMA RevertKeeps ==
    ASSUME IInv, RevertStep PROVE IInv'
  <1>1. /\ base_source \in Seq(Byte) /\ saved = base_source /\ revision \in Nat
        /\ mode \in {"Readonly", "Mutable"} /\ typing_mode \in {"Replace", "Insert"}
    BY DEF IInv, EditorTypes
  <1>2. edit_high_nibble \in BOOLEAN
    BY DEF IInv, EditorTypes
  <1>3. /\ revision' = revision + 1 /\ undo_stack' = << >> /\ redo_stack' = << >>
        /\ history_break' = TRUE /\ last_edit_at' = FALSE /\ non_lp_entries' = 0
        /\ patch' = rebuild_patch_from_stack(<< >>) /\ base_source' = base_source
        /\ mode' = mode /\ typing_mode' = typing_mode /\ edit_high_nibble' = edit_high_nibble
        /\ Reset(base_source)
    BY <1>1 DEF RevertStep, revert, typingVars
  <1>4. EditorTypes'
    <2>1. history_break' \in BOOLEAN /\ last_edit_at' \in BOOLEAN /\ edit_high_nibble' \in BOOLEAN
      BY <1>2, <1>3, Zenon
    <2>2. revision' \in Nat /\ non_lp_entries' \in Nat
      BY <1>1, <1>3
    <2> QED BY <1>1, <1>3, <2>1, <2>2, EmptyChains DEF EditorTypes
  <1>5. PatchOK(patch', base_source) /\ View(base_source, patch') = base_source
    BY <1>1, <1>3, EmptyChains, ChainShows DEF rebuild_patch_from_stack
  <1> QED BY <1>1, <1>3, <1>4, <1>5, FreshStart

(* A save and a reload: the new base has no edits on it. *)
LEMMA SwapKeeps ==
    ASSUME IInv, NEW base \in Seq(Byte), swap_base(base), Reset(base) PROVE IInv'
  <1>1. /\ mode \in {"Readonly", "Mutable"} /\ typing_mode \in {"Replace", "Insert"}
        /\ revision \in Nat
    BY DEF IInv, EditorTypes
  <1>2. /\ base_source' = base /\ patch' = EmptyPatch
        /\ undo_stack' = << >> /\ redo_stack' = << >>
        /\ history_break' = TRUE /\ last_edit_at' = FALSE /\ edit_high_nibble' = TRUE
        /\ non_lp_entries' = 0 /\ mode' = mode /\ typing_mode' = typing_mode
        /\ revision' = revision
    BY DEF swap_base
  <1>3. EditorTypes'
    <2>1. history_break' \in BOOLEAN /\ last_edit_at' \in BOOLEAN /\ edit_high_nibble' \in BOOLEAN
      BY <1>2, Zenon
    <2>2. revision' \in Nat /\ non_lp_entries' \in Nat
      BY <1>1, <1>2
    <2> QED BY <1>1, <1>2, <2>1, <2>2, EmptyChains DEF EditorTypes
  <1> QED BY <1>2, <1>3, EmptyView, FreshStart

(* A save makes the shown content the new base (swap_base). *)
LEMMA SaveKeeps ==
    ASSUME IInv, SaveStep PROVE IInv'
  <1>1. view = present /\ present \in Seq(Byte)
    BY DEF IInv, PatchShows, BufferTypes, view
  <1>2. swap_base(present) /\ Reset(present)
    BY <1>1 DEF SaveStep
  <1> QED BY <1>1, <1>2, SwapKeeps

(* A reload takes any other content as the new base (swap_base). *)
LEMMA ReloadKeeps ==
    ASSUME IInv, ReloadStep PROVE IInv'
  <1>1. PICK base \in Sources : swap_base(base) /\ Reset(base)
    BY DEF ReloadStep
  <1>2. base \in Seq(Byte)
    BY EditConstants
  <1> QED BY <1>1, <1>2, SwapKeeps

(* Steps that touch neither the bytes nor the stacks. *)
LEMMA QuietKeeps ==
    ASSUME IInv, EditorTypes',
           UNCHANGED <<base_source, patch, undo_stack, redo_stack, bufferVars>>
    PROVE  IInv'
  <1>1. /\ base_source' = base_source /\ patch' = patch /\ undo_stack' = undo_stack
        /\ redo_stack' = redo_stack /\ saved' = saved /\ present' = present
        /\ past' = past /\ future' = future
    BY DEF bufferVars
  <1> QED BY <1>1 DEF IInv, BufferTypes, PatchShows

(* set_edit_mode touches no bytes. *)
LEMMA ModeKeeps ==
    ASSUME IInv, ModeStep PROVE IInv'
  <1>1. EditorTypes'
    BY DEF ModeStep, set_edit_mode, IInv, EditorTypes
  <1>2. UNCHANGED <<base_source, patch, undo_stack, redo_stack, bufferVars>>
    BY DEF ModeStep, set_edit_mode
  <1> QED BY <1>1, <1>2, QuietKeeps

(* push_history_boundary only decides whether the next edit merges. *)
LEMMA BoundaryKeeps ==
    ASSUME IInv, BoundaryStep PROVE IInv'
  <1>1. EditorTypes'
    BY DEF BoundaryStep, push_history_boundary, IInv, EditorTypes, typingVars
  <1>2. UNCHANGED <<base_source, patch, undo_stack, redo_stack, bufferVars>>
    BY DEF BoundaryStep, push_history_boundary
  <1> QED BY <1>1, <1>2, QuietKeeps

(* A restored sidecar puts back the patch and both stacks. *)
LEMMA RestoreKeeps ==
    ASSUME IInv, RestoreStep PROVE IInv'
  <1>1. EditorTypes'
    BY DEF RestoreStep, IInv, EditorTypes
  <1>2. UNCHANGED <<base_source, patch, undo_stack, redo_stack, bufferVars>>
    BY DEF RestoreStep
  <1> QED BY <1>1, <1>2, QuietKeeps

(* A step that changes nothing. *)
LEMMA StutterKeeps ==
    ASSUME IInv, UNCHANGED historyAndBuffer PROVE IInv'
  <1>1. EditorTypes'
    BY DEF historyAndBuffer, editVars, historyVars, typingVars, IInv, EditorTypes
  <1>2. UNCHANGED <<base_source, patch, undo_stack, redo_stack, bufferVars>>
    BY DEF historyAndBuffer, editVars, historyVars
  <1> QED BY <1>1, <1>2, QuietKeeps

-----------------------------------------------------------------------------
(* What the invariant gives. *)

(* The invariant holds in every session, over quits and restores too. *)
THEOREM SessionInv == SessionSpec => []IInv
  <1>1. HistoryInit => IInv
    BY InitIInv
  <1>2. IInv /\ [SessionNext]_historyAndBuffer => IInv'
    <2> SUFFICES ASSUME IInv, [SessionNext]_historyAndBuffer PROVE IInv'
      OBVIOUS
    <2>1. CASE WriteStep BY <2>1, WriteKeeps
    <2>2. CASE SpliceStep BY <2>2, SpliceKeeps
    <2>3. CASE InsertStep BY <2>3, InsertKeeps
    <2>4. CASE BatchStep BY <2>4, BatchKeeps
    <2>5. CASE UndoStep BY <2>5, UndoKeeps
    <2>6. CASE RedoStep BY <2>6, RedoKeeps
    <2>7. CASE RevertStep BY <2>7, RevertKeeps
    <2>8. CASE SaveStep BY <2>8, SaveKeeps
    <2>9. CASE ReloadStep BY <2>9, ReloadKeeps
    <2>10. CASE ModeStep BY <2>10, ModeKeeps
    <2>11. CASE BoundaryStep BY <2>11, BoundaryKeeps
    <2>12. CASE RestoreStep BY <2>12, RestoreKeeps
    <2>13. CASE UNCHANGED historyAndBuffer BY <2>13, StutterKeeps
    <2> QED
      BY <2>1, <2>2, <2>3, <2>4, <2>5, <2>6, <2>7, <2>8, <2>9, <2>10, <2>11, <2>12, <2>13
      DEF SessionNext, HistoryNext
  <1> QED BY <1>1, <1>2, PTL DEF SessionSpec

(* The editor's variables keep their types in every session (editor.rs     *)
(* EditState): the patch stays inside its base, also right after a save or  *)
(* a reload replaced the base.                                             *)
THEOREM SessionTypes == SessionSpec => []TypeOK
  <1>1. IInv => TypeOK
    BY DEF IInv, EditorTypes, PatchShows, PatchOK, TypeOK
  <1> QED BY <1>1, SessionInv, PTL

(* The bytes shown are always the ones asked for: for every sequence of     *)
(* edits, batches, undo, redo, saves, reloads and restores, coalescing, the *)
(* in-place fast path and the rebuilt patch agree with the plain buffer.   *)
THEOREM SessionViewIsPresent == SessionSpec => []ViewIsPresent
  <1>1. IInv => ViewIsPresent
    BY DEF IInv, PatchShows, ViewIsPresent, view
  <1> QED BY <1>1, SessionInv, PTL

(* The undo entries lead through the contents of past. *)
LEMMA InvUndoWalks ==
    ASSUME IInv
    PROVE  UndoWalksPast
  <1>1. /\ base_source \in Seq(Byte) /\ undo_stack \in Seq(EditEntry)
        /\ past \in Seq(Seq(Byte)) /\ present \in Seq(Byte)
        /\ UndoChain(base_source, undo_stack, past, present)
    BY DEF IInv, EditorTypes, BufferTypes
  <1>2. \A k \in 1 .. Len(undo_stack) : Contents(base_source, undo_stack)[k - 1] = past[k]
    BY ONLY <1>1, ChainShows
  <1> QED BY <1>1, <1>2 DEF UndoWalksPast, UndoChain

(* Undo goes back through exactly the contents the user left. *)
THEOREM SessionUndoWalksPast == SessionSpec => []UndoWalksPast
  <1>1. IInv => UndoWalksPast
    BY InvUndoWalks
  <1> QED BY <1>1, SessionInv, PTL

(* Every undo entry says truly which bytes it replaced, merged ones too. *)
THEOREM SessionOldBytes == SessionSpec => []OldBytesAreTruthful
  <1>1. IInv => OldBytesAreTruthful
    <2> SUFFICES ASSUME IInv, NEW k \in 1 .. Len(undo_stack)
                 PROVE  undo_stack[k].old_bytes =
                           Slice(past[k], undo_stack[k].offset, Len(undo_stack[k].old_bytes))
      BY DEF OldBytesAreTruthful
    <2>1. /\ past \in Seq(Seq(Byte)) /\ present \in Seq(Byte) /\ Len(past) = Len(undo_stack)
          /\ Applies(Append(past, present)[k], undo_stack[k], Append(past, present)[k + 1])
      BY DEF IInv, BufferTypes, UndoChain
    <2>2. Append(past, present)[k] = past[k]
      BY <2>1, AppendPoint
    <2> QED BY <2>1, <2>2 DEF Applies
  <1> QED BY <1>1, SessionInv, PTL

(* The redo entries lead through the contents of future. *)
LEMMA InvRedoWalks ==
    ASSUME IInv
    PROVE  RedoWalksFuture
  <1> DEFINE n == Len(redo_stack)
             rev == [k \in 1 .. n |-> redo_stack[n + 1 - k]]
             whole == Append(future, present)
             trail == [k \in 1 .. (n + 1) |-> whole[n + 2 - k]]
  <1>1. /\ redo_stack \in Seq(EditEntry) /\ n \in Nat /\ Len(future) = n
        /\ future \in Seq(Seq(Byte)) /\ present \in Seq(Byte)
        /\ \A k \in 1 .. n : Applies(whole[k + 1], redo_stack[k], whole[k])
    BY DEF IInv, EditorTypes, BufferTypes, RedoChain
  <1>2. /\ whole \in Seq(Seq(Byte)) /\ Len(whole) = n + 1 /\ whole[n + 1] = present
        /\ \A k \in 1 .. n : whole[k] = future[k]
    BY <1>1, AppendPoint
  <1> HIDE DEF whole
  <1>3. rev \in Seq(EditEntry) /\ Len(rev) = n
    <2>1. \A k \in 1 .. n : n + 1 - k \in 1 .. n
      BY <1>1
    <2>2. rev \in [1 .. n -> EditEntry]
      BY <1>1, <2>1
    <2> QED BY <1>1, <2>2, FunctionIsBuffer
  <1>4. trail[1] = present
    BY <1>1, <1>2
  <1>5. ASSUME NEW k \in 1 .. n
        PROVE  trail[k] \in Seq(Byte) /\ Applies(trail[k], rev[k], trail[k + 1])
    <2>1. /\ k \in 1 .. (n + 1) /\ k + 1 \in 1 .. (n + 1) /\ n + 1 - k \in 1 .. n
          /\ n + 2 - k = (n + 1 - k) + 1 /\ n + 2 - (k + 1) = n + 1 - k
          /\ n + 2 - k \in 1 .. (n + 1)
      BY <1>1
    <2>2. trail[k] = whole[(n + 1 - k) + 1] /\ trail[k + 1] = whole[n + 1 - k]
      BY <2>1
    <2>3. whole[n + 2 - k] \in Seq(Byte)
      BY <1>2, <2>1
    <2>4. Applies(whole[(n + 1 - k) + 1], redo_stack[n + 1 - k], whole[n + 1 - k])
      BY <1>1, <2>1
    <2> QED BY <2>1, <2>2, <2>3, <2>4
  <1>6. \A k \in 0 .. n : Contents(present, rev)[k] = trail[k + 1]
    <2>1. /\ \A k \in 1 .. Len(rev) : trail[k] \in Seq(Byte)
          /\ \A k \in 1 .. Len(rev) : Applies(trail[k], rev[k], trail[k + 1])
      BY <1>3, <1>5
    <2>2. present \in Seq(Byte)
      BY <1>1
    <2> HIDE DEF trail, rev
    <2>3. \A k \in 0 .. Len(rev) : Contents(present, rev)[k] = trail[k + 1]
      BY ONLY <1>3, <1>4, <2>1, <2>2, ReplayOfChain
    <2> QED BY <1>3, <2>3
  <1>7. ASSUME NEW k \in 1 .. n PROVE Contents(present, rev)[k] = future[n + 1 - k]
    <2>1. /\ k \in 0 .. n /\ k + 1 \in 1 .. (n + 1) /\ n + 2 - (k + 1) = n + 1 - k
          /\ n + 1 - k \in 1 .. n
      BY <1>1
    <2> QED BY <1>2, <1>6, <2>1
  <1> QED BY <1>1, <1>7 DEF RedoWalksFuture

(* Redo re-applies each undone entry to the content it was taken from. *)
THEOREM SessionRedoWalksFuture == SessionSpec => []RedoWalksFuture
  <1>1. IInv => RedoWalksFuture
    BY InvRedoWalks
  <1> QED BY <1>1, SessionInv, PTL

-----------------------------------------------------------------------------
(* The editor implements the undo buffer. *)

(* The buffer read off the editor is the one that was told what to do. *)
Agree ==
    /\ base_source = saved
    /\ view = present
    /\ UndoContents = past
    /\ RedoContents = future

(* A sequence is the function that picks its elements. *)
LEMMA ElementByElement ==
    ASSUME NEW S, NEW s \in Seq(S), NEW f,
           f = [k \in 1 .. Len(s) |-> f[k]], \A k \in 1 .. Len(s) : f[k] = s[k]
    PROVE  f = s
  <1>1. s = [k \in 1 .. Len(s) |-> s[k]]
    OBVIOUS
  <1>2. [k \in 1 .. Len(s) |-> f[k]] = [k \in 1 .. Len(s) |-> s[k]]
    OBVIOUS
  <1> QED BY <1>1, <1>2

(* Under the invariant the two buffers agree. *)
LEMMA InvAgree ==
    ASSUME IInv
    PROVE  Agree
  <1>1. base_source = saved /\ view = present
    BY DEF IInv, PatchShows, view
  <1>2. UndoContents = past
    <2>1. /\ past \in Seq(Seq(Byte)) /\ Len(past) = Len(undo_stack)
          /\ \A k \in 1 .. Len(past) : Contents(base_source, undo_stack)[k - 1] = past[k]
      BY InvUndoWalks DEF IInv, BufferTypes, UndoWalksPast
    <2>2. UndoContents = [k \in 1 .. Len(past) |-> Contents(base_source, undo_stack)[k - 1]]
      BY <2>1 DEF UndoContents
    <2>3. \A k \in 1 .. Len(past) : UndoContents[k] = past[k]
      BY <2>1, <2>2
    <2>4. UndoContents = [k \in 1 .. Len(past) |-> UndoContents[k]]
      BY <2>2
    <2> QED BY <2>1, <2>3, <2>4, ElementByElement
  <1>3. RedoContents = future
    <2> DEFINE n == Len(redo_stack)
               ahead == Contents(present, [k \in 1 .. n |-> redo_stack[n + 1 - k]])
    <2>1. /\ future \in Seq(Seq(Byte)) /\ Len(future) = n /\ n \in Nat
          /\ \A k \in 1 .. n : ahead[k] = future[n + 1 - k]
      BY InvRedoWalks DEF IInv, BufferTypes, RedoWalksFuture
    <2>2. RedoContents = [k \in 1 .. n |-> ahead[n + 1 - k]]
      BY <1>1 DEF RedoContents
    <2> HIDE DEF ahead
    <2>3. ASSUME NEW k \in 1 .. n PROVE RedoContents[k] = future[k]
      <3>1. n + 1 - k \in 1 .. n /\ n + 1 - (n + 1 - k) = k
        BY <2>1
      <3> QED BY <2>1, <2>2, <3>1
    <2>4. RedoContents = [k \in 1 .. n |-> RedoContents[k]]
      BY <2>2
    <2> QED BY <2>1, <2>3, <2>4, ElementByElement
  <1> QED BY <1>1, <1>2, <1>3 DEF Agree

(* Every step of a session tells the buffer to take one of its steps. *)
LEMMA SessionStepIsBufferStep ==
    ASSUME [SessionNext]_historyAndBuffer
    PROVE  [BufferNext]_bufferVars
  <1>1. Joined \in BOOLEAN
    BY DEF Joined
  <1>2. CASE WriteStep \/ SpliceStep \/ InsertStep \/ BatchStep
    <2>1. PICK content : Change(content, Joined)
      BY <1>2 DEF WriteStep, SpliceStep, InsertStep, BatchStep, Edit, EditBatch
    <2>2. Change(present', Joined)
      BY <2>1 DEF Change
    <2> QED BY <1>1, <2>2 DEF BufferNext
  <1>3. CASE UndoStep \/ RedoStep
    BY <1>3 DEF UndoStep, RedoStep, BufferNext
  <1>4. CASE RevertStep \/ SaveStep \/ ReloadStep
    <2>1. PICK content : Reset(content)
      BY <1>4 DEF RevertStep, SaveStep, ReloadStep
    <2>2. Reset(present')
      BY <2>1 DEF Reset
    <2> QED BY <2>2 DEF BufferNext
  <1>5. CASE ModeStep \/ BoundaryStep \/ RestoreStep \/ UNCHANGED historyAndBuffer
    BY <1>5 DEF ModeStep, BoundaryStep, RestoreStep, historyAndBuffer, bufferVars
  <1> QED BY <1>2, <1>3, <1>4, <1>5 DEF SessionNext, HistoryNext

(* EditState implements UndoBuffer: read through its base, patch and stacks *)
(* alone (editor.rs EditState), every step of a session is a step of the    *)
(* undo buffer or changes nothing of it.                                   *)
THEOREM EditorImplementsBuffer == SessionSpec => EditorIsUndoBuffer
  <1>1. IInv => Agree
    BY InvAgree
  <1>2. HistoryInit => Undoable!Blank(base_source)
    <2> SUFFICES ASSUME HistoryInit PROVE Undoable!Blank(base_source)
      OBVIOUS
    <2>1. Agree
      BY InitIInv, InvAgree
    <2> QED BY <2>1 DEF Agree, HistoryInit, Blank, Undoable!Blank
  <1>3. Agree /\ Agree' /\ [SessionNext]_historyAndBuffer
           => [Undoable!BufferNext]_(Undoable!bufferVars)
    <2> SUFFICES ASSUME Agree, Agree', [BufferNext]_bufferVars
                 PROVE  [Undoable!BufferNext]_(Undoable!bufferVars)
      BY SessionStepIsBufferStep
    <2>1. /\ base_source = saved /\ base_source' = saved'
          /\ view = present /\ view' = present'
          /\ UndoContents = past /\ UndoContents' = past'
          /\ RedoContents = future /\ RedoContents' = future'
      BY DEF Agree
    <2>2. CASE UNCHANGED bufferVars
      BY <2>1, <2>2 DEF bufferVars, Undoable!bufferVars
    <2>3. CASE BufferNext
      BY <2>1, <2>3 DEF BufferNext, Change, GoBack, GoForward, Reset,
             Undoable!BufferNext, Undoable!Change, Undoable!GoBack, Undoable!GoForward,
             Undoable!Reset
    <2> QED BY <2>2, <2>3
  <1> QED
    BY <1>1, <1>2, <1>3, SessionInv, PTL DEF SessionSpec, EditorIsUndoBuffer, Undoable!BufferSpec

-----------------------------------------------------------------------------
(* The count of length-changing entries, which a restore does not keep. *)

LengthChanging(stack) == {k \in 1 .. Len(stack) : ~IsLP(stack[k])}

(* Pushing an entry counts it. *)
LEMMA PushCounts ==
    ASSUME NEW stack \in Seq(EditEntry), NEW e \in EditEntry
    PROVE  /\ Cardinality(LengthChanging(stack)) \in Nat
           /\ Cardinality(LengthChanging(Append(stack, e))) =
                 CountPush(Cardinality(LengthChanging(stack)), e)
  <1> DEFINE n == Len(stack)
             low == LengthChanging(stack)
             all == LengthChanging(Append(stack, e))
  <1>1. n \in Nat
    OBVIOUS
  <1>2. IsFiniteSet(low) /\ Cardinality(low) \in Nat
    <2>1. IsFiniteSet(1 .. n)
      BY <1>1, FS_Interval
    <2>2. low \subseteq 1 .. n
      BY DEF LengthChanging
    <2>3. IsFiniteSet(low)
      BY <2>1, <2>2, FS_Subset
    <2> QED BY <2>3, FS_CardinalityType
  <1>3. /\ Len(Append(stack, e)) = n + 1 /\ Append(stack, e)[n + 1] = e
        /\ \A k \in 1 .. n : Append(stack, e)[k] = stack[k]
    BY AppendPoint
  <1>4. n + 1 \notin low
    BY <1>1 DEF LengthChanging
  <1>5. \A k : k \in 1 .. (n + 1) <=> (k = n + 1 \/ k \in 1 .. n)
    BY <1>1
  <1>6. CASE IsLP(e)
    <2>1. all = low
      BY <1>3, <1>5, <1>6 DEF LengthChanging
    <2> QED BY <1>2, <1>6, <2>1 DEF CountPush
  <1>7. CASE ~IsLP(e)
    <2>1. all = low \cup {n + 1}
      BY <1>3, <1>5, <1>7 DEF LengthChanging
    <2>2. Cardinality(low \cup {n + 1}) = Cardinality(low) + 1
      BY <1>2, <1>4, FS_AddElement
    <2> QED BY <1>2, <1>7, <2>1, <2>2 DEF CountPush
  <1> QED BY <1>6, <1>7

(* Dropping the last entry uncounts it. *)
LEMMA PopCounts ==
    ASSUME NEW stack \in Seq(EditEntry), NEW n, n = Len(stack), n > 0
    PROVE  Cardinality(LengthChanging(SubSeq(stack, 1, n - 1))) =
              CountPop(Cardinality(LengthChanging(stack)), stack[n])
  <1> DEFINE front == SubSeq(stack, 1, n - 1)
             e == stack[n]
             c == Cardinality(LengthChanging(front))
  <1>1. /\ n \in Nat /\ front \in Seq(EditEntry) /\ Len(front) = n - 1 /\ e \in EditEntry
        /\ \A k \in 1 .. (n - 1) : front[k] = stack[k]
    BY FrontPoint
  <1>2. Append(front, e) = stack
    <2> HIDE DEF front, e
    <2>1. /\ Append(front, e) \in Seq(EditEntry) /\ Len(Append(front, e)) = (n - 1) + 1
          /\ \A k \in 1 .. (n - 1) : Append(front, e)[k] = front[k]
          /\ Append(front, e)[(n - 1) + 1] = e
      BY <1>1, AppendPoint
    <2>2. (n - 1) + 1 = n /\ \A k \in 1 .. n : k = n \/ k \in 1 .. (n - 1)
      BY <1>1
    <2>3. \A k \in 1 .. n : Append(front, e)[k] = stack[k]
      BY <1>1, <2>1, <2>2 DEF e
    <2>4. Len(Append(front, e)) = Len(stack)
      BY <2>1, <2>2
    <2> QED BY <2>1, <2>3, <2>4, BufferEqual
  <1> HIDE DEF front, e
  <1>3. c \in Nat /\ Cardinality(LengthChanging(stack)) = CountPush(c, e)
    BY <1>1, <1>2, PushCounts
  <1> HIDE DEF c
  <1>4. CountPop(CountPush(c, e), e) = c
    BY <1>3 DEF CountPop, CountPush
  <1> QED BY <1>3, <1>4 DEF c, front, e

(* A merge keeps the last entry's kind. *)
LEMMA MergeCounts ==
    ASSUME NEW stack \in Seq(EditEntry), NEW n, n = Len(stack), n > 0,
           NEW m \in EditEntry, IsLP(m) <=> IsLP(stack[n])
    PROVE  LengthChanging([stack EXCEPT ![n] = m]) = LengthChanging(stack)
  <1> DEFINE new == [stack EXCEPT ![n] = m]
  <1>1. /\ n \in Nat /\ n \in 1 .. n /\ Len(new) = n /\ new[n] = m
        /\ \A k \in 1 .. n : k # n => new[k] = stack[k]
    OBVIOUS
  <1> HIDE DEF new
  <1>2. \A k \in 1 .. n : IsLP(new[k]) <=> IsLP(stack[k])
    <2> HIDE DEF IsLP
    <2> QED BY <1>1
  <1> QED BY <1>1, <1>2 DEF LengthChanging, new

(* Recording keeps the count right. *)
LEMMA RecordCounts ==
    ASSUME IInv, NonLpCount, BelowCap, NEW e \in EditEntry, NonTrivial(e), NEW boundary,
           Recorded(e, boundary), NEW post, Applies(present, e, post)
    PROVE  NonLpCount'
  <1> DEFINE n == Len(undo_stack)
             last == undo_stack[n]
  <1>1. /\ undo_stack \in Seq(EditEntry) /\ n \in Nat
        /\ non_lp_entries = Cardinality(LengthChanging(undo_stack))
    BY DEF IInv, EditorTypes, NonLpCount, LengthChanging
  <1>2. NonLpCount' <=> non_lp_entries' = Cardinality(LengthChanging(undo_stack'))
    BY DEF NonLpCount, LengthChanging
  <1>3. CASE /\ undo_stack' = Append(undo_stack, e)
             /\ non_lp_entries' = CountPush(non_lp_entries, e)
    BY <1>1, <1>2, <1>3, PushCounts
  <1>4. CASE /\ n > 0 /\ Coalesces(last, e)
             /\ undo_stack' = [undo_stack EXCEPT ![n] = Coalesced(last, e)]
             /\ non_lp_entries' = non_lp_entries
    <2>0. /\ base_source \in Seq(Byte) /\ past \in Seq(Seq(Byte)) /\ present \in Seq(Byte)
          /\ UndoChain(base_source, undo_stack, past, present) /\ Len(past) = n
      BY DEF IInv, EditorTypes, BufferTypes, UndoChain
    <2>1. n \in 1 .. n
      BY <1>1, <1>4
    <2>2. last \in EditEntry /\ NonTrivial(last) /\ past[n] \in Seq(Byte)
      BY <1>1, <2>0, <2>1 DEF IInv, AllNonTrivial
    <2>3. Applies(past[n], last, present)
      BY <1>1, <1>4, <2>0, ChainPop
    <2>4. MergesTo(past[n], last, e, present, post, Coalesced(last, e))
      <3>1. Coalesces(last, e)
        BY <1>4
      <3> HIDE DEF last
      <3> QED BY <2>2, <2>3, <3>1, CoalescedMerges
    <2>5. Coalesced(last, e) \in EditEntry /\ (IsLP(Coalesced(last, e)) <=> IsLP(last))
      BY <2>4 DEF MergesTo
    <2>6. LengthChanging(undo_stack') = LengthChanging(undo_stack)
      BY <1>1, <1>4, <2>5, MergeCounts
    <2> QED BY <1>1, <1>2, <1>4, <2>6
  <1> QED BY <1>3, <1>4, RecordCases

(* An edit, in whatever operation, keeps the count right. *)
LEMMA EditCounts ==
    ASSUME IInv, NonLpCount, BelowCap,
           NEW offset \in Nat, NEW remove \in Nat, NEW insert \in Seq(Byte),
           offset + remove <= Len(view), remove > 0 \/ insert # << >>,
           record_entry(Entry(offset, remove, insert), history_break)
    PROVE  NonLpCount'
  <1> DEFINE e == Entry(offset, remove, insert)
             post == Splice(present, offset, remove, insert)
  <1>1. e \in EditEntry /\ NonTrivial(e) /\ Applies(present, e, post)
    BY EntryApplies
  <1>2. Recorded(e, history_break)
    BY DEF record_entry
  <1> HIDE DEF e, post
  <1> QED BY <1>1, <1>2, RecordCounts

(* Every operation other than a restore keeps the count right. *)
LEMMA StepCounts ==
    ASSUME IInv, NonLpCount, [HistoryNext]_historyAndBuffer
    PROVE  NonLpCount'
  <1>0. undo_stack \in Seq(EditEntry) /\ redo_stack \in Seq(EditEntry)
    BY DEF IInv, EditorTypes
  <1>1. CASE WriteStep
    <2>1. PICK offset \in Offsets, bytes \in Payloads :
             Requested(Len(bytes), bytes) /\ request_write(offset, bytes, history_break)
      BY <1>1 DEF WriteStep
    <2>2. bytes \in Seq(Byte) /\ Len(bytes) \in Nat /\ offset \in Nat
      BY EditConstants DEF Offsets
    <2>3. /\ BelowCap /\ (Len(bytes) > 0 \/ bytes # << >>)
          /\ offset + Len(bytes) <= Len(view)
          /\ record_entry(Entry(offset, Len(bytes), bytes), history_break)
      BY <2>1 DEF Requested, request_write, CanRecord
    <2> QED BY <2>2, <2>3, EditCounts
  <1>2. CASE SpliceStep
    <2>1. PICK offset \in Offsets, remove \in 0 .. MaxRemove, insert \in Payloads :
             Requested(remove, insert) /\ splice(offset, remove, insert, history_break)
      BY <1>2 DEF SpliceStep
    <2>2. insert \in Seq(Byte) /\ remove \in Nat /\ offset \in Nat
      BY EditConstants, MaxRemoveAssumption DEF Offsets
    <2>3. /\ BelowCap /\ (remove > 0 \/ insert # << >>)
          /\ offset + remove <= Len(view)
          /\ record_entry(Entry(offset, remove, insert), history_break)
      BY <2>1 DEF Requested, splice, CanRecord
    <2> QED BY <2>2, <2>3, EditCounts
  <1>3. CASE InsertStep
    <2>1. PICK offset \in Offsets, bytes \in Payloads :
             Requested(0, bytes) /\ insert_at(offset, bytes, history_break)
      BY <1>3 DEF InsertStep
    <2>2. bytes \in Seq(Byte) /\ offset \in Nat /\ 0 \in Nat
      BY EditConstants DEF Offsets
    <2>3. /\ BelowCap /\ (0 > 0 \/ bytes # << >>)
          /\ offset + 0 <= Len(view)
          /\ record_entry(Entry(offset, 0, bytes), history_break)
      BY <2>1 DEF Requested, insert_at, CanRecord
    <2> QED BY <2>2, <2>3, EditCounts
  <1>4. CASE BatchStep
    <2>1. PICK a \in Offsets, b \in Offsets, repl \in Payloads :
             Requested(1, repl) /\ splice_many(TwoOps(a, b, repl), history_break)
      BY <1>4 DEF BatchStep, TwoOps
    <2> DEFINE ops == TwoOps(a, b, repl)
               span == b + 1 - a
               bytes == BatchBytes(ops, Slice(view, a, span))
    <2>2. repl \in Seq(Byte) /\ a \in Nat /\ b \in Nat
      BY EditConstants DEF Offsets
    <2>3. /\ Len(ops) = 2
          /\ ops[1].offset = a /\ ops[1].remove = 1 /\ ops[1].insert = repl
          /\ ops[2].offset = b /\ ops[2].remove = 1 /\ ops[2].insert = repl
      BY ReplaceTwo
    <2>4. view \in Seq(Byte) /\ Len(view) \in Nat
      BY DEF IInv, PatchShows, BufferTypes, view
    <2> HIDE DEF ops
    <2>5. ValidBatch(ops) /\ record_entry(Entry(a, span, bytes), history_break)
      BY <2>1, <2>3 DEF splice_many, ops
    <2>6. a + 1 <= b /\ b + 1 <= Len(view)
      <3>1. 2 \in 1 .. 2 /\ 2 \in 2 .. 2 /\ 2 - 1 = 1
        OBVIOUS
      <3>2. ops[2].offset >= ops[2 - 1].offset + ops[2 - 1].remove
        BY <2>3, <2>5, <3>1 DEF ValidBatch
      <3>3. ops[2].offset + ops[2].remove <= Len(view)
        BY <2>3, <2>5, <3>1 DEF ValidBatch
      <3>4. b >= a + 1 /\ b + 1 <= Len(view)
        BY <2>3, <3>1, <3>2, <3>3
      <3> QED BY <2>2, <3>4
    <2>7. span \in Nat /\ span > 0 /\ a + span <= Len(view)
      BY <2>2, <2>4, <2>6
    <2>8. bytes \in Seq(Byte)
      <3>1. /\ view \in Seq(Byte) /\ a \in Nat /\ b \in Nat /\ repl \in Seq(Byte)
            /\ a + 1 <= b /\ b + 1 <= Len(view) /\ ops = TwoOps(a, b, repl)
            /\ bytes = BatchBytes(ops, Slice(view, a, b + 1 - a))
        BY <2>2, <2>4, <2>6 DEF ops
      <3> HIDE DEF bytes
      <3> QED BY ONLY <3>1, BatchAsOneEntry
    <2> HIDE DEF bytes, span
    <2>9. BelowCap
      BY <2>1 DEF Requested
    <2> QED BY <2>2, <2>5, <2>7, <2>8, <2>9, EditCounts
  <1>5. CASE UndoStep
    <2>1. /\ Len(undo_stack) > 0
          /\ undo_stack' = SubSeq(undo_stack, 1, Len(undo_stack) - 1)
          /\ non_lp_entries' = CountPop(non_lp_entries, undo_stack[Len(undo_stack)])
      BY <1>5 DEF UndoStep, undo
    <2> QED BY <1>0, <2>1, PopCounts DEF NonLpCount, LengthChanging
  <1>6. CASE RedoStep
    <2> DEFINE e == redo_stack[Len(redo_stack)]
    <2>1. /\ Len(redo_stack) > 0
          /\ undo_stack' = Append(undo_stack, e)
          /\ non_lp_entries' = CountPush(non_lp_entries, e)
      BY <1>6 DEF RedoStep, redo
    <2>2. e \in EditEntry
      BY <1>0, <2>1, FrontPoint
    <2> HIDE DEF e
    <2> QED BY <1>0, <2>1, <2>2, PushCounts DEF NonLpCount, LengthChanging
  <1>7. CASE RevertStep \/ SaveStep \/ ReloadStep
    <2>1. undo_stack' = << >> /\ non_lp_entries' = 0
      BY <1>7 DEF RevertStep, SaveStep, ReloadStep, revert, swap_base
    <2>2. {k \in 1 .. Len(<< >>) : ~IsLP(<< >>[k])} = {}
      BY Len(<< >>) = 0, 1 .. 0 = {}
    <2> QED BY <2>1, <2>2, FS_EmptySet DEF NonLpCount
  <1>8. CASE ModeStep \/ BoundaryStep \/ UNCHANGED historyAndBuffer
    <2>1. undo_stack' = undo_stack /\ non_lp_entries' = non_lp_entries
      BY <1>8 DEF ModeStep, BoundaryStep, set_edit_mode, push_history_boundary,
                  historyAndBuffer, editVars, historyVars
    <2> QED BY <2>1 DEF NonLpCount
  <1> QED BY <1>1, <1>2, <1>3, <1>4, <1>5, <1>6, <1>7, <1>8 DEF HistoryNext

(* A history without restores is a session. *)
THEOREM HistoryIsSession == HistorySpec => SessionSpec
  <1>1. [HistoryNext]_historyAndBuffer => [SessionNext]_historyAndBuffer
    BY DEF SessionNext
  <1> QED BY <1>1, PTL DEF HistorySpec, SessionSpec

(* As long as no sidecar is restored, non_lp_entries is the number of       *)
(* length-changing entries of the undo stack (editor.rs:124), so that the   *)
(* fast path is taken exactly when every entry keeps the length.           *)
THEOREM HistoryNonLpCount == HistorySpec => []NonLpCount
  <1>1. HistoryInit => NonLpCount
    <2>1. {k \in 1 .. Len(<< >>) : ~IsLP(<< >>[k])} = {}
      BY Len(<< >>) = 0, 1 .. 0 = {}
    <2> QED BY <2>1, FS_EmptySet DEF HistoryInit, Init, NonLpCount
  <1>2. IInv /\ NonLpCount /\ [HistoryNext]_historyAndBuffer => NonLpCount'
    BY StepCounts
  <1>3. HistorySpec => []IInv
    BY HistoryIsSession, SessionInv, PTL
  <1> QED BY <1>1, <1>2, <1>3, PTL DEF HistorySpec

=============================================================================
