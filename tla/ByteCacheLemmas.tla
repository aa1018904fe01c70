-------------------------- MODULE ByteCacheLemmas --------------------------
(***************************************************************************)
(* Lemmas about the operators of ByteCache: sums, the LRU list, and the    *)
(* critical sections, each shown to keep the list well formed, to bring in *)
(* no slot but the new one, and to keep the books.                         *)
(***************************************************************************)
EXTENDS ByteCache, TLAPS, WellFoundedInduction

-----------------------------------------------------------------------------
(* Loops, which the model writes as recursive functions on 0 .. n. *)

(* What holds at 0, and at k if it holds at k - 1, holds up to n. *)
LEMMA Upward ==
    ASSUME NEW n \in Nat, NEW I, 0 \in I, \A k \in 1 .. n : k - 1 \in I => k \in I
    PROVE  \A k \in 0 .. n : k \in I
  <1> DEFINE Bad == (0 .. n) \ I
  <1> SUFFICES ASSUME Bad # {} PROVE FALSE
    OBVIOUS
  <1>1. Bad \in SUBSET Nat
    OBVIOUS
  <1>2. IsWellFoundedOn(OpToRel(<, Nat), Nat)
    BY NatLessThanWellFounded
  <1>3. PICK m \in Bad : \A k \in Bad : ~ (<<k, m>> \in OpToRel(<, Nat))
    BY <1>1, <1>2, WFMin, Zenon
  <1>4. \A k \in Bad : ~ (k < m)
    BY <1>1, <1>3 DEF OpToRel
  <1>5. m \in 1 .. n /\ m - 1 \in 0 .. n /\ m - 1 < m
    <2>1. m \in 0 .. n /\ m \notin I
      BY <1>3
    <2>2. m # 0
      BY <2>1
    <2> QED BY <2>1, <2>2
  <1>6. m - 1 \in I
    BY <1>4, <1>5
  <1> QED BY <1>3, <1>5, <1>6

-----------------------------------------------------------------------------
(* Sums. *)

(* Running totals. *)
LEMMA RunningTotal ==
    ASSUME NEW n \in Nat, NEW w \in [1 .. n -> Nat]
    PROVE  \E t \in [0 .. n -> Nat] : t[0] = 0 /\ \A k \in 1 .. n : t[k] = t[k - 1] + w[k]
  <1> DEFINE Runs(m) == {t \in [0 .. m -> Nat] :
                           t[0] = 0 /\ \A k \in 1 .. m : t[k] = t[k - 1] + w[k]}
             I == {m \in 0 .. n : Runs(m) # {}}
  <1>1. 0 \in I
    <2> DEFINE t == [k \in 0 .. 0 |-> 0]
    <2>1. t \in Runs(0)
      OBVIOUS
    <2> QED BY <2>1
  <1>2. ASSUME NEW m \in 1 .. n, m - 1 \in I PROVE m \in I
    <2>1. PICK f \in Runs(m - 1) : TRUE
      BY <1>2
    <2> DEFINE t == [k \in 0 .. m |-> IF k < m THEN f[k] ELSE f[m - 1] + w[m]]
    <2>2. f \in [0 .. m - 1 -> Nat] /\ f[m - 1] + w[m] \in Nat
      BY <2>1
    <2>3. t \in [0 .. m -> Nat] /\ t[0] = 0
      BY <2>1, <2>2
    <2>4. ASSUME NEW k \in 1 .. m PROVE t[k] = t[k - 1] + w[k]
      <3>1. k - 1 \in 0 .. m - 1 /\ t[k - 1] = f[k - 1]
        OBVIOUS
      <3>2. CASE k = m
        BY <3>1, <3>2
      <3>3. CASE k < m
        <4>1. k \in 1 .. m - 1 /\ t[k] = f[k]
          BY <3>3
        <4> QED BY <3>1, <4>1, <2>1
      <3> QED BY <3>2, <3>3
    <2> HIDE DEF t
    <2>5. t \in Runs(m)
      BY <2>3, <2>4
    <2> HIDE DEF Runs
    <2>6. m \in 0 .. n /\ Runs(m) # {}
      BY <2>5
    <2> QED BY <2>6
  <1> HIDE DEF I
  <1>3. n \in I
    <2>1. \A k \in 1 .. n : k - 1 \in I => k \in I
      BY <1>2
    <2>2. \A k \in 0 .. n : k \in I
      BY <1>1, <2>1, Upward
    <2> QED BY <2>2
  <1> QED BY <1>3 DEF I

(* Total is computed from the left. *)
LEMMA TotalRuns ==
    ASSUME NEW w \in Seq(Nat)
    PROVE  \E t \in [0 .. Len(w) -> Nat] :
              /\ t[0] = 0
              /\ \A k \in 1 .. Len(w) : t[k] = t[k - 1] + w[k]
              /\ Total(w) = t[Len(w)]
  <1> DEFINE n == Len(w)
             Eqn(t) == t = [k \in 0 .. n |-> IF k = 0 THEN 0 ELSE t[k - 1] + w[k]]
             total == CHOOSE t : Eqn(t)
  <1>1. n \in Nat /\ w \in [1 .. n -> Nat] /\ \A k \in 1 .. n : w[k] \in Nat
    OBVIOUS
  <1>4. PICK f \in [0 .. n -> Nat] : f[0] = 0 /\ \A k \in 1 .. n : f[k] = f[k - 1] + w[k]
    <2> HIDE DEF n
    <2> QED BY <1>1, RunningTotal
  <1>5. Eqn(f)
    <2>1. \A k \in 0 .. n : f[k] = IF k = 0 THEN 0 ELSE f[k - 1] + w[k]
      BY <1>1, <1>4
    <2> QED BY <2>1
  <1>6. Eqn(total)
    BY <1>5
  <1> HIDE DEF total
  <1> HIDE DEF n
  <1>7. total[0] = 0 /\ \A k \in 1 .. n : total[k] = total[k - 1] + w[k]
    <2>1. \A k \in 0 .. n : total[k] = IF k = 0 THEN 0 ELSE total[k - 1] + w[k]
      BY <1>6, Zenon
    <2> QED BY <2>1, <1>1
  <1>8. total \in [0 .. n -> Nat]
    <2> DEFINE I == {k \in 0 .. n : total[k] \in Nat}
    <2>1. 0 \in I
      BY <1>7, <1>1
    <2>2. \A k \in 1 .. n : k - 1 \in I => k \in I
      BY <1>7, <1>1
    <2> HIDE DEF I
    <2>3. \A k \in 0 .. n : k \in I
      BY <2>1, <2>2, <1>1, Upward
    <2>4. DOMAIN total = 0 .. n /\ total = [k \in 0 .. n |-> total[k]]
      BY <1>6
    <2> QED BY <2>3, <2>4 DEF I
  <1>9. Total(w) = total[n]
    BY DEF Total, total, n
  <1> QED BY <1>7, <1>8, <1>9 DEF n

(* A total is a natural number. *)
LEMMA TotalType ==
    ASSUME NEW w \in Seq(Nat)
    PROVE  Total(w) \in Nat
  BY TotalRuns

(* Two running totals that start together and add the same stay together. *)
LEMMA TotalSame ==
    ASSUME NEW v \in Seq(Nat), NEW w \in Seq(Nat), Len(v) = Len(w),
           \A k \in 1 .. Len(v) : v[k] = w[k]
    PROVE  Total(v) = Total(w)
  <1>1. v = w
    OBVIOUS
  <1> QED BY <1>1

(* The total of one more number. *)
LEMMA TotalAppend ==
    ASSUME NEW w \in Seq(Nat), NEW x \in Nat
    PROVE  Append(w, x) \in Seq(Nat) /\ Total(Append(w, x)) = Total(w) + x
  <1> DEFINE n == Len(w)
             v == Append(w, x)
  <1>1. v \in Seq(Nat) /\ Len(v) = n + 1 /\ v[n + 1] = x /\ n \in Nat
    OBVIOUS
  <1>2. \A k \in 1 .. n : v[k] = w[k] /\ w[k] \in Nat
    OBVIOUS
  <1>3. PICK t \in [0 .. n -> Nat] :
          t[0] = 0 /\ (\A k \in 1 .. n : t[k] = t[k - 1] + w[k]) /\ Total(w) = t[n]
    BY TotalRuns
  <1> HIDE DEF v, n
  <1>4. PICK u \in [0 .. n + 1 -> Nat] :
          u[0] = 0 /\ (\A k \in 1 .. n + 1 : u[k] = u[k - 1] + v[k]) /\ Total(v) = u[n + 1]
    BY <1>1, TotalRuns
  <1> DEFINE I == {k \in 0 .. n : u[k] = t[k]}
  <1>5. 0 \in I
    BY <1>1, <1>3, <1>4
  <1>6. ASSUME NEW k \in 1 .. n, k - 1 \in I PROVE k \in I
    BY <1>1, <1>2, <1>3, <1>4, <1>6
  <1> HIDE DEF I
  <1>7. \A k \in 0 .. n : k \in I
    BY <1>1, <1>5, <1>6, Upward
  <1>8. u[n] = t[n] /\ u[n + 1] = u[n] + v[n + 1]
    BY <1>1, <1>4, <1>7 DEF I
  <1> QED BY <1>1, <1>3, <1>4, <1>8 DEF v

(* Two sequences one after the other. *)
LEMMA Joined ==
    ASSUME NEW S, NEW s \in Seq(S), NEW t \in Seq(S)
    PROVE  /\ s \o t \in Seq(S)
           /\ Len(s \o t) = Len(s) + Len(t)
           /\ \A j \in 1 .. Len(s) + Len(t) :
                 (s \o t)[j] = IF j <= Len(s) THEN s[j] ELSE t[j - Len(s)]
  OBVIOUS

(* Sequences of the same length with the same elements are the same. *)
LEMMA SameElements ==
    ASSUME NEW S, NEW a \in Seq(S), NEW b \in Seq(S), Len(a) = Len(b),
           \A i \in 1 .. Len(a) : a[i] = b[i]
    PROVE  a = b
  <1>1. a = [i \in 1 .. Len(a) |-> a[i]] /\ b = [i \in 1 .. Len(b) |-> b[i]]
    OBVIOUS
  <1> QED BY <1>1

(* The sequence without its i-th element. *)
LEMMA RemovedAt ==
    ASSUME NEW S, NEW s \in Seq(S), NEW i \in 1 .. Len(s)
    PROVE  /\ RemoveAt(s, i) \in Seq(S)
           /\ Len(RemoveAt(s, i)) = Len(s) - 1
           /\ \A k \in 1 .. Len(s) - 1 : RemoveAt(s, i)[k] = IF k < i THEN s[k] ELSE s[k + 1]
  <1> DEFINE a == SubSeq(s, 1, i - 1)
             b == SubSeq(s, i + 1, Len(s))
  <1>1. a \in Seq(S) /\ Len(a) = i - 1 /\ \A k \in 1 .. i - 1 : a[k] = s[k]
    OBVIOUS
  <1>2. b \in Seq(S) /\ Len(b) = Len(s) - i /\ \A k \in 1 .. Len(s) - i : b[k] = s[i + k]
    OBVIOUS
  <1>3. RemoveAt(s, i) = a \o b
    BY DEF RemoveAt
  <1>4. i - 1 \in Nat /\ Len(s) - i \in Nat /\ i - 1 + (Len(s) - i) = Len(s) - 1
    OBVIOUS
  <1> HIDE DEF a, b
  <1>5. a \o b \in Seq(S) /\ Len(a \o b) = Len(s) - 1
    <2>1. a \o b \in Seq(S) /\ Len(a \o b) = Len(a) + Len(b)
      BY <1>1, <1>2, Joined
    <2> QED BY <2>1, <1>1, <1>2, <1>4
  <1>6. ASSUME NEW k \in 1 .. Len(s) - 1
        PROVE  (a \o b)[k] = IF k < i THEN s[k] ELSE s[k + 1]
    <2>1. (a \o b)[k] = IF k <= Len(a) THEN a[k] ELSE b[k - Len(a)]
      <3>1. \A j \in 1 .. Len(a) + Len(b) :
               (a \o b)[j] = IF j <= Len(a) THEN a[j] ELSE b[j - Len(a)]
        BY <1>1, <1>2, Joined
      <3> QED BY <3>1, <1>1, <1>2, <1>4
    <2>2. CASE k < i
      BY <2>1, <2>2, <1>1
    <2>3. CASE ~(k < i)
      <3>1. k - (i - 1) \in 1 .. Len(s) - i /\ i + (k - (i - 1)) = k + 1
        BY <2>3
      <3> QED BY <2>1, <2>3, <3>1, <1>1, <1>2, SMTT(60)
    <2> QED BY <2>2, <2>3
  <1> QED BY <1>3, <1>5, <1>6

(* The total without one number. *)
LEMMA TotalWithout ==
    ASSUME NEW n \in Nat, NEW w \in Seq(Nat), Len(w) = n + 1, NEW i \in 1 .. n + 1,
           NEW v \in Seq(Nat), Len(v) = n,
           \A k \in 1 .. n : v[k] = IF k < i THEN w[k] ELSE w[k + 1]
    PROVE  Total(w) = Total(v) + w[i]
  <1>1. \A k \in 1 .. n + 1 : w[k] \in Nat
    OBVIOUS
  <1>2. PICK t \in [0 .. n + 1 -> Nat] :
          t[0] = 0 /\ (\A k \in 1 .. n + 1 : t[k] = t[k - 1] + w[k]) /\ Total(w) = t[n + 1]
    BY TotalRuns
  <1>3. PICK u \in [0 .. n -> Nat] :
          u[0] = 0 /\ (\A k \in 1 .. n : u[k] = u[k - 1] + v[k]) /\ Total(v) = u[n]
    BY TotalRuns
  <1>4. \A k \in 0 .. n : t[k] \in Nat /\ u[k] \in Nat /\ t[k + 1] = t[k] + w[k + 1]
    BY <1>2
  <1> DEFINE I == {k \in 0 .. n : IF k < i THEN t[k] = u[k] ELSE t[k + 1] = u[k] + w[i]}
  <1>5. 0 \in I
    BY <1>2, <1>3
  <1>6. ASSUME NEW k \in 1 .. n, k - 1 \in I PROVE k \in I
    <2>0. k - 1 \in 0 .. n /\ k \in 0 .. n /\ k \in 1 .. n + 1 /\ k + 1 \in 1 .. n + 1
      OBVIOUS
    <2>1. u[k] = u[k - 1] + v[k] /\ t[k] = t[k - 1] + w[k]
      BY <1>2, <1>3, <2>0
    <2>2. t[k + 1] = t[k] + w[k + 1]
      BY <1>4, <2>0
    <2>3. u[k - 1] \in Nat /\ t[k - 1] \in Nat
      BY <1>4, <2>0
    <2>7. w[k] \in Nat /\ w[k + 1] \in Nat /\ w[i] \in Nat
      BY <1>1, <2>0
    <2>4. CASE k < i
      BY <1>6, <2>0, <2>1, <2>4
    <2>5. CASE k = i
      BY <1>6, <2>0, <2>1, <2>2, <2>3, <2>5, <2>7
    <2>6. CASE k > i
      <3>1. t[k] = u[k - 1] + w[i] /\ v[k] = w[k + 1]
        BY <1>6, <2>0, <2>6
      <3>2. t[k + 1] = u[k] + w[i]
        <4>1. t[k + 1] = (u[k - 1] + w[i]) + w[k + 1]
          BY <2>2, <3>1, Zenon
        <4>2. u[k] = u[k - 1] + w[k + 1]
          BY <2>1, <3>1, Zenon
        <4>3. \A x, y, z \in Nat : (x + y) + z = (x + z) + y
          OBVIOUS
        <4>4. (u[k - 1] + w[i]) + w[k + 1] = (u[k - 1] + w[k + 1]) + w[i]
          BY <2>3, <2>7, <4>3, ZenonT(60)
        <4> QED BY <4>1, <4>2, <4>4, Zenon
      <3>3. ~(k < i)
        BY <2>6
      <3> QED BY <2>0, <3>2, <3>3
    <2> QED BY <2>4, <2>5, <2>6
  <1> HIDE DEF I
  <1>7. \A k \in 0 .. n : k \in I
    BY <1>5, <1>6, Upward
  <1>8. n \in 0 .. n /\ n \in I
    BY <1>7
  <1>9. CASE n < i
    BY <1>2, <1>3, <1>4, <1>8, <1>9, SMTT(60) DEF I
  <1>10. CASE ~(n < i)
    BY <1>2, <1>3, <1>8, <1>10 DEF I
  <1> QED BY <1>9, <1>10

LEMMA TotalRemove ==
    ASSUME NEW w \in Seq(Nat), NEW i \in 1 .. Len(w)
    PROVE  /\ Total(w) \in Nat
           /\ Total(RemoveAt(w, i)) \in Nat
           /\ Total(w) = Total(RemoveAt(w, i)) + w[i]
  <1>1. PICK n \in Nat : Len(w) = n + 1
    <2>1. Len(w) - 1 \in Nat /\ Len(w) = (Len(w) - 1) + 1
      OBVIOUS
    <2> QED BY <2>1
  <1> DEFINE v == RemoveAt(w, i)
  <1>2. /\ v \in Seq(Nat) /\ Len(v) = n
        /\ \A k \in 1 .. n : v[k] = IF k < i THEN w[k] ELSE w[k + 1]
    <2>1. /\ v \in Seq(Nat) /\ Len(v) = Len(w) - 1
          /\ \A k \in 1 .. Len(w) - 1 : v[k] = IF k < i THEN w[k] ELSE w[k + 1]
      BY RemovedAt
    <2>2. Len(w) - 1 = n
      BY <1>1
    <2> QED BY <2>1, <2>2
  <1> HIDE DEF v
  <1>3. Total(w) = Total(v) + w[i]
    BY <1>1, <1>2, TotalWithout
  <1> QED BY <1>2, <1>3, TotalType DEF v

(* A total is zero when every number is. *)
LEMMA TotalZero ==
    ASSUME NEW w \in Seq(Nat), \A k \in 1 .. Len(w) : w[k] = 0
    PROVE  Total(w) = 0
  <1> DEFINE n == Len(w)
  <1>1. PICK t \in [0 .. n -> Nat] :
          t[0] = 0 /\ (\A k \in 1 .. n : t[k] = t[k - 1] + w[k]) /\ Total(w) = t[n]
    BY TotalRuns
  <1>2. n \in Nat
    OBVIOUS
  <1> HIDE DEF n
  <1> DEFINE I == {k \in 0 .. n : t[k] = 0}
  <1>3. 0 \in I
    BY <1>1, <1>2
  <1>4. ASSUME NEW k \in 1 .. n, k - 1 \in I PROVE k \in I
    BY <1>1, <1>2, <1>4 DEF n
  <1> HIDE DEF I
  <1>5. \A k \in 0 .. n : k \in I
    BY <1>2, <1>3, <1>4, Upward
  <1> QED BY <1>1, <1>2, <1>5 DEF I

-----------------------------------------------------------------------------
(* Slots and their bytes. *)

(* Slots are never empty: a chunk of a source has at least one byte. *)
Sized(S) == \A slot \in S : slot.len \in Nat \ {0}

(* The bytes of the slots, with one slot less and with one more. *)
LEMMA HeldRemove ==
    ASSUME NEW S, Sized(S), NEW slots \in Seq(S), NEW i \in 1 .. Len(slots)
    PROVE  /\ BytesHeld(slots) \in Nat
           /\ BytesHeld(RemoveAt(slots, i)) \in Nat
           /\ BytesHeld(slots) = BytesHeld(RemoveAt(slots, i)) + slots[i].len
  <1>1. PICK n \in Nat : Len(slots) = n + 1
    <2>1. Len(slots) - 1 \in Nat /\ Len(slots) = (Len(slots) - 1) + 1
      OBVIOUS
    <2> QED BY <2>1
  <1>2. \A k \in 1 .. n + 1 : slots[k] \in S /\ slots[k].len \in Nat
    BY <1>1 DEF Sized
  <1> DEFINE rest == RemoveAt(slots, i)
             w == [k \in 1 .. n + 1 |-> slots[k].len]
             v == [k \in 1 .. n |-> rest[k].len]
  <1>3. Len(rest) = n /\ \A k \in 1 .. n : rest[k] = IF k < i THEN slots[k] ELSE slots[k + 1]
    <2>1. /\ Len(rest) = Len(slots) - 1
          /\ \A k \in 1 .. Len(slots) - 1 : rest[k] = IF k < i THEN slots[k] ELSE slots[k + 1]
      BY RemovedAt
    <2> QED BY <2>1, <1>1
  <1> HIDE DEF rest
  <1>4. \A k \in 1 .. n : v[k] = IF k < i THEN w[k] ELSE w[k + 1]
    BY <1>1, <1>3
  <1>5. \A k \in 1 .. n : v[k] \in Nat
    BY <1>1, <1>2, <1>3
  <1>6. w \in Seq(Nat) /\ Len(w) = n + 1 /\ v \in Seq(Nat) /\ Len(v) = n
    BY <1>2, <1>5
  <1>7. BytesHeld(slots) = Total(w) /\ BytesHeld(rest) = Total(v) /\ w[i] = slots[i].len
    BY <1>1, <1>3 DEF BytesHeld
  <1> HIDE DEF w, v
  <1>8. Total(w) = Total(v) + w[i] /\ Total(w) \in Nat /\ Total(v) \in Nat
    BY <1>1, <1>4, <1>6, TotalWithout, TotalType
  <1> QED BY <1>7, <1>8 DEF rest

LEMMA HeldAppend ==
    ASSUME NEW S, Sized(S), NEW slots \in Seq(S), NEW slot \in S
    PROVE  /\ BytesHeld(slots) \in Nat
           /\ BytesHeld(Append(slots, slot)) = BytesHeld(slots) + slot.len
  <1> DEFINE n == Len(slots)
             more == Append(slots, slot)
             w == [k \in 1 .. n |-> slots[k].len]
             v == [k \in 1 .. n + 1 |-> more[k].len]
  <1>1. n \in Nat /\ Len(more) = n + 1 /\ more[n + 1] = slot /\ slot.len \in Nat
    BY DEF Sized
  <1>2. \A k \in 1 .. n : more[k] = slots[k] /\ slots[k].len \in Nat
    BY DEF Sized
  <1>3. BytesHeld(slots) = Total(w) /\ BytesHeld(more) = Total(v)
    BY <1>1 DEF BytesHeld
  <1> HIDE DEF n, more
  <1>4. w \in Seq(Nat) /\ Len(w) = n
    BY <1>1, <1>2
  <1>5. v = Append(w, slot.len)
    <2> DEFINE u == Append(w, slot.len)
    <2>1. u \in Seq(Nat) /\ Len(u) = n + 1 /\ u[n + 1] = slot.len /\ \A k \in 1 .. n : u[k] = w[k]
      BY <1>1, <1>4
    <2>2. \A k \in 1 .. n + 1 : v[k] \in Nat /\ v[k] = u[k]
      BY <1>1, <1>2, <2>1
    <2>3. v \in Seq(Nat) /\ Len(v) = n + 1
      BY <1>1, <2>2
    <2> HIDE DEF u, v
    <2>4. v = u
      BY <2>1, <2>2, <2>3, SameElements
    <2> QED BY <2>4 DEF u
  <1> HIDE DEF w, v
  <1> QED BY <1>1, <1>3, <1>4, <1>5, TotalAppend, TotalType DEF more

(* The same for the slots of one bucket. *)
LEMMA ForRemove ==
    ASSUME NEW S, Sized(S), NEW slots \in Seq(S), NEW i \in 1 .. Len(slots), NEW b
    PROVE  /\ BytesFor(slots, b) \in Nat
           /\ BytesFor(RemoveAt(slots, i), b) \in Nat
           /\ BytesFor(slots, b) = BytesFor(RemoveAt(slots, i), b)
                                     + (IF Bucket(slots[i]) = b THEN slots[i].len ELSE 0)
  <1>1. PICK n \in Nat : Len(slots) = n + 1
    <2>1. Len(slots) - 1 \in Nat /\ Len(slots) = (Len(slots) - 1) + 1
      OBVIOUS
    <2> QED BY <2>1
  <1>2. \A k \in 1 .. n + 1 : slots[k] \in S /\ slots[k].len \in Nat
    BY <1>1 DEF Sized
  <1> DEFINE rest == RemoveAt(slots, i)
             w == [k \in 1 .. n + 1 |-> IF Bucket(slots[k]) = b THEN slots[k].len ELSE 0]
             v == [k \in 1 .. n |-> IF Bucket(rest[k]) = b THEN rest[k].len ELSE 0]
  <1>3. Len(rest) = n /\ \A k \in 1 .. n : rest[k] = IF k < i THEN slots[k] ELSE slots[k + 1]
    <2>1. /\ Len(rest) = Len(slots) - 1
          /\ \A k \in 1 .. Len(slots) - 1 : rest[k] = IF k < i THEN slots[k] ELSE slots[k + 1]
      BY RemovedAt
    <2> QED BY <2>1, <1>1
  <1> HIDE DEF rest
  <1>4. \A k \in 1 .. n : v[k] = IF k < i THEN w[k] ELSE w[k + 1]
    BY <1>1, <1>3
  <1>5. \A k \in 1 .. n : v[k] \in Nat
    <2> TAKE k \in 1 .. n
    <2>1. k \in 1 .. n + 1 /\ k + 1 \in 1 .. n + 1
      OBVIOUS
    <2>2. w[k] \in Nat /\ w[k + 1] \in Nat
      BY <1>2, <2>1
    <2> HIDE DEF v, w
    <2> QED BY <1>4, <2>2
  <1>6. w \in Seq(Nat) /\ Len(w) = n + 1 /\ v \in Seq(Nat) /\ Len(v) = n
    BY <1>2, <1>5
  <1>7. /\ BytesFor(slots, b) = Total(w) /\ BytesFor(rest, b) = Total(v)
        /\ w[i] = IF Bucket(slots[i]) = b THEN slots[i].len ELSE 0
    BY <1>1, <1>3 DEF BytesFor
  <1> HIDE DEF w, v
  <1>8. Total(w) = Total(v) + w[i] /\ Total(w) \in Nat /\ Total(v) \in Nat
    BY <1>1, <1>4, <1>6, TotalWithout, TotalType
  <1> QED BY <1>7, <1>8 DEF rest

LEMMA ForAppend ==
    ASSUME NEW S, Sized(S), NEW slots \in Seq(S), NEW slot \in S, NEW b
    PROVE  /\ BytesFor(slots, b) \in Nat
           /\ BytesFor(Append(slots, slot), b)
                = BytesFor(slots, b) + (IF Bucket(slot) = b THEN slot.len ELSE 0)
  <1> DEFINE n == Len(slots)
             more == Append(slots, slot)
             x == IF Bucket(slot) = b THEN slot.len ELSE 0
             w == [k \in 1 .. n |-> IF Bucket(slots[k]) = b THEN slots[k].len ELSE 0]
             v == [k \in 1 .. n + 1 |-> IF Bucket(more[k]) = b THEN more[k].len ELSE 0]
  <1>1. n \in Nat /\ Len(more) = n + 1 /\ more[n + 1] = slot /\ x \in Nat
    BY DEF Sized
  <1>2. \A k \in 1 .. n : more[k] = slots[k] /\ slots[k].len \in Nat
    BY DEF Sized
  <1>3. BytesFor(slots, b) = Total(w) /\ BytesFor(more, b) = Total(v)
    BY <1>1 DEF BytesFor
  <1>0. v[n + 1] = x
    BY <1>1
  <1> HIDE DEF n, more, x
  <1>4. w \in Seq(Nat) /\ Len(w) = n
    BY <1>1, <1>2
  <1>5. v = Append(w, x)
    <2> DEFINE u == Append(w, x)
    <2>1. u \in Seq(Nat) /\ Len(u) = n + 1 /\ u[n + 1] = x /\ \A k \in 1 .. n : u[k] = w[k]
      BY <1>1, <1>4
    <2>2. \A k \in 1 .. n + 1 : v[k] \in Nat /\ v[k] = u[k]
      <3> TAKE k \in 1 .. n + 1
      <3>1. CASE k = n + 1
        BY <3>1, <2>1, <1>0, <1>1
      <3>2. CASE k \in 1 .. n
        <4>1. u[k] = w[k] /\ more[k] = slots[k] /\ slots[k].len \in Nat
          BY <3>2, <2>1, <1>2
        <4>2. v[k] = IF Bucket(slots[k]) = b THEN slots[k].len ELSE 0
          BY <4>1
        <4>3. w[k] = IF Bucket(slots[k]) = b THEN slots[k].len ELSE 0
          BY <3>2
        <4> QED BY <4>1, <4>2, <4>3
      <3> QED BY <3>1, <3>2, <1>1
    <2>3. v \in Seq(Nat) /\ Len(v) = n + 1
      BY <1>1, <2>2
    <2> HIDE DEF u, v
    <2>4. v = u
      BY <2>1, <2>2, <2>3, SameElements
    <2> QED BY <2>4 DEF u
  <1> HIDE DEF w, v
  <1> QED BY <1>1, <1>3, <1>4, <1>5, TotalAppend, TotalType DEF more, x

(* A bucket has bytes exactly when a slot is in it. *)
LEMMA ForPositive ==
    ASSUME NEW S, Sized(S), NEW slots \in Seq(S), NEW b
    PROVE  /\ BytesFor(slots, b) \in Nat
           /\ BytesFor(slots, b) # 0 <=> \E i \in 1 .. Len(slots) : Bucket(slots[i]) = b
  <1>1. ASSUME NEW i \in 1 .. Len(slots), Bucket(slots[i]) = b
        PROVE  BytesFor(slots, b) \in Nat /\ BytesFor(slots, b) # 0
    <2>1. slots[i].len \in Nat \ {0}
      BY DEF Sized
    <2> QED BY <1>1, <2>1, ForRemove
  <1>2. ASSUME \A i \in 1 .. Len(slots) : Bucket(slots[i]) # b
        PROVE  BytesFor(slots, b) = 0
    <2> DEFINE w == [k \in 1 .. Len(slots) |-> IF Bucket(slots[k]) = b THEN slots[k].len ELSE 0]
    <2>1. w \in Seq(Nat) /\ Len(w) = Len(slots) /\ \A k \in 1 .. Len(slots) : w[k] = 0
      BY <1>2
    <2>2. BytesFor(slots, b) = Total(w)
      BY DEF BytesFor
    <2> HIDE DEF w
    <2> QED BY <2>1, <2>2, TotalZero
  <1> QED BY <1>1, <1>2

-----------------------------------------------------------------------------
(* The list of slots. *)

(* No key twice: the LruCache is a map. *)
Distinct(chunks) ==
    \A i, j \in 1 .. Len(chunks) : chunks[i].key = chunks[j].key => i = j

(* Every slot of a is one of b. *)
From(a, b) == \A i \in 1 .. Len(a) : \E j \in 1 .. Len(b) : a[i] = b[j]

(* CacheInner, with slots from S. *)
IsCache(g, S) ==
    /\ g = [limit |-> g.limit, used_bytes |-> g.used_bytes, chunks |-> g.chunks,
            bytes_by_attribution |-> g.bytes_by_attribution]
    /\ g.limit \in Nat
    /\ g.used_bytes \in Nat
    /\ g.chunks \in Seq(S)
    /\ Distinct(g.chunks)

(* The index of a slot that is in the map. *)
LEMMA AtIs ==
    ASSUME NEW S, NEW chunks \in Seq(S), Distinct(chunks), NEW i \in 1 .. Len(chunks)
    PROVE  /\ At(chunks, chunks[i].key) = i
           /\ OtherThan(chunks, chunks[i].key) = RemoveAt(chunks, i)
  <1>1. DOMAIN chunks = 1 .. Len(chunks)
    OBVIOUS
  <1>2. \A j \in DOMAIN chunks : chunks[j].key = chunks[i].key => j = i
    BY <1>1 DEF Distinct
  <1>3. At(chunks, chunks[i].key) = i
    BY <1>1, <1>2 DEF At
  <1> QED BY <1>1, <1>3 DEF OtherThan

(* The list without one slot. *)
LEMMA RestOf ==
    ASSUME NEW S, NEW chunks \in Seq(S), Distinct(chunks), NEW i \in 1 .. Len(chunks)
    PROVE  /\ RemoveAt(chunks, i) \in Seq(S)
           /\ Len(RemoveAt(chunks, i)) = Len(chunks) - 1
           /\ Distinct(RemoveAt(chunks, i))
           /\ From(RemoveAt(chunks, i), chunks)
           /\ \A k \in 1 .. Len(chunks) - 1 : RemoveAt(chunks, i)[k].key # chunks[i].key
           /\ \A j \in 1 .. Len(chunks) :
                 j # i => \E k \in 1 .. Len(chunks) - 1 : RemoveAt(chunks, i)[k] = chunks[j]
  <1> DEFINE rest == RemoveAt(chunks, i)
             n == Len(chunks) - 1
             Old(k) == IF k < i THEN k ELSE k + 1
  <1>1. n \in Nat /\ rest \in Seq(S) /\ Len(rest) = n /\ Len(chunks) = n + 1
    BY RemovedAt
  <1>2. \A k \in 1 .. n : rest[k] = chunks[Old(k)]
    <2>1. \A k \in 1 .. n : rest[k] = IF k < i THEN chunks[k] ELSE chunks[k + 1]
      BY RemovedAt
    <2> QED BY <2>1
  <1> HIDE DEF rest, n
  <1>3. \A k \in 1 .. n : Old(k) \in 1 .. n + 1 /\ Old(k) # i
    BY <1>1
  <1>4. \A k, l \in 1 .. n : Old(k) = Old(l) => k = l
    BY <1>1
  <1>5. \A j \in 1 .. n + 1 : j # i => \E k \in 1 .. n : Old(k) = j
    <2> SUFFICES ASSUME NEW j \in 1 .. n + 1, j # i PROVE \E k \in 1 .. n : Old(k) = j
      OBVIOUS
    <2>1. CASE j < i
      <3>1. j \in 1 .. n /\ Old(j) = j
        BY <2>1, <1>1
      <3> QED BY <3>1
    <2>2. CASE j > i
      <3>1. j - 1 \in 1 .. n /\ Old(j - 1) = j
        BY <2>2, <1>1
      <3> QED BY <3>1
    <2> QED BY <2>1, <2>2, <1>1
  <1> HIDE DEF Old
  <1>6. Distinct(rest)
    BY <1>1, <1>2, <1>3, <1>4 DEF Distinct
  <1>7. From(rest, chunks)
    BY <1>1, <1>2, <1>3 DEF From
  <1>8. \A k \in 1 .. n : rest[k].key # chunks[i].key
    BY <1>1, <1>2, <1>3 DEF Distinct
  <1>9. \A j \in 1 .. n + 1 : j # i => \E k \in 1 .. n : rest[k] = chunks[j]
    BY <1>2, <1>5
  <1> QED BY <1>1, <1>6, <1>7, <1>8, <1>9 DEF rest, n

(* The list with a new slot at its end. *)
LEMMA MoreOf ==
    ASSUME NEW S, NEW chunks \in Seq(S), Distinct(chunks), NEW slot \in S,
           \A i \in 1 .. Len(chunks) : chunks[i].key # slot.key
    PROVE  /\ Append(chunks, slot) \in Seq(S)
           /\ Len(Append(chunks, slot)) = Len(chunks) + 1
           /\ Append(chunks, slot)[Len(chunks) + 1] = slot
           /\ \A i \in 1 .. Len(chunks) : Append(chunks, slot)[i] = chunks[i]
           /\ Distinct(Append(chunks, slot))
  <1> DEFINE more == Append(chunks, slot)
             n == Len(chunks)
  <1>1. n \in Nat /\ more \in Seq(S) /\ Len(more) = n + 1 /\ more[n + 1] = slot
    OBVIOUS
  <1>2. \A i \in 1 .. n : more[i] = chunks[i]
    OBVIOUS
  <1>3. \A i \in 1 .. n : chunks[i].key # slot.key
    OBVIOUS
  <1>4. \A i, j \in 1 .. n : chunks[i].key = chunks[j].key => i = j
    BY DEF Distinct
  <1> HIDE DEF more, n
  <1>5. ASSUME NEW i \in 1 .. n + 1, NEW j \in 1 .. n + 1, more[i].key = more[j].key
        PROVE  i = j
    <2>1. CASE i = n + 1 /\ j = n + 1
      BY <2>1
    <2>2. CASE i \in 1 .. n /\ j \in 1 .. n
      BY <2>2, <1>2, <1>4, <1>5
    <2>3. CASE i \in 1 .. n /\ j = n + 1
      BY <2>3, <1>1, <1>2, <1>3, <1>5
    <2>4. CASE i = n + 1 /\ j \in 1 .. n
      BY <2>4, <1>1, <1>2, <1>3, <1>5
    <2> QED BY <2>1, <2>2, <2>3, <2>4, <1>1
  <1>6. Distinct(more)
    BY <1>1, <1>5 DEF Distinct
  <1> QED BY <1>1, <1>2, <1>6 DEF more, n

-----------------------------------------------------------------------------
(* A slot leaves. *)

LEMMA RemovedIs ==
    ASSUME NEW S, Sized(S), NEW g, IsCache(g, S), NEW i \in 1 .. Len(g.chunks)
    PROVE  /\ IsCache(Removed(g, g.chunks[i]), S)
           /\ Removed(g, g.chunks[i]).limit = g.limit
           /\ Removed(g, g.chunks[i]).chunks = RemoveAt(g.chunks, i)
           /\ Removed(g, g.chunks[i]).used_bytes = saturating_sub(g.used_bytes, g.chunks[i].len)
           /\ Removed(g, g.chunks[i]).bytes_by_attribution =
                 decrement_attribution(g.bytes_by_attribution, Bucket(g.chunks[i]), g.chunks[i].len)
  <1> DEFINE slot == g.chunks[i]
             h == Removed(g, slot)
  <1>1. OtherThan(g.chunks, slot.key) = RemoveAt(g.chunks, i)
    BY AtIs DEF IsCache
  <1>2. h = [limit |-> g.limit,
             used_bytes |-> saturating_sub(g.used_bytes, slot.len),
             chunks |-> RemoveAt(g.chunks, i),
             bytes_by_attribution |->
                decrement_attribution(g.bytes_by_attribution, Bucket(slot), slot.len)]
    <2> DEFINE used == saturating_sub(g.used_bytes, slot.len)
               map == decrement_attribution(g.bytes_by_attribution, Bucket(slot), slot.len)
               d == [limit |-> g.limit, used_bytes |-> used, chunks |-> g.chunks,
                     bytes_by_attribution |-> map]
    <2>1. g = [limit |-> g.limit, used_bytes |-> g.used_bytes, chunks |-> g.chunks,
               bytes_by_attribution |-> g.bytes_by_attribution]
      BY DEF IsCache
    <2>2. Debit(g, slot) = [g EXCEPT !.used_bytes = used, !.bytes_by_attribution = map]
      BY DEF Debit
    <2> HIDE DEF used, map
    <2>3. Debit(g, slot) = d
      BY <2>1, <2>2
    <2>4. h = [d EXCEPT !.chunks = OtherThan(d.chunks, slot.key)]
      BY <2>3 DEF Removed
    <2>5. h = [d EXCEPT !.chunks = RemoveAt(g.chunks, i)]
      BY <2>4, <1>1
    <2> QED BY <2>5 DEF used, map
  <1>3. slot.len \in Nat /\ saturating_sub(g.used_bytes, slot.len) \in Nat
    BY DEF IsCache, Sized, saturating_sub
  <1>4. RemoveAt(g.chunks, i) \in Seq(S) /\ Distinct(RemoveAt(g.chunks, i))
    BY RestOf DEF IsCache
  <1> QED BY <1>2, <1>3, <1>4 DEF IsCache

(* The books in one formula: a bucket is in the tally exactly when it has   *)
(* bytes, with as many as it has.                                          *)
LEMMA BooksAre ==
    ASSUME NEW S, Sized(S), NEW g, IsCache(g, S)
    PROVE  BooksBalance(g) <=>
             /\ g.used_bytes = BytesHeld(g.chunks)
             /\ \A b : b \in DOMAIN g.bytes_by_attribution <=> BytesFor(g.chunks, b) # 0
             /\ \A b \in DOMAIN g.bytes_by_attribution :
                   g.bytes_by_attribution[b] = BytesFor(g.chunks, b)
  <1> DEFINE B == {Bucket(g.chunks[i]) : i \in DOMAIN g.chunks}
             D == DOMAIN g.bytes_by_attribution
  <1>1. \A b : b \in B <=> BytesFor(g.chunks, b) # 0
    <2> SUFFICES ASSUME NEW b PROVE b \in B <=> BytesFor(g.chunks, b) # 0
      OBVIOUS
    <2>1. BytesFor(g.chunks, b) # 0 <=> \E i \in 1 .. Len(g.chunks) : Bucket(g.chunks[i]) = b
      BY ForPositive DEF IsCache
    <2>2. DOMAIN g.chunks = 1 .. Len(g.chunks)
      BY DEF IsCache
    <2> QED BY <2>1, <2>2
  <1>2. D = B <=> \A b : b \in D <=> b \in B
    OBVIOUS
  <1> HIDE DEF B, D
  <1>3. D = B <=> \A b : b \in D <=> BytesFor(g.chunks, b) # 0
    BY <1>1, <1>2
  <1> QED BY <1>3 DEF BooksBalance, B, D

(* Removing a slot keeps the books. *)
LEMMA RemovedBooks ==
    ASSUME NEW S, Sized(S), NEW g, IsCache(g, S), NEW i \in 1 .. Len(g.chunks), BooksBalance(g)
    PROVE  BooksBalance(Removed(g, g.chunks[i]))
  <1> DEFINE slot == g.chunks[i]
             h == Removed(g, slot)
             map == g.bytes_by_attribution
             bucket == Bucket(slot)
             rest == RemoveAt(g.chunks, i)
  <1>1. /\ IsCache(h, S)
        /\ h.chunks = rest
        /\ h.used_bytes = saturating_sub(g.used_bytes, slot.len)
        /\ h.bytes_by_attribution = decrement_attribution(map, bucket, slot.len)
    BY RemovedIs
  <1>2. /\ g.used_bytes = BytesHeld(g.chunks)
        /\ \A b : b \in DOMAIN map <=> BytesFor(g.chunks, b) # 0
        /\ \A b \in DOMAIN map : map[b] = BytesFor(g.chunks, b)
    BY BooksAre
  <1>3. slot \in S /\ slot.len \in Nat /\ slot.len # 0 /\ g.chunks \in Seq(S)
    BY DEF IsCache, Sized
  <1>4. /\ BytesHeld(rest) \in Nat
        /\ BytesHeld(g.chunks) = BytesHeld(rest) + slot.len
    BY <1>3, HeldRemove
  <1>5. \A b : /\ BytesFor(rest, b) \in Nat
               /\ BytesFor(g.chunks, b) = BytesFor(rest, b) + (IF bucket = b THEN slot.len ELSE 0)
    BY <1>3, ForRemove
  <1> HIDE DEF slot, h, map, bucket, rest
  <1>6. h.used_bytes = BytesHeld(rest)
    BY <1>1, <1>2, <1>3, <1>4 DEF saturating_sub
  <1>7. BytesFor(g.chunks, bucket) = BytesFor(rest, bucket) + slot.len /\ BytesFor(rest, bucket) \in Nat
    BY <1>5
  <1>8. bucket \in DOMAIN map /\ map[bucket] = BytesFor(rest, bucket) + slot.len
    BY <1>2, <1>3, <1>7
  <1> DEFINE less == h.bytes_by_attribution
             r == BytesFor(rest, bucket)
  <1>9. /\ DOMAIN less = IF r = 0 THEN DOMAIN map \ {bucket} ELSE DOMAIN map
        /\ \A b \in DOMAIN less : less[b] = IF b = bucket THEN r ELSE map[b]
    <2>1. less = decrement_attribution(map, bucket, slot.len)
      BY <1>1
    <2>2. r \in Nat /\ slot.len \in Nat /\ bucket \in DOMAIN map /\ map[bucket] = r + slot.len
      BY <1>3, <1>7, <1>8
    <2> HIDE DEF less, r
    <2>3. saturating_sub(map[bucket], slot.len) = r
      BY <2>2 DEF saturating_sub
    <2>4. less = IF r = 0 THEN Restrict(map, DOMAIN map \ {bucket}) ELSE [map EXCEPT ![bucket] = r]
      BY <2>1, <2>2, <2>3 DEF decrement_attribution
    <2>5. CASE r = 0
      BY <2>4, <2>5 DEF Restrict
    <2>6. CASE r # 0
      BY <2>4, <2>6
    <2> QED BY <2>5, <2>6
  <1>10. \A b : b # bucket => BytesFor(g.chunks, b) = BytesFor(rest, b)
    BY <1>5
  <1> HIDE DEF less
  <1>11. ASSUME NEW b PROVE b \in DOMAIN less <=> BytesFor(rest, b) # 0
    <2>1. CASE b = bucket
      BY <2>1, <1>8, <1>9
    <2>2. CASE b # bucket
      BY <2>2, <1>2, <1>9, <1>10
    <2> QED BY <2>1, <2>2
  <1>12. ASSUME NEW b \in DOMAIN less PROVE less[b] = BytesFor(rest, b)
    <2>1. CASE b = bucket
      BY <2>1, <1>9
    <2>2. CASE b # bucket
      BY <2>2, <1>2, <1>9, <1>10
    <2> QED BY <2>1, <2>2
  <1>13. BooksBalance(h)
    BY <1>1, <1>6, <1>11, <1>12, BooksAre DEF less
  <1> QED BY <1>13 DEF h, slot

-----------------------------------------------------------------------------
(* A hit. *)

LEMMA TouchIs ==
    ASSUME NEW S, Sized(S), NEW g, IsCache(g, S), NEW key
    PROVE  /\ IsCache(Touch(g, key), S)
           /\ Touch(g, key).limit = g.limit
           /\ Touch(g, key).used_bytes = g.used_bytes
           /\ From(Touch(g, key).chunks, g.chunks)
           /\ Len(Touch(g, key).chunks) = Len(g.chunks)
           /\ BooksBalance(g) => BooksBalance(Touch(g, key))
  <1>1. CASE ~Holds(g, key)
    <2>1. Touch(g, key) = g
      BY <1>1 DEF Touch
    <2> QED BY <2>1 DEF From
  <1>2. CASE Holds(g, key)
    <2>1. PICK i \in 1 .. Len(g.chunks) : g.chunks[i].key = key
      BY <1>2 DEF Holds, IsCache
    <2> DEFINE slot == g.chunks[i]
               rest == RemoveAt(g.chunks, i)
               h == Touch(g, key)
    <2>2. g.chunks \in Seq(S) /\ slot \in S /\ Distinct(g.chunks) /\ slot.len \in Nat
      BY DEF IsCache, Sized
    <2>3. SlotOf(g, key) = slot /\ OtherThan(g.chunks, key) = rest
      BY <2>1, <2>2, AtIs DEF SlotOf
    <2>4. h = [g EXCEPT !.chunks = Append(rest, slot)]
      BY <1>2, <2>3 DEF Touch
    <2>5. /\ rest \in Seq(S) /\ Len(rest) = Len(g.chunks) - 1 /\ Distinct(rest)
          /\ From(rest, g.chunks)
          /\ \A k \in 1 .. Len(rest) : rest[k].key # slot.key
      <3>1. /\ rest \in Seq(S) /\ Len(rest) = Len(g.chunks) - 1 /\ Distinct(rest)
            /\ From(rest, g.chunks)
            /\ \A k \in 1 .. Len(g.chunks) - 1 : rest[k].key # slot.key
        BY <2>2, RestOf, SMTT(60)
      <3> HIDE DEF rest, slot
      <3> QED BY <3>1
    <2>0. /\ BytesHeld(g.chunks) = BytesHeld(rest) + slot.len
          /\ \A b : BytesFor(g.chunks, b) =
                      BytesFor(rest, b) + (IF Bucket(slot) = b THEN slot.len ELSE 0)
      BY <2>2, HeldRemove, ForRemove
    <2> HIDE DEF rest, slot, h
    <2>6. /\ Append(rest, slot) \in Seq(S) /\ Len(Append(rest, slot)) = Len(rest) + 1
          /\ Append(rest, slot)[Len(rest) + 1] = slot
          /\ \A k \in 1 .. Len(rest) : Append(rest, slot)[k] = rest[k]
          /\ Distinct(Append(rest, slot))
      BY <2>2, <2>5, MoreOf
    <2>7. h = [limit |-> g.limit, used_bytes |-> g.used_bytes, chunks |-> Append(rest, slot),
               bytes_by_attribution |-> g.bytes_by_attribution]
      BY <2>4 DEF IsCache
    <2>8. IsCache(h, S) /\ h.limit = g.limit /\ h.used_bytes = g.used_bytes
      BY <2>6, <2>7 DEF IsCache
    <2>9. From(h.chunks, g.chunks) /\ Len(h.chunks) = Len(g.chunks)
      <3>1. Len(rest) \in Nat
        BY <2>5
      <3> QED BY <2>2, <2>5, <2>6, <2>7, <3>1 DEF From, slot
    <2>10. /\ BytesHeld(h.chunks) = BytesHeld(g.chunks)
           /\ \A b : BytesFor(h.chunks, b) = BytesFor(g.chunks, b)
      BY <2>0, <2>2, <2>5, <2>7, HeldAppend, ForAppend
    <2>11. h.bytes_by_attribution = g.bytes_by_attribution
      BY <2>7
    <2>12. BooksBalance(g) => BooksBalance(h)
      BY <2>8, <2>10, <2>11, BooksAre
    <2> QED BY <2>8, <2>9, <2>12 DEF h
  <1> QED BY <1>1, <1>2

-----------------------------------------------------------------------------
(* Slots leave one after the other. *)

(* PopEach is what its recursion says. *)
LEMMA PopEachRuns ==
    ASSUME NEW g, NEW keys, Len(g.chunks) \in Nat
    PROVE  /\ PopEach(g, keys)[0] = g
           /\ \A k \in 1 .. Len(g.chunks) :
                 PopEach(g, keys)[k] = IF g.chunks[k].key \in keys
                                       THEN Removed(PopEach(g, keys)[k - 1], g.chunks[k])
                                       ELSE PopEach(g, keys)[k - 1]
  <1> DEFINE n == Len(g.chunks)
             Step(h, k) == IF g.chunks[k].key \in keys THEN Removed(h, g.chunks[k]) ELSE h
             Eqn(f, m) == f = [k \in 0 .. m |-> IF k = 0 THEN g ELSE Step(f[k - 1], k)]
             I == {m \in 0 .. n : \E f : Eqn(f, m)}
  <1>0. n \in Nat
    OBVIOUS
  <1>1. PopEach(g, keys) = CHOOSE f : Eqn(f, n)
    BY DEF PopEach
  <1> HIDE DEF n, Step
  <1>2. 0 \in I
    <2> DEFINE f == [k \in 0 .. 0 |-> g]
    <2>1. Eqn(f, 0)
      OBVIOUS
    <2> HIDE DEF f, Eqn
    <2> QED BY <2>1, <1>0
  <1>3. ASSUME NEW m \in 1 .. n, m - 1 \in I PROVE m \in I
    <2>1. PICK f : Eqn(f, m - 1)
      BY <1>3
    <2> DEFINE t == [k \in 0 .. m |-> IF k < m THEN f[k] ELSE Step(f[m - 1], m)]
    <2>2. \A k \in 0 .. m - 1 : f[k] = IF k = 0 THEN g ELSE Step(f[k - 1], k)
      BY <2>1, Zenon
    <2>3. ASSUME NEW k \in 0 .. m PROVE t[k] = IF k = 0 THEN g ELSE Step(t[k - 1], k)
      <3>1. CASE k = 0
        BY <3>1, <2>2, <1>0
      <3>2. CASE k # 0
        <4>1. k - 1 \in 0 .. m /\ k - 1 < m
          BY <3>2, <1>0
        <4>2. t[k - 1] = f[k - 1]
          BY <4>1
        <4>3. CASE k = m
          <5>1. t[k] = Step(f[m - 1], m)
            BY <4>3, <1>0
          <5> QED BY <3>2, <4>2, <4>3, <5>1
        <4>4. CASE k < m
          <5>1. k \in 0 .. m - 1 /\ t[k] = f[k]
            BY <4>4, <1>0
          <5>2. f[k] = Step(f[k - 1], k)
            BY <5>1, <2>2, <3>2
          <5> HIDE DEF t
          <5> QED BY <3>2, <4>2, <5>1, <5>2
        <4> QED BY <4>3, <4>4, <1>0
      <3> QED BY <3>1, <3>2
    <2>4. t = [k \in 0 .. m |-> t[k]]
      OBVIOUS
    <2> HIDE DEF t
    <2>5. Eqn(t, m)
      BY <2>3, <2>4
    <2>6. m \in 0 .. n
      BY <1>0
    <2> HIDE DEF Eqn
    <2> QED BY <2>5, <2>6
  <1> HIDE DEF I
  <1>4. n \in I
    <2>1. \A k \in 0 .. n : k \in I
      BY <1>0, <1>2, <1>3, Upward
    <2> QED BY <2>1, <1>0
  <1> DEFINE p == PopEach(g, keys)
  <1>5. Eqn(p, n)
    <2> HIDE DEF Eqn
    <2>1. \E f : Eqn(f, n)
      BY <1>4 DEF I
    <2> QED BY <1>1, <2>1
  <1> HIDE DEF p
  <1>6. \A k \in 0 .. n : p[k] = IF k = 0 THEN g ELSE Step(p[k - 1], k)
    BY <1>5, Zenon
  <1>7. p[0] = g
    BY <1>6, <1>0
  <1>8. ASSUME NEW k \in 1 .. n PROVE p[k] = Step(p[k - 1], k)
    <2>1. k \in 0 .. n /\ k # 0
      BY <1>0
    <2> QED BY <1>6, <2>1
  <1> QED BY <1>7, <1>8 DEF p, Step, n

(* After the first k slots have been looked at: what is left is one of the  *)
(* later ones or has a key that was to be kept, and all the later ones are  *)
(* left.                                                                   *)
LEMMA PopEachIs ==
    ASSUME NEW S, Sized(S), NEW g, IsCache(g, S), NEW keys, NEW k \in 0 .. Len(g.chunks),
           NEW h, h = PopEach(g, keys)[k]
    PROVE  /\ IsCache(h, S)
           /\ h.limit = g.limit
           /\ \A i \in 1 .. Len(h.chunks) :
                 \E j \in 1 .. Len(g.chunks) :
                    h.chunks[i] = g.chunks[j] /\ (j > k \/ g.chunks[j].key \notin keys)
           /\ \A j \in 1 .. Len(g.chunks) :
                 j > k => \E i \in 1 .. Len(h.chunks) : h.chunks[i] = g.chunks[j]
           /\ BooksBalance(g) => BooksBalance(h)
  <1> DEFINE n == Len(g.chunks)
             p == PopEach(g, keys)
             Left(x, m) == \A i \in 1 .. Len(x.chunks) :
                              \E j \in 1 .. n :
                                 x.chunks[i] = g.chunks[j] /\ (j > m \/ g.chunks[j].key \notin keys)
             Later(x, m) == \A j \in 1 .. n :
                               j > m => \E i \in 1 .. Len(x.chunks) : x.chunks[i] = g.chunks[j]
             Good(m) == /\ IsCache(p[m], S)
                        /\ p[m].limit = g.limit
                        /\ Left(p[m], m)
                        /\ Later(p[m], m)
                        /\ BooksBalance(g) => BooksBalance(p[m])
             I == {m \in 0 .. n : Good(m)}
  <1>0. n \in Nat /\ g.chunks \in Seq(S)
    BY DEF IsCache
  <1>1. /\ p[0] = g
        /\ \A m \in 1 .. n : p[m] = IF g.chunks[m].key \in keys
                                     THEN Removed(p[m - 1], g.chunks[m]) ELSE p[m - 1]
    BY <1>0, PopEachRuns
  <1>00. Distinct(g.chunks)
    BY DEF IsCache
  <1> HIDE DEF p, n
  <1>2. 0 \in I
    <2>1. Left(g, 0) /\ Later(g, 0)
      BY <1>0 DEF n
    <2>2. IsCache(g, S) /\ 0 \in 0 .. n
      BY <1>0
    <2> HIDE DEF Left, Later
    <2>3. Good(0)
      BY <1>1, <2>1, <2>2
    <2> QED BY <2>2, <2>3
  <1>3. ASSUME NEW m \in 1 .. n, m - 1 \in I PROVE m \in I
    <2> DEFINE pre == p[m - 1]
    <2>1. Good(m - 1)
      BY <1>3
    <2>2. m - 1 \in Nat /\ m \in 0 .. n
      BY <1>0
    <2>3. CASE g.chunks[m].key \notin keys
      <3>1. p[m] = pre
        BY <1>1, <2>3
      <3>2. Left(pre, m)
        <4> SUFFICES ASSUME NEW i \in 1 .. Len(pre.chunks)
                     PROVE  \E j \in 1 .. n : pre.chunks[i] = g.chunks[j]
                                               /\ (j > m \/ g.chunks[j].key \notin keys)
          OBVIOUS
        <4>1. PICK j \in 1 .. n : pre.chunks[i] = g.chunks[j]
                                  /\ (j > m - 1 \/ g.chunks[j].key \notin keys)
          BY <2>1
        <4>2. j > m \/ j = m \/ g.chunks[j].key \notin keys
          BY <4>1, <1>0
        <4> QED BY <4>1, <4>2, <2>3
      <3>3. Later(pre, m)
        <4>1. \A j \in 1 .. n : j > m => j > m - 1
          BY <1>0
        <4>2. Later(pre, m - 1)
          BY <2>1
        <4> QED BY <4>1, <4>2
      <3> HIDE DEF pre, Left, Later
      <3>4. Good(m)
        BY <2>1, <3>1, <3>2, <3>3 DEF pre
      <3> QED BY <3>4, <2>2
    <2>4. CASE g.chunks[m].key \in keys
      <3>1. PICK i \in 1 .. Len(pre.chunks) : pre.chunks[i] = g.chunks[m]
        <4>1. m > m - 1
          BY <1>0
        <4>2. Later(pre, m - 1)
          BY <2>1
        <4> QED BY <4>1, <4>2
      <3> DEFINE r == Removed(pre, pre.chunks[i])
                 rest == RemoveAt(pre.chunks, i)
      <3>2. p[m] = r
        BY <1>1, <2>4, <3>1
      <3>3. /\ IsCache(r, S) /\ r.limit = pre.limit /\ r.chunks = rest
        BY <2>1, RemovedIs
      <3>4. BooksBalance(pre) => BooksBalance(r)
        BY <2>1, RemovedBooks
      <3>5. /\ rest \in Seq(S) /\ Len(rest) = Len(pre.chunks) - 1 /\ From(rest, pre.chunks)
            /\ \A l \in 1 .. Len(pre.chunks) - 1 : rest[l].key # pre.chunks[i].key
            /\ \A j \in 1 .. Len(pre.chunks) :
                  j # i => \E l \in 1 .. Len(pre.chunks) - 1 : rest[l] = pre.chunks[j]
        <4> DEFINE c == pre.chunks
        <4>1. c \in Seq(S) /\ Distinct(c) /\ i \in 1 .. Len(c)
          BY <2>1 DEF IsCache
        <4> HIDE DEF c
        <4>2. /\ RemoveAt(c, i) \in Seq(S) /\ Len(RemoveAt(c, i)) = Len(c) - 1
              /\ From(RemoveAt(c, i), c)
              /\ \A l \in 1 .. Len(c) - 1 : RemoveAt(c, i)[l].key # c[i].key
              /\ \A j \in 1 .. Len(c) :
                    j # i => \E l \in 1 .. Len(c) - 1 : RemoveAt(c, i)[l] = c[j]
          BY <4>1, RestOf
        <4> QED BY <4>2 DEF c
      <3>6. pre.limit = g.limit /\ Left(pre, m - 1) /\ Later(pre, m - 1)
            /\ (BooksBalance(g) => BooksBalance(pre))
        BY <2>1
      <3> HIDE DEF pre, rest, r
      <3>7. Left(r, m)
        <4> SUFFICES ASSUME NEW l \in 1 .. Len(r.chunks)
                     PROVE  \E j \in 1 .. n : r.chunks[l] = g.chunks[j]
                                               /\ (j > m \/ g.chunks[j].key \notin keys)
          OBVIOUS
        <4>1. l \in 1 .. Len(rest) /\ r.chunks[l] = rest[l] /\ l \in 1 .. Len(pre.chunks) - 1
          BY <3>3, <3>5
        <4>2. PICK q \in 1 .. Len(pre.chunks) : rest[l] = pre.chunks[q]
          BY <3>5, <4>1 DEF From
        <4>3. PICK j \in 1 .. n : pre.chunks[q] = g.chunks[j]
                                  /\ (j > m - 1 \/ g.chunks[j].key \notin keys)
          BY <3>6, <4>2
        <4>4. j # m
          BY <3>1, <3>5, <4>1, <4>2, <4>3
        <4>5. j > m \/ g.chunks[j].key \notin keys
          BY <4>3, <4>4, <1>0
        <4> QED BY <4>1, <4>2, <4>3, <4>5
      <3>8. Later(r, m)
        <4> SUFFICES ASSUME NEW j \in 1 .. n, j > m
                     PROVE  \E l \in 1 .. Len(r.chunks) : r.chunks[l] = g.chunks[j]
          OBVIOUS
        <4>1. j > m - 1 /\ j # m
          BY <1>0
        <4>2. PICK q \in 1 .. Len(pre.chunks) : pre.chunks[q] = g.chunks[j]
          BY <3>6, <4>1
        <4>3. q # i
          <5> SUFFICES ASSUME q = i PROVE FALSE
            OBVIOUS
          <5>1. g.chunks[j].key = g.chunks[m].key
            BY <3>1, <4>2
          <5> QED BY <5>1, <4>1, <1>00 DEF Distinct, n
        <4>4. PICK l \in 1 .. Len(pre.chunks) - 1 : rest[l] = pre.chunks[q]
          BY <3>5, <4>3
        <4>5. l \in 1 .. Len(r.chunks)
          BY <3>3, <3>5, <4>4
        <4> QED BY <4>2, <4>4, <4>5, <3>3
      <3> HIDE DEF Left, Later
      <3>9. Good(m)
        BY <3>2, <3>3, <3>4, <3>6, <3>7, <3>8
      <3> QED BY <3>9, <2>2
    <2> QED BY <2>3, <2>4
  <1> HIDE DEF I
  <1>4. \A m \in 0 .. n : m \in I
    BY <1>0, <1>2, <1>3, Upward
  <1>5. k \in 0 .. n
    BY DEF n
  <1>6. Good(k)
    BY <1>4, <1>5 DEF I
  <1>7. p[k] = h
    BY DEF p
  <1> QED BY <1>6, <1>7, SMTT(60) DEF n

(* Popping every slot with a key in keys. *)
LEMMA PopAllIs ==
    ASSUME NEW S, Sized(S), NEW g, IsCache(g, S), NEW keys
    PROVE  /\ IsCache(PopAll(g, keys), S)
           /\ PopAll(g, keys).limit = g.limit
           /\ From(PopAll(g, keys).chunks, g.chunks)
           /\ \A i \in 1 .. Len(PopAll(g, keys).chunks) : PopAll(g, keys).chunks[i].key \notin keys
           /\ BooksBalance(g) => BooksBalance(PopAll(g, keys))
  <1> DEFINE n == Len(g.chunks)
             h == PopEach(g, keys)[n]
  <1>1. n \in Nat /\ n \in 0 .. n
    BY DEF IsCache
  <1>2. /\ IsCache(h, S)
        /\ h.limit = g.limit
        /\ \A i \in 1 .. Len(h.chunks) :
              \E j \in 1 .. n : h.chunks[i] = g.chunks[j] /\ (j > n \/ g.chunks[j].key \notin keys)
        /\ BooksBalance(g) => BooksBalance(h)
    <2>1. PICK k \in 0 .. n : k = n
      BY <1>1
    <2>2. PICK x : x = PopEach(g, keys)[k]
      OBVIOUS
    <2>3. /\ IsCache(x, S)
          /\ x.limit = g.limit
          /\ \A i \in 1 .. Len(x.chunks) :
                \E j \in 1 .. Len(g.chunks) :
                   x.chunks[i] = g.chunks[j] /\ (j > k \/ g.chunks[j].key \notin keys)
          /\ BooksBalance(g) => BooksBalance(x)
      BY <2>2, PopEachIs, SMTT(60)
    <2> HIDE DEF n
    <2>4. x = h
      BY <2>1, <2>2
    <2> HIDE DEF h
    <2> QED BY <2>1, <2>3, <2>4 DEF n
  <1>3. PopAll(g, keys) = h
    BY DEF PopAll
  <1> HIDE DEF h
  <1>4. From(h.chunks, g.chunks)
    BY <1>2 DEF From
  <1>5. \A i \in 1 .. Len(h.chunks) : h.chunks[i].key \notin keys
    BY <1>1, <1>2
  <1> QED BY <1>2, <1>3, <1>4, <1>5

(* Popping frees bytes; it never adds any. *)
LEMMA PopAllLess ==
    ASSUME NEW S, Sized(S), NEW g, IsCache(g, S), NEW keys, NEW h, h = PopAll(g, keys)
    PROVE  h.used_bytes <= g.used_bytes
  <1> DEFINE n == Len(g.chunks)
             p == PopEach(g, keys)
             I == {m \in 0 .. n : p[m].used_bytes \in Nat /\ p[m].used_bytes <= g.used_bytes}
  <1>0. n \in Nat /\ g.chunks \in Seq(S) /\ g.used_bytes \in Nat
    BY DEF IsCache
  <1>1. /\ p[0] = g
        /\ \A m \in 1 .. n : p[m] = IF g.chunks[m].key \in keys
                                     THEN Removed(p[m - 1], g.chunks[m]) ELSE p[m - 1]
    BY <1>0, PopEachRuns
  <1>2. \A m \in 0 .. n : IsCache(p[m], S)
    <2> SUFFICES ASSUME NEW m \in 0 .. n PROVE IsCache(p[m], S)
      OBVIOUS
    <2>1. PICK x : x = PopEach(g, keys)[m]
      OBVIOUS
    <2> QED BY <2>1, PopEachIs
  <1>3. h = p[n]
    BY DEF PopAll
  <1> HIDE DEF p
  <1>4. 0 \in I
    BY <1>0, <1>1
  <1>5. ASSUME NEW m \in 1 .. n, m - 1 \in I PROVE m \in I
    <2>1. m - 1 \in 0 .. n /\ m \in 0 .. n
      BY <1>0
    <2>2. PICK x : x = p[m - 1]
      OBVIOUS
    <2>3. x.used_bytes \in Nat /\ x.used_bytes <= g.used_bytes
      BY <1>5, <2>2
    <2>4. g.chunks[m].len \in Nat
      BY <1>0 DEF Sized
    <2>5. CASE g.chunks[m].key \notin keys
      BY <1>1, <2>1, <2>2, <2>3, <2>5
    <2>6. CASE g.chunks[m].key \in keys
      <3>1. p[m] = Removed(x, g.chunks[m]) /\ IsCache(x, S)
        BY <1>1, <1>2, <2>1, <2>2, <2>6
      <3>2. Removed(x, g.chunks[m]).used_bytes = saturating_sub(x.used_bytes, g.chunks[m].len)
        BY <3>1 DEF Removed, Debit, IsCache
      <3>3. /\ saturating_sub(x.used_bytes, g.chunks[m].len) \in Nat
            /\ saturating_sub(x.used_bytes, g.chunks[m].len) <= g.used_bytes
        BY <1>0, <2>3, <2>4 DEF saturating_sub
      <3> QED BY <2>1, <3>1, <3>2, <3>3
    <2> QED BY <2>5, <2>6
  <1> HIDE DEF I
  <1>6. \A m \in 0 .. n : m \in I
    BY <1>0, <1>4, <1>5, Upward
  <1>7. n \in I
    BY <1>0, <1>6
  <1> QED BY <1>3, <1>7 DEF I

(* A non-empty set of naturals has a least element. *)
LEMMA LeastOf ==
    ASSUME NEW T \in SUBSET Nat, T # {}
    PROVE  \E m \in T : \A k \in T : m <= k
  <1>1. IsWellFoundedOn(OpToRel(<, Nat), Nat)
    BY NatLessThanWellFounded
  <1>2. PICK m \in T : \A k \in T : ~ (<<k, m>> \in OpToRel(<, Nat))
    BY <1>1, WFMin, Zenon
  <1>3. \A k \in T : ~ (k < m)
    BY <1>2 DEF OpToRel
  <1> QED
    BY <1>3

(* The eviction loop stops when n more bytes fit or all slots are popped. *)
LEMMA EvictStops ==
    ASSUME NEW g, Len(g.chunks) \in Nat, NEW n \in Nat,
           NEW after, after = PopEach(g, KeysOf(g.chunks))
    PROVE  \E k \in 0 .. Len(g.chunks) :
              /\ EvictFor(g, n) = after[k]
              /\ k = Len(g.chunks) \/ after[k].used_bytes + n <= g.limit
              /\ \A j \in 0 .. k - 1 : ~(after[j].used_bytes + n <= g.limit)
  <1> DEFINE most == Len(g.chunks)
             Enough(k) == after[k].used_bytes + n <= g.limit
             Stop(k) == (k = most \/ Enough(k)) /\ \A j \in 0 .. k - 1 : ~Enough(j)
             T == {k \in 0 .. most : k = most \/ Enough(k)}
             stop == CHOOSE k \in 0 .. most : Stop(k)
  <1>1. most \in Nat
    OBVIOUS
  <1>2. EvictFor(g, n) = after[stop]
    BY DEF EvictFor
  <1> HIDE DEF most
  <1>3. \E k \in 0 .. most : Stop(k)
    <2>1. T \in SUBSET Nat /\ most \in T
      BY <1>1
    <2> HIDE DEF Enough
    <2>2. PICK m \in T : \A k \in T : m <= k
      <3> HIDE DEF T
      <3> QED BY <2>1, LeastOf
    <2>3. ASSUME NEW j \in 0 .. m - 1 PROVE ~Enough(j)
      <3>1. j \in 0 .. most /\ ~(m <= j)
        BY <1>1, <2>2
      <3> QED BY <2>2, <3>1
    <2> QED BY <2>2, <2>3
  <1>4. stop \in 0 .. most /\ Stop(stop)
    BY <1>3
  <1> HIDE DEF stop
  <1> QED BY <1>2, <1>4 DEF most

(* What the eviction loop leaves. *)
LEMMA EvictIs ==
    ASSUME NEW S, Sized(S), NEW g, IsCache(g, S), NEW n \in Nat
    PROVE  /\ IsCache(EvictFor(g, n), S)
           /\ EvictFor(g, n).limit = g.limit
           /\ From(EvictFor(g, n).chunks, g.chunks)
           /\ EvictFor(g, n).used_bytes + n <= g.limit \/ Len(EvictFor(g, n).chunks) = 0
           /\ BooksBalance(g) => BooksBalance(EvictFor(g, n))
  <1> DEFINE most == Len(g.chunks)
             keys == KeysOf(g.chunks)
  <1>1. most \in Nat
    BY DEF IsCache
  <1>2. PICK after : after = PopEach(g, keys)
    OBVIOUS
  <1>3. PICK stop \in 0 .. most : /\ EvictFor(g, n) = after[stop]
                                  /\ stop = most \/ after[stop].used_bytes + n <= g.limit
    BY <1>1, <1>2, EvictStops
  <1>4. \A j \in 1 .. most : g.chunks[j].key \in keys
    BY DEF KeysOf
  <1>5. PICK h : h = after[stop]
    OBVIOUS
  <1> HIDE DEF keys
  <1>6. h = PopEach(g, keys)[stop]
    BY <1>2, <1>5
  <1>7. /\ IsCache(h, S) /\ h.limit = g.limit
        /\ \A i \in 1 .. Len(h.chunks) :
              \E j \in 1 .. most : h.chunks[i] = g.chunks[j] /\ (j > stop \/ g.chunks[j].key \notin keys)
        /\ BooksBalance(g) => BooksBalance(h)
    BY <1>6, PopEachIs, SMTT(60)
  <1>8. EvictFor(g, n) = h /\ (h.used_bytes + n <= g.limit \/ stop = most)
    BY <1>3, <1>5
  <1> HIDE DEF most
  <1>9. From(h.chunks, g.chunks)
    BY <1>7 DEF From, most
  <1>10. stop = most => Len(h.chunks) = 0
    <2> SUFFICES ASSUME stop = most, Len(h.chunks) # 0 PROVE FALSE
      OBVIOUS
    <2>1. 1 \in 1 .. Len(h.chunks)
      BY <1>7 DEF IsCache
    <2>2. PICK j \in 1 .. most : j > stop \/ g.chunks[j].key \notin keys
      BY <1>7, <2>1
    <2> QED BY <2>2, <1>1, <1>4
  <1> QED BY <1>7, <1>8, <1>9, <1>10

(* pop *)
LEMMA PoppedIs ==
    ASSUME NEW S, Sized(S), NEW g, IsCache(g, S), NEW key
    PROVE  /\ IsCache(Popped(g, key), S)
           /\ Popped(g, key).limit = g.limit
           /\ From(Popped(g, key).chunks, g.chunks)
           /\ \A i \in 1 .. Len(Popped(g, key).chunks) : Popped(g, key).chunks[i].key # key
           /\ BooksBalance(g) => BooksBalance(Popped(g, key))
  <1>0. DOMAIN g.chunks = 1 .. Len(g.chunks) /\ g.chunks \in Seq(S) /\ Distinct(g.chunks)
    BY DEF IsCache
  <1>1. CASE ~Holds(g, key)
    <2>1. Popped(g, key) = g
      BY <1>1 DEF Popped
    <2>2. \A i \in 1 .. Len(g.chunks) : g.chunks[i].key # key
      BY <1>0, <1>1 DEF Holds
    <2> QED BY <2>1, <2>2 DEF From
  <1>2. CASE Holds(g, key)
    <2>1. PICK i \in 1 .. Len(g.chunks) : g.chunks[i].key = key
      BY <1>0, <1>2 DEF Holds
    <2> DEFINE h == Removed(g, g.chunks[i])
               c == g.chunks
    <2>2. SlotOf(g, key) = g.chunks[i]
      BY <1>0, <2>1, AtIs DEF SlotOf
    <2>3. Popped(g, key) = h
      BY <1>2, <2>2 DEF Popped
    <2>4. IsCache(h, S) /\ h.limit = g.limit /\ h.chunks = RemoveAt(c, i)
      BY RemovedIs
    <2>5. BooksBalance(g) => BooksBalance(h)
      BY RemovedBooks
    <2>6. c \in Seq(S) /\ Distinct(c) /\ i \in 1 .. Len(c) /\ c[i].key = key
      BY <1>0, <2>1
    <2> HIDE DEF c, h
    <2>7. /\ From(RemoveAt(c, i), c) /\ Len(RemoveAt(c, i)) = Len(c) - 1
          /\ \A k \in 1 .. Len(c) - 1 : RemoveAt(c, i)[k].key # c[i].key
      BY <2>6, RestOf, SMTT(60)
    <2> QED BY <2>3, <2>4, <2>5, <2>6, <2>7 DEF c
  <1> QED BY <1>1, <1>2

-----------------------------------------------------------------------------
(* A slot enters. *)

(* The LruCache is at its own bound on the number of entries. *)
Full(g) == Len(g.chunks) >= lru_capacity_for(g.limit)

(* Every slot of a is one of b, or the new one. *)
FromOr(a, b, slot) ==
    \A i \in 1 .. Len(a) : a[i] = slot \/ \E j \in 1 .. Len(b) : a[i] = b[j]

(* The bound on the entries is a positive number. *)
LEMMA CapacityIs ==
    ASSUME NEW limit \in Nat
    PROVE  lru_capacity_for(limit) \in Nat \ {0}
  <1>1. limit \div CHUNK_SIZE_BYTES \in Nat
    BY CacheConstants
  <1> QED BY <1>1, CacheConstants DEF lru_capacity_for

(* Put and Credit, of a slot whose key is not in the map. *)
LEMMA AddIs ==
    ASSUME NEW S, Sized(S), NEW g, IsCache(g, S), NEW slot \in S,
           \A i \in 1 .. Len(g.chunks) : g.chunks[i].key # slot.key,
           NEW h, h = Credit(Put(g, slot), slot)
    PROVE  /\ IsCache(h, S)
           /\ h.limit = g.limit
           /\ h.used_bytes = g.used_bytes + slot.len
           /\ FromOr(h.chunks, g.chunks, slot)
           /\ Len(h.chunks) # 0 /\ h.chunks[Len(h.chunks)] = slot
           /\ ~Full(h) => ~Full(g)
           /\ BooksBalance(g) /\ ~Full(g) => BooksBalance(h)
  <1> DEFINE c == g.chunks
             cap == lru_capacity_for(g.limit)
             kept == IF Len(c) >= cap THEN Tail(c) ELSE c
             map == g.bytes_by_attribution
             bucket == Bucket(slot)
             more == [b \in DOMAIN map \cup {bucket} |->
                        (IF b \in DOMAIN map THEN map[b] ELSE 0)
                          + (IF b = bucket THEN slot.len ELSE 0)]
  <1>1. /\ g = [limit |-> g.limit, used_bytes |-> g.used_bytes, chunks |-> c,
                bytes_by_attribution |-> map]
        /\ g.limit \in Nat /\ g.used_bytes \in Nat
    BY DEF IsCache
  <1>2. c \in Seq(S) /\ Distinct(c) /\ Len(c) \in Nat /\ DOMAIN c = 1 .. Len(c)
    BY DEF IsCache
  <1>3. OtherThan(c, slot.key) = c
    BY <1>2 DEF OtherThan
  <1>4. slot.len \in Nat /\ slot.len # 0
    BY DEF Sized
  <1>5. cap \in Nat \ {0}
    BY <1>1, CapacityIs
  <1>6. h = [limit |-> g.limit, used_bytes |-> g.used_bytes + slot.len,
             chunks |-> Append(kept, slot), bytes_by_attribution |-> more]
    <2> DEFINE put == [limit |-> g.limit, used_bytes |-> g.used_bytes, chunks |-> Append(kept, slot),
                       bytes_by_attribution |-> map]
    <2>1. Put(g, slot) = [g EXCEPT !.chunks = Append(kept, slot)]
      BY <1>3 DEF Put
    <2> HIDE DEF kept
    <2>2. Put(g, slot) = put
      BY <1>1, <2>1
    <2>3. Credit(put, slot) = [put EXCEPT !.used_bytes = g.used_bytes + slot.len,
                                          !.bytes_by_attribution = more]
      BY DEF Credit
    <2> HIDE DEF more
    <2>4. Credit(put, slot) = [limit |-> g.limit, used_bytes |-> g.used_bytes + slot.len,
                               chunks |-> Append(kept, slot), bytes_by_attribution |-> more]
      BY <2>3
    <2> QED BY <2>2, <2>4
  <1>7. /\ kept \in Seq(S) /\ Distinct(kept) /\ From(kept, c)
        /\ \A i \in 1 .. Len(kept) : kept[i].key # slot.key
    <2>1. CASE Len(c) >= cap
      <3> DEFINE t == Tail(c)
      <3>1. c # << >> /\ t \in Seq(S) /\ Len(t) = Len(c) - 1 /\ \A i \in 1 .. Len(c) - 1 : t[i] = c[i + 1]
        BY <1>2, <1>5, <2>1
      <3>2. kept = t
        BY <2>1
      <3>3. \A i \in 1 .. Len(c) : c[i].key # slot.key
        OBVIOUS
      <3> HIDE DEF t, c
      <3>4. \A i \in 1 .. Len(t) : i + 1 \in 1 .. Len(c) /\ t[i] = c[i + 1]
        BY <1>2, <3>1
      <3>5. Distinct(t)
        <4> SUFFICES ASSUME NEW i \in 1 .. Len(t), NEW j \in 1 .. Len(t), t[i].key = t[j].key
                     PROVE  i = j
          BY DEF Distinct
        <4>1. i + 1 = j + 1
          BY <1>2, <3>4 DEF Distinct
        <4> QED BY <4>1
      <3> QED BY <3>1, <3>2, <3>3, <3>4, <3>5 DEF From
    <2>2. CASE ~(Len(c) >= cap)
      BY <1>2, <2>2 DEF From
    <2> QED BY <2>1, <2>2
  <1>8. Len(c) < cap => kept = c
    BY <1>2, <1>5
  <1>9. Len(c) >= cap => Len(kept) + 1 >= cap
    BY <1>2, <1>5
  <1>10. \A b : b \in DOMAIN more <=> b \in DOMAIN map \/ b = bucket
    OBVIOUS
  <1>11. \A b \in DOMAIN more : more[b] = (IF b \in DOMAIN map THEN map[b] ELSE 0)
                                             + (IF b = bucket THEN slot.len ELSE 0)
    OBVIOUS
  <1> HIDE DEF c, cap, kept, map, bucket, more
  <1>12. /\ Append(kept, slot) \in Seq(S) /\ Len(Append(kept, slot)) = Len(kept) + 1
         /\ Append(kept, slot)[Len(kept) + 1] = slot
         /\ \A i \in 1 .. Len(kept) : Append(kept, slot)[i] = kept[i]
         /\ Distinct(Append(kept, slot))
    BY <1>7, MoreOf
  <1>13. Len(kept) \in Nat
    BY <1>7
  <1>14. IsCache(h, S) /\ h.limit = g.limit /\ h.used_bytes = g.used_bytes + slot.len
    BY <1>1, <1>4, <1>6, <1>12 DEF IsCache
  <1>15. Len(h.chunks) # 0 /\ h.chunks[Len(h.chunks)] = slot
    BY <1>6, <1>12, <1>13
  <1>16. FromOr(h.chunks, c, slot)
    <2> SUFFICES ASSUME NEW i \in 1 .. Len(kept) + 1
                 PROVE  Append(kept, slot)[i] = slot \/ \E j \in 1 .. Len(c) : Append(kept, slot)[i] = c[j]
      BY <1>6, <1>12 DEF FromOr
    <2>1. CASE i = Len(kept) + 1
      BY <2>1, <1>12
    <2>2. CASE i \in 1 .. Len(kept)
      BY <2>2, <1>7, <1>12 DEF From
    <2> QED BY <2>1, <2>2, <1>13
  <1>18. ASSUME ~Full(h) PROVE ~Full(g)
    <2>1. ~(Len(kept) + 1 >= cap)
      BY <1>18, <1>6, <1>12 DEF Full, cap
    <2> QED BY <2>1, <1>2, <1>5, <1>8, <1>9 DEF Full, c, cap
  <1>17. ASSUME BooksBalance(g), ~Full(g) PROVE BooksBalance(h)
    <2>1. kept = c
      BY <1>2, <1>5, <1>8, <1>17 DEF Full, c, cap
    <2>2. /\ g.used_bytes = BytesHeld(c)
          /\ \A b : b \in DOMAIN map <=> BytesFor(c, b) # 0
          /\ \A b \in DOMAIN map : map[b] = BytesFor(c, b)
      BY <1>17, BooksAre DEF c, map
    <2>3. h.chunks = Append(c, slot) /\ h.bytes_by_attribution = more
      BY <1>6, <2>1
    <2>4. BytesHeld(h.chunks) = BytesHeld(c) + slot.len
      BY <1>2, <2>3, HeldAppend
    <2>5. \A b : BytesFor(c, b) \in Nat /\ BytesFor(h.chunks, b)
                    = BytesFor(c, b) + (IF bucket = b THEN slot.len ELSE 0)
      BY <1>2, <2>3, ForAppend DEF bucket
    <2>6. ASSUME NEW b PROVE b \in DOMAIN more <=> BytesFor(h.chunks, b) # 0
      BY <1>4, <1>10, <2>2, <2>5
    <2>7. ASSUME NEW b \in DOMAIN more PROVE more[b] = BytesFor(h.chunks, b)
      <3>1. (IF b \in DOMAIN map THEN map[b] ELSE 0) = BytesFor(c, b)
        BY <2>2
      <3> QED BY <1>11, <2>5, <3>1
    <2> QED BY <1>14, <2>2, <2>3, <2>4, <2>6, <2>7, BooksAre
  <1> QED BY <1>14, <1>15, <1>16, <1>17, <1>18 DEF c

(* Insert: room is made, then the slot goes in. *)
LEMMA InsertIs ==
    ASSUME NEW S, Sized(S), NEW g, IsCache(g, S), NEW slot \in S, slot.len <= g.limit,
           \A i \in 1 .. Len(g.chunks) : g.chunks[i].key # slot.key,
           NEW h, h = Insert(g, slot)
    PROVE  /\ IsCache(h, S)
           /\ h.limit = g.limit
           /\ FromOr(h.chunks, g.chunks, slot)
           /\ Len(h.chunks) # 0 /\ h.chunks[Len(h.chunks)] = slot
           /\ BooksBalance(g) => h.used_bytes <= h.limit
           /\ BooksBalance(g) /\ (~Full(h) \/ ~Full(EvictFor(g, slot.len))) => BooksBalance(h)
  <1>1. PICK e : e = EvictFor(g, slot.len)
    OBVIOUS
  <1>2. slot.len \in Nat
    BY DEF Sized
  <1>3. /\ IsCache(e, S) /\ e.limit = g.limit /\ From(e.chunks, g.chunks)
        /\ e.used_bytes + slot.len <= g.limit \/ Len(e.chunks) = 0
        /\ BooksBalance(g) => BooksBalance(e)
    BY <1>1, <1>2, EvictIs
  <1>4. \A i \in 1 .. Len(e.chunks) : e.chunks[i].key # slot.key
    BY <1>3 DEF From
  <1>5. h = Credit(Put(e, slot), slot)
    BY <1>1 DEF Insert
  <1>6. /\ IsCache(h, S)
        /\ h.limit = e.limit
        /\ h.used_bytes = e.used_bytes + slot.len
        /\ FromOr(h.chunks, e.chunks, slot)
        /\ Len(h.chunks) # 0 /\ h.chunks[Len(h.chunks)] = slot
        /\ BooksBalance(e) /\ (~Full(h) \/ ~Full(e)) => BooksBalance(h)
    BY <1>3, <1>4, <1>5, AddIs
  <1>7. FromOr(h.chunks, g.chunks, slot)
    BY <1>3, <1>6 DEF From, FromOr
  <1>8. ASSUME BooksBalance(g) PROVE h.used_bytes <= h.limit
    <2>1. CASE e.used_bytes + slot.len <= g.limit
      BY <1>3, <1>6, <2>1
    <2>2. CASE Len(e.chunks) = 0
      <3>1. e.used_bytes = BytesHeld(e.chunks)
        BY <1>3, <1>8 DEF BooksBalance
      <3>2. BytesHeld(e.chunks) = 0
        <4> DEFINE w == [i \in 1 .. Len(e.chunks) |-> e.chunks[i].len]
        <4>1. w \in Seq(Nat) /\ \A k \in 1 .. Len(w) : w[k] = 0
          BY <2>2
        <4>2. BytesHeld(e.chunks) = Total(w)
          BY DEF BytesHeld
        <4> HIDE DEF w
        <4> QED BY <4>1, <4>2, TotalZero
      <3> QED BY <1>2, <1>3, <1>6, <3>1, <3>2
    <2> QED BY <1>3, <2>1, <2>2
  <1> QED BY <1>1, <1>3, <1>6, <1>7, <1>8

(* fetch_chunk's second section: afterwards the key is in the map. *)
LEMMA FillIs ==
    ASSUME NEW S, Sized(S), NEW g, IsCache(g, S), NEW slot \in S, slot.len <= g.limit,
           NEW h, h = fill_chunk(g, slot)
    PROVE  /\ IsCache(h, S)
           /\ h.limit = g.limit
           /\ FromOr(h.chunks, g.chunks, slot)
           /\ BooksBalance(g) /\ g.used_bytes <= g.limit => h.used_bytes <= h.limit
           /\ BooksBalance(g) /\ ~Full(h) => BooksBalance(h)
  <1>1. CASE Holds(g, slot.key)
    <2>1. h = Touch(g, slot.key)
      BY <1>1 DEF fill_chunk
    <2>2. /\ IsCache(h, S) /\ h.limit = g.limit /\ h.used_bytes = g.used_bytes
          /\ From(h.chunks, g.chunks)
          /\ BooksBalance(g) => BooksBalance(h)
      BY <2>1, TouchIs
    <2> QED BY <2>2 DEF From, FromOr
  <1>2. CASE ~Holds(g, slot.key)
    <2>1. h = Insert(g, slot)
      BY <1>2 DEF fill_chunk
    <2>2. \A i \in 1 .. Len(g.chunks) : g.chunks[i].key # slot.key
      BY <1>2 DEF Holds, IsCache
    <2> QED BY <2>1, <2>2, InsertIs
  <1> QED BY <1>1, <1>2

(* After it the key is in the map. *)
LEMMA FillHolds ==
    ASSUME NEW S, Sized(S), NEW g, IsCache(g, S), NEW slot \in S, slot.len <= g.limit,
           NEW h, h = fill_chunk(g, slot)
    PROVE  \E i \in 1 .. Len(h.chunks) : h.chunks[i].key = slot.key /\ SlotOf(h, slot.key) = h.chunks[i]
  <1>0. h.chunks \in Seq(S) /\ Distinct(h.chunks)
    BY FillIs DEF IsCache
  <1>1. \E i \in 1 .. Len(h.chunks) : h.chunks[i].key = slot.key
    <2>1. CASE Holds(g, slot.key)
      <3>1. PICK i \in 1 .. Len(g.chunks) : g.chunks[i].key = slot.key
        BY <2>1 DEF Holds, IsCache
      <3> DEFINE c == g.chunks
                 rest == RemoveAt(c, i)
      <3>2. c \in Seq(S) /\ Distinct(c) /\ i \in 1 .. Len(c) /\ c[i].key = slot.key
        BY <3>1 DEF IsCache
      <3>3. h = [g EXCEPT !.chunks = Append(rest, c[i])]
        <4>1. SlotOf(g, slot.key) = c[i] /\ OtherThan(c, slot.key) = rest
          BY <3>2, AtIs DEF SlotOf
        <4> QED BY <2>1, <4>1 DEF fill_chunk, Touch
      <3>4. g = [limit |-> g.limit, used_bytes |-> g.used_bytes, chunks |-> g.chunks,
                 bytes_by_attribution |-> g.bytes_by_attribution]
        BY DEF IsCache
      <3>5. rest \in Seq(S) /\ c[i] \in S
        BY <3>2, RemovedAt
      <3> HIDE DEF rest, c
      <3>6. h.chunks = Append(rest, c[i])
        BY <3>3, <3>4
      <3>7. Len(h.chunks) = Len(rest) + 1 /\ h.chunks[Len(rest) + 1] = c[i] /\ Len(rest) \in Nat
        BY <3>5, <3>6
      <3> QED BY <3>2, <3>7
    <2>2. CASE ~Holds(g, slot.key)
      <3>1. h = Insert(g, slot)
        BY <2>2 DEF fill_chunk
      <3>2. \A i \in 1 .. Len(g.chunks) : g.chunks[i].key # slot.key
        BY <2>2 DEF Holds, IsCache
      <3>3. Len(h.chunks) # 0 /\ h.chunks[Len(h.chunks)] = slot
        BY <3>1, <3>2, InsertIs
      <3>4. Len(h.chunks) \in 1 .. Len(h.chunks)
        BY <1>0, <3>3
      <3> QED BY <3>3, <3>4
    <2> QED BY <2>1, <2>2
  <1>2. PICK i \in 1 .. Len(h.chunks) : h.chunks[i].key = slot.key
    BY <1>1
  <1>3. SlotOf(h, slot.key) = h.chunks[i]
    BY <1>0, <1>2, AtIs DEF SlotOf
  <1> QED BY <1>2, <1>3

(* store_chunk: the slot is replaced. *)
LEMMA StoreIs ==
    ASSUME NEW S, Sized(S), NEW g, IsCache(g, S), NEW slot \in S, slot.len <= g.limit,
           NEW h, h = store_chunk(g, slot)
    PROVE  /\ IsCache(h, S)
           /\ h.limit = g.limit
           /\ FromOr(h.chunks, g.chunks, slot)
           /\ BooksBalance(g) => h.used_bytes <= h.limit
           /\ BooksBalance(g) /\ ~Full(h) => BooksBalance(h)
  <1>1. PICK p : p = Popped(g, slot.key)
    OBVIOUS
  <1>2. /\ IsCache(p, S) /\ p.limit = g.limit /\ From(p.chunks, g.chunks)
        /\ \A i \in 1 .. Len(p.chunks) : p.chunks[i].key # slot.key
        /\ BooksBalance(g) => BooksBalance(p)
    BY <1>1, PoppedIs
  <1>3. h = Insert(p, slot) /\ slot.len <= p.limit
    BY <1>1, <1>2 DEF store_chunk
  <1>4. /\ IsCache(h, S) /\ h.limit = p.limit /\ FromOr(h.chunks, p.chunks, slot)
        /\ BooksBalance(p) => h.used_bytes <= h.limit
        /\ BooksBalance(p) /\ ~Full(h) => BooksBalance(h)
    BY <1>2, <1>3, InsertIs
  <1>5. FromOr(h.chunks, g.chunks, slot)
    BY <1>2, <1>4 DEF From, FromOr
  <1> QED BY <1>2, <1>4, <1>5

(* set_limit evicts what no longer fits, then resizes the LruCache. *)
LEMMA LimitIs ==
    ASSUME NEW S, Sized(S), NEW g, IsCache(g, S), NEW limit \in Nat,
           NEW h, h = set_limit(g, limit)
    PROVE  /\ IsCache(h, S)
           /\ h.limit = limit
           /\ From(h.chunks, g.chunks)
           /\ BooksBalance(g) => h.used_bytes <= h.limit
           /\ BooksBalance(g) /\ ~Full(h) => BooksBalance(h)
  <1>1. PICK m : m = [g EXCEPT !.limit = limit]
    OBVIOUS
  <1>2. m = [limit |-> limit, used_bytes |-> g.used_bytes, chunks |-> g.chunks,
             bytes_by_attribution |-> g.bytes_by_attribution]
    BY <1>1 DEF IsCache
  <1>3. IsCache(m, S) /\ m.limit = limit /\ m.chunks = g.chunks
    BY <1>2 DEF IsCache
  <1>4. BooksBalance(g) => BooksBalance(m)
    BY <1>2 DEF BooksBalance
  <1>5. PICK e : e = EvictFor(m, 0)
    OBVIOUS
  <1>6. /\ IsCache(e, S) /\ e.limit = limit /\ From(e.chunks, g.chunks)
        /\ e.used_bytes + 0 <= limit \/ Len(e.chunks) = 0
        /\ BooksBalance(g) => BooksBalance(e)
    <2>1. 0 \in Nat
      OBVIOUS
    <2> QED BY <1>3, <1>4, <1>5, <2>1, EvictIs
  <1> DEFINE c == e.chunks
             n == Len(c)
             cap == lru_capacity_for(limit)
             kept == IF n <= cap THEN c ELSE SubSeq(c, n - cap + 1, n)
  <1>7. cap \in Nat \ {0}
    BY CapacityIs
  <1>8. h = [e EXCEPT !.chunks = kept]
    BY <1>1, <1>5 DEF set_limit, Resize
  <1>9. c \in Seq(S) /\ Distinct(c) /\ n \in Nat
    BY <1>6 DEF IsCache
  <1>10. /\ e = [limit |-> e.limit, used_bytes |-> e.used_bytes, chunks |-> e.chunks,
                 bytes_by_attribution |-> e.bytes_by_attribution]
         /\ e.used_bytes \in Nat
    BY <1>6 DEF IsCache
  <1>11. h = [limit |-> limit, used_bytes |-> e.used_bytes, chunks |-> kept,
              bytes_by_attribution |-> e.bytes_by_attribution]
    <2> HIDE DEF kept
    <2> QED BY <1>6, <1>8, <1>10
  <1>12. kept \in Seq(S) /\ Distinct(kept) /\ From(kept, c) /\ (n > cap => Len(kept) = cap)
    <2> HIDE DEF c, n, cap
    <2>0. Len(c) = n
      BY DEF n
    <2>1. CASE n <= cap
      BY <1>7, <1>9, <2>1 DEF From
    <2>2. CASE n > cap
      <3> DEFINE d == n - cap
                 t == SubSeq(c, d + 1, n)
      <3>1. d \in Nat /\ n - d = cap
        BY <1>7, <1>9, <2>2
      <3> HIDE DEF d
      <3>2. t \in Seq(S) /\ Len(t) = cap /\ \A i \in 1 .. cap : t[i] = c[d + i]
        BY <1>7, <1>9, <2>0, <3>1
      <3>3. kept = t
        BY <1>7, <1>9, <2>2 DEF d
      <3> HIDE DEF t, kept
      <3>4. \A i \in 1 .. cap : d + i \in 1 .. n
        BY <1>7, <1>9, <3>1
      <3>5. Distinct(t)
        <4> SUFFICES ASSUME NEW i \in 1 .. cap, NEW j \in 1 .. cap, t[i].key = t[j].key
                     PROVE  i = j
          BY <3>2 DEF Distinct
        <4>1. d + i = d + j
          BY <1>9, <2>0, <3>2, <3>4 DEF Distinct
        <4> QED BY <4>1, <3>1
      <3>6. From(t, c)
        BY <2>0, <3>2, <3>4 DEF From
      <3> QED BY <3>2, <3>3, <3>5, <3>6
    <2> QED BY <2>1, <2>2, <1>7, <1>9
  <1> HIDE DEF kept
  <1>13. IsCache(h, S) /\ h.limit = limit /\ h.chunks = kept
    BY <1>10, <1>11, <1>12 DEF IsCache
  <1>14. From(h.chunks, g.chunks)
    BY <1>6, <1>12, <1>13 DEF From
  <1>15. ASSUME BooksBalance(g) PROVE h.used_bytes <= h.limit
    <2>1. CASE e.used_bytes + 0 <= limit
      BY <1>10, <1>11, <2>1
    <2>2. CASE Len(e.chunks) = 0
      <3>1. e.used_bytes = BytesHeld(e.chunks)
        BY <1>6, <1>15 DEF BooksBalance
      <3>2. BytesHeld(e.chunks) = 0
        <4> DEFINE w == [i \in 1 .. Len(e.chunks) |-> e.chunks[i].len]
        <4>1. w \in Seq(Nat) /\ \A k \in 1 .. Len(w) : w[k] = 0
          BY <2>2
        <4>2. BytesHeld(e.chunks) = Total(w)
          BY DEF BytesHeld
        <4> HIDE DEF w
        <4> QED BY <4>1, <4>2, TotalZero
      <3> QED BY <1>11, <3>1, <3>2
    <2> QED BY <1>6, <2>1, <2>2
  <1>16. ASSUME BooksBalance(g), ~Full(h) PROVE BooksBalance(h)
    <2>1. ~(Len(kept) >= cap)
      BY <1>16, <1>13 DEF Full
    <2>2. n <= cap
      BY <2>1, <1>7, <1>9, <1>12
    <2>3. kept = e.chunks
      BY <2>2 DEF kept
    <2>4. h = e
      BY <1>6, <1>10, <1>11, <2>3
    <2> QED BY <1>6, <1>16, <2>4
  <1> QED BY <1>13, <1>14, <1>15, <1>16

-----------------------------------------------------------------------------
(* What the map really holds, also when the LruCache drops entries by       *)
(* itself: never more than the books say.                                  *)

Covered(g) == BytesHeld(g.chunks) <= g.used_bytes

LEMMA HeldType ==
    ASSUME NEW S, Sized(S), NEW slots \in Seq(S)
    PROVE  BytesHeld(slots) \in Nat
  <1> DEFINE w == [i \in 1 .. Len(slots) |-> slots[i].len]
  <1>1. w \in Seq(Nat)
    BY DEF Sized
  <1> HIDE DEF w
  <1>2. Total(w) \in Nat
    BY <1>1, TotalType
  <1> QED BY <1>2 DEF BytesHeld, w

(* No slots, no bytes. *)
LEMMA HeldNone ==
    ASSUME NEW slots, Len(slots) = 0
    PROVE  BytesHeld(slots) = 0
  <1> DEFINE w == [k \in 1 .. Len(slots) |-> slots[k].len]
  <1>1. w \in Seq(Nat) /\ Len(w) = 0 /\ \A k \in 1 .. Len(w) : w[k] = 0
    OBVIOUS
  <1>2. BytesHeld(slots) = Total(w)
    BY DEF BytesHeld
  <1> HIDE DEF w
  <1> QED BY <1>1, <1>2, TotalZero

(* A suffix holds no more than the whole. *)
LEMMA HeldSuffix ==
    ASSUME NEW S, Sized(S), NEW slots \in Seq(S), NEW k \in 0 .. Len(slots)
    PROVE  BytesHeld(SubSeq(slots, k + 1, Len(slots))) <= BytesHeld(slots)
  <1> DEFINE n == Len(slots)
             Rest(m) == SubSeq(slots, m + 1, n)
             I == {m \in 0 .. n : BytesHeld(Rest(m)) <= BytesHeld(slots)}
  <1>0. n \in Nat /\ BytesHeld(slots) \in Nat
    BY HeldType
  <1>1. 0 \in I
    <2>1. Rest(0) = slots
      OBVIOUS
    <2> HIDE DEF Rest, n
    <2>2. BytesHeld(Rest(0)) <= BytesHeld(slots)
      BY <1>0, <2>1
    <2> QED BY <1>0, <2>2
  <1>2. ASSUME NEW m \in 1 .. n, m - 1 \in I PROVE m \in I
    <2>1. PICK a : a = Rest(m - 1)
      OBVIOUS
    <2>2. PICK b : b = Rest(m)
      OBVIOUS
    <2>3. a \in Seq(S) /\ Len(a) = n - m + 1 /\ \A i \in 1 .. n - m + 1 : a[i] = slots[m + i - 1]
      BY <1>0, <2>1
    <2>4. b \in Seq(S) /\ Len(b) = n - m /\ \A i \in 1 .. n - m : b[i] = slots[m + i]
      BY <1>0, <2>2
    <2>5. 1 \in 1 .. Len(a)
      BY <2>3
    <2>6. PICK c : c = RemoveAt(a, 1)
      OBVIOUS
    <2>7. /\ c \in Seq(S) /\ Len(c) = n - m
          /\ \A i \in 1 .. n - m : c[i] = a[i + 1]
      <3>1. /\ c \in Seq(S) /\ Len(c) = Len(a) - 1
            /\ \A i \in 1 .. Len(a) - 1 : c[i] = IF i < 1 THEN a[i] ELSE a[i + 1]
        BY <2>3, <2>5, <2>6, RemovedAt
      <3> HIDE DEF n
      <3>2. n - m \in Nat /\ Len(a) - 1 = n - m
        BY <1>0, <2>3
      <3>3. \A i \in 1 .. n - m : c[i] = IF i < 1 THEN a[i] ELSE a[i + 1]
        BY <3>1, <3>2
      <3> QED BY <3>1, <3>2, <3>3
    <2>8. b = c
      <3> HIDE DEF n
      <3>1. \A i \in 1 .. n - m : b[i] = c[i]
        <4> SUFFICES ASSUME NEW i \in 1 .. n - m PROVE b[i] = c[i]
          OBVIOUS
        <4>1. i + 1 \in 1 .. n - m + 1 /\ m + (i + 1) - 1 = m + i
          BY <1>0
        <4> QED BY <2>3, <2>4, <2>7, <4>1
      <3> QED BY <2>4, <2>7, <3>1, SameElements
    <2>9. /\ BytesHeld(a) \in Nat /\ BytesHeld(c) \in Nat
          /\ BytesHeld(a) = BytesHeld(c) + a[1].len
      BY <2>3, <2>5, <2>6, HeldRemove
    <2>10. a[1].len \in Nat
      BY <2>3, <2>5 DEF Sized
    <2>11. BytesHeld(a) <= BytesHeld(slots)
      BY <1>2, <2>1
    <2>12. BytesHeld(b) <= BytesHeld(slots)
      BY <1>0, <2>8, <2>9, <2>10, <2>11
    <2> QED BY <2>2, <2>12
  <1> HIDE DEF I
  <1>3. \A m \in 0 .. n : m \in I
    BY <1>0, <1>1, <1>2, Upward
  <1> QED BY <1>3 DEF I

(* Popping keeps the books above what is held. *)
LEMMA PopEachCovers ==
    ASSUME NEW S, Sized(S), NEW g, IsCache(g, S), NEW keys, Covered(g)
    PROVE  \A k \in 0 .. Len(g.chunks) :
              /\ Covered(PopEach(g, keys)[k])
              /\ BytesHeld(PopEach(g, keys)[k].chunks) <= BytesHeld(g.chunks)
  <1> DEFINE n == Len(g.chunks)
             p == PopEach(g, keys)
             I == {m \in 0 .. n : Covered(p[m]) /\ BytesHeld(p[m].chunks) <= BytesHeld(g.chunks)}
  <1>0. n \in Nat /\ g.chunks \in Seq(S) /\ BytesHeld(g.chunks) \in Nat
    BY HeldType DEF IsCache
  <1>1. /\ p[0] = g
        /\ \A m \in 1 .. n : p[m] = IF g.chunks[m].key \in keys
                                     THEN Removed(p[m - 1], g.chunks[m]) ELSE p[m - 1]
    BY <1>0, PopEachRuns
  <1>2. \A m \in 0 .. n :
           /\ IsCache(p[m], S)
           /\ \A j \in 1 .. n :
                 j > m => \E i \in 1 .. Len(p[m].chunks) : p[m].chunks[i] = g.chunks[j]
    <2> SUFFICES ASSUME NEW m \in 0 .. n
                 PROVE  /\ IsCache(p[m], S)
                        /\ \A j \in 1 .. n :
                              j > m => \E i \in 1 .. Len(p[m].chunks) : p[m].chunks[i] = g.chunks[j]
      OBVIOUS
    <2>1. PICK x : x = PopEach(g, keys)[m]
      OBVIOUS
    <2> QED BY <2>1, PopEachIs
  <1> HIDE DEF p
  <1>4. 0 \in I
    BY <1>0, <1>1
  <1>5. ASSUME NEW m \in 1 .. n, m - 1 \in I PROVE m \in I
    <2>1. m - 1 \in 0 .. n /\ m \in 0 .. n /\ m > m - 1
      BY <1>0
    <2>2. PICK x : x = p[m - 1]
      OBVIOUS
    <2>3. IsCache(x, S) /\ Covered(x) /\ BytesHeld(x.chunks) <= BytesHeld(g.chunks)
      BY <1>2, <1>5, <2>1, <2>2
    <2>4. PICK i \in 1 .. Len(x.chunks) : x.chunks[i] = g.chunks[m]
      BY <1>2, <2>1, <2>2
    <2>5. CASE g.chunks[m].key \notin keys
      BY <1>1, <2>1, <2>2, <2>3, <2>5
    <2>6. CASE g.chunks[m].key \in keys
      <3>1. PICK y : y = Removed(x, x.chunks[i])
        OBVIOUS
      <3>2. p[m] = y
        BY <1>1, <2>2, <2>4, <2>6, <3>1
      <3>3. y.chunks = RemoveAt(x.chunks, i) /\ y.used_bytes = saturating_sub(x.used_bytes, x.chunks[i].len)
        BY <2>3, <3>1, RemovedIs
      <3>4. x.chunks \in Seq(S) /\ x.used_bytes \in Nat /\ x.chunks[i].len \in Nat
        BY <2>3 DEF IsCache, Sized
      <3>5. /\ BytesHeld(x.chunks) \in Nat /\ BytesHeld(y.chunks) \in Nat
            /\ BytesHeld(x.chunks) = BytesHeld(y.chunks) + x.chunks[i].len
        BY <3>3, <3>4, HeldRemove
      <3>6. Covered(y) /\ BytesHeld(y.chunks) <= BytesHeld(g.chunks)
        BY <1>0, <2>3, <3>3, <3>4, <3>5, SMTT(60) DEF Covered, saturating_sub
      <3> QED BY <2>1, <3>2, <3>6
    <2> QED BY <2>5, <2>6
  <1> HIDE DEF I
  <1>6. \A m \in 0 .. n : m \in I
    BY <1>0, <1>4, <1>5, Upward
  <1> QED BY <1>6 DEF I, p

(* Eviction and dropping. *)
LEMMA EvictCovers ==
    ASSUME NEW S, Sized(S), NEW g, IsCache(g, S), Covered(g), NEW n \in Nat,
           NEW h, h = EvictFor(g, n)
    PROVE  Covered(h)
  <1>1. Len(g.chunks) \in Nat
    BY DEF IsCache
  <1>2. PICK keys : keys = KeysOf(g.chunks)
    OBVIOUS
  <1>3. PICK after : after = PopEach(g, keys)
    OBVIOUS
  <1>4. PICK k \in 0 .. Len(g.chunks) :
          /\ EvictFor(g, n) = after[k]
          /\ \A j \in 0 .. k - 1 : ~(after[j].used_bytes + n <= g.limit)
    BY <1>1, <1>2, <1>3, EvictStops
  <1> QED BY <1>3, <1>4, PopEachCovers

LEMMA PopAllCovers ==
    ASSUME NEW S, Sized(S), NEW g, IsCache(g, S), Covered(g), NEW keys, NEW h, h = PopAll(g, keys)
    PROVE  Covered(h) /\ BytesHeld(h.chunks) <= BytesHeld(g.chunks)
  <1>1. PICK n \in 0 .. Len(g.chunks) : n = Len(g.chunks)
    BY DEF IsCache
  <1>2. h = PopEach(g, keys)[n]
    BY <1>1 DEF PopAll
  <1> QED BY <1>2, PopEachCovers

(* A hit moves a slot and nothing else. *)
LEMMA TouchHeld ==
    ASSUME NEW S, Sized(S), NEW g, IsCache(g, S), NEW key, NEW h, h = Touch(g, key)
    PROVE  BytesHeld(h.chunks) = BytesHeld(g.chunks)
  <1>1. CASE ~Holds(g, key)
    BY <1>1 DEF Touch
  <1>2. CASE Holds(g, key)
    <2>0. PICK c : c = g.chunks
      OBVIOUS
    <2>1. PICK i \in 1 .. Len(c) : c[i].key = key
      BY <1>2, <2>0 DEF Holds, IsCache
    <2>2. c \in Seq(S) /\ c[i] \in S /\ Distinct(c) /\ c[i].len \in Nat
      BY <2>0, <2>1 DEF IsCache, Sized
    <2>3. PICK rest : rest = RemoveAt(c, i)
      OBVIOUS
    <2>4. h.chunks = Append(rest, c[i])
      <3>1. SlotOf(g, key) = c[i] /\ OtherThan(c, key) = rest
        BY <2>0, <2>1, <2>2, <2>3, AtIs DEF SlotOf
      <3> QED BY <1>2, <2>0, <3>1 DEF Touch, IsCache
    <2>5. rest \in Seq(S)
      BY <2>2, <2>3, RemovedAt
    <2>6. BytesHeld(Append(rest, c[i])) = BytesHeld(rest) + c[i].len
      BY <2>2, <2>5, HeldAppend
    <2>7. BytesHeld(c) = BytesHeld(rest) + c[i].len
      BY <2>2, <2>3, HeldRemove
    <2> QED BY <2>0, <2>4, <2>6, <2>7
  <1> QED BY <1>1, <1>2

(* After an insert the map is within the budget, whatever the LruCache      *)
(* dropped by itself and the books did not notice.                         *)
LEMMA InsertHeld ==
    ASSUME NEW S, Sized(S), NEW g, IsCache(g, S), Covered(g), NEW slot \in S, slot.len <= g.limit,
           \A i \in 1 .. Len(g.chunks) : g.chunks[i].key # slot.key,
           NEW h, h = Insert(g, slot)
    PROVE  Covered(h) /\ BytesHeld(h.chunks) <= h.limit
  <1>1. PICK e : e = EvictFor(g, slot.len)
    OBVIOUS
  <1>2. slot.len \in Nat
    BY DEF Sized
  <1>3. /\ IsCache(e, S) /\ e.limit = g.limit /\ From(e.chunks, g.chunks)
        /\ e.used_bytes + slot.len <= g.limit \/ Len(e.chunks) = 0
    BY <1>1, <1>2, EvictIs
  <1>4. Covered(e)
    BY <1>1, <1>2, EvictCovers
  <1>5. PICK c : c = e.chunks
    OBVIOUS
  <1>6. c \in Seq(S) /\ DOMAIN c = 1 .. Len(c) /\ Len(c) \in Nat /\ e.used_bytes \in Nat /\ e.limit \in Nat
    BY <1>3, <1>5 DEF IsCache
  <1>7. OtherThan(c, slot.key) = c
    <2>1. \A i \in 1 .. Len(c) : c[i].key # slot.key
      BY <1>3, <1>5 DEF From
    <2> QED BY <1>6, <2>1 DEF OtherThan
  <1>8. PICK cap : cap = lru_capacity_for(e.limit)
    OBVIOUS
  <1>9. cap \in Nat \ {0}
    BY <1>6, <1>8, CapacityIs
  <1>10. PICK kept : kept = IF Len(c) >= cap THEN Tail(c) ELSE c
    OBVIOUS
  <1>11. kept \in Seq(S) /\ BytesHeld(kept) <= BytesHeld(c) /\ BytesHeld(c) \in Nat /\ BytesHeld(kept) \in Nat
    <2>1. BytesHeld(c) \in Nat
      BY <1>6, HeldType
    <2>2. CASE Len(c) >= cap
      <3>1. 1 \in 0 .. Len(c)
        BY <1>6, <1>9, <2>2
      <3>2. kept = SubSeq(c, 1 + 1, Len(c))
        BY <1>6, <1>10, <2>2
      <3>3. kept \in Seq(S)
        BY <1>6, <3>1, <3>2
      <3>4. BytesHeld(kept) <= BytesHeld(c)
        BY <1>6, <3>1, <3>2, HeldSuffix
      <3> QED BY <2>1, <3>3, <3>4, HeldType
    <2>3. CASE ~(Len(c) >= cap)
      BY <1>6, <1>10, <2>1, <2>3
    <2> QED BY <2>2, <2>3
  <1>12. h = Credit(Put(e, slot), slot)
    BY <1>1 DEF Insert
  <1>13. Put(e, slot) = [e EXCEPT !.chunks = Append(kept, slot)]
    BY <1>5, <1>7, <1>8, <1>10 DEF Put
  <1>14. h.chunks = Append(kept, slot) /\ h.used_bytes = e.used_bytes + slot.len /\ h.limit = e.limit
    <2>1. PICK p : p = Put(e, slot)
      OBVIOUS
    <2>2. p.chunks = Append(kept, slot) /\ p.used_bytes = e.used_bytes /\ p.limit = e.limit
          /\ p = [limit |-> p.limit, used_bytes |-> p.used_bytes, chunks |-> p.chunks,
                  bytes_by_attribution |-> p.bytes_by_attribution]
      BY <1>3, <1>13, <2>1 DEF IsCache
    <2> QED BY <1>12, <2>1, <2>2 DEF Credit
  <1>15. BytesHeld(h.chunks) = BytesHeld(kept) + slot.len
    BY <1>11, <1>14, HeldAppend
  <1>16. Covered(h)
    BY <1>2, <1>4, <1>5, <1>6, <1>11, <1>14, <1>15 DEF Covered
  <1>17. BytesHeld(h.chunks) <= h.limit
    <2>1. CASE e.used_bytes + slot.len <= g.limit
      BY <1>2, <1>3, <1>4, <1>5, <1>6, <1>11, <1>14, <1>15, <2>1 DEF Covered
    <2>2. CASE Len(e.chunks) = 0
      <3>1. BytesHeld(c) = 0
        BY <1>5, <2>2, HeldNone
      <3> QED BY <1>2, <1>3, <1>6, <1>11, <1>14, <1>15, <3>1
    <2> QED BY <1>3, <2>1, <2>2
  <1> QED BY <1>16, <1>17

LEMMA FillHeld ==
    ASSUME NEW S, Sized(S), NEW g, IsCache(g, S), Covered(g), BytesHeld(g.chunks) <= g.limit,
           NEW slot \in S, slot.len <= g.limit, NEW h, h = fill_chunk(g, slot)
    PROVE  Covered(h) /\ BytesHeld(h.chunks) <= h.limit
  <1>1. CASE Holds(g, slot.key)
    <2>1. h = Touch(g, slot.key)
      BY <1>1 DEF fill_chunk
    <2>2. h.limit = g.limit /\ h.used_bytes = g.used_bytes
      BY <2>1, TouchIs
    <2>3. BytesHeld(h.chunks) = BytesHeld(g.chunks)
      BY <2>1, TouchHeld
    <2> QED BY <2>2, <2>3 DEF Covered
  <1>2. CASE ~Holds(g, slot.key)
    <2>1. h = Insert(g, slot)
      BY <1>2 DEF fill_chunk
    <2>2. \A i \in 1 .. Len(g.chunks) : g.chunks[i].key # slot.key
      BY <1>2 DEF Holds, IsCache
    <2> QED BY <2>1, <2>2, InsertHeld
  <1> QED BY <1>1, <1>2

LEMMA LimitHeld ==
    ASSUME NEW S, Sized(S), NEW g, IsCache(g, S), Covered(g), NEW limit \in Nat,
           NEW h, h = set_limit(g, limit)
    PROVE  Covered(h) /\ BytesHeld(h.chunks) <= h.limit
  <1>1. PICK m : m = [g EXCEPT !.limit = limit]
    OBVIOUS
  <1>2. /\ IsCache(m, S) /\ m.limit = limit /\ Covered(m)
    BY <1>1 DEF IsCache, Covered
  <1>3. PICK e : e = EvictFor(m, 0)
    OBVIOUS
  <1>4. /\ IsCache(e, S) /\ e.limit = limit
        /\ e.used_bytes + 0 <= limit \/ Len(e.chunks) = 0
        /\ Covered(e)
    <2>1. PICK z \in Nat : z = 0
      OBVIOUS
    <2> QED BY <1>2, <1>3, <2>1, EvictIs, EvictCovers
  <1>5. PICK c : c = e.chunks
    OBVIOUS
  <1>6. c \in Seq(S) /\ Len(c) \in Nat /\ e.used_bytes \in Nat /\ BytesHeld(c) \in Nat
    BY <1>4, <1>5, HeldType DEF IsCache
  <1>7. PICK cap : cap = lru_capacity_for(limit)
    OBVIOUS
  <1>8. cap \in Nat
    BY <1>7, CapacityIs
  <1>9. PICK kept : kept = IF Len(c) <= cap THEN c ELSE SubSeq(c, Len(c) - cap + 1, Len(c))
    OBVIOUS
  <1>10. BytesHeld(kept) <= BytesHeld(c) /\ BytesHeld(kept) \in Nat
    <2>1. CASE Len(c) <= cap
      BY <1>6, <1>9, <2>1
    <2>2. CASE ~(Len(c) <= cap)
      <3>0. Len(c) - cap \in 0 .. Len(c)
        BY <1>6, <1>8, <2>2
      <3>1. PICK d \in 0 .. Len(c) : d = Len(c) - cap
        BY <3>0
      <3>2. kept = SubSeq(c, d + 1, Len(c))
        BY <1>9, <2>2, <3>1
      <3>3. kept \in Seq(S)
        BY <1>6, <3>2
      <3> QED BY <1>6, <3>2, <3>3, HeldSuffix, HeldType
    <2> QED BY <2>1, <2>2
  <1>11. h = [e EXCEPT !.chunks = kept]
    BY <1>1, <1>3, <1>5, <1>7, <1>9 DEF set_limit, Resize
  <1>12. h.chunks = kept /\ h.used_bytes = e.used_bytes /\ h.limit = limit
    BY <1>4, <1>11 DEF IsCache
  <1>13. Covered(h)
    BY <1>4, <1>5, <1>6, <1>10, <1>12 DEF Covered
  <1>14. BytesHeld(kept) <= limit
    <2>1. CASE e.used_bytes + 0 <= limit
      BY <1>4, <1>5, <1>6, <1>10, <2>1 DEF Covered
    <2>2. CASE Len(e.chunks) = 0
      <3>1. BytesHeld(c) = 0
        BY <1>5, <2>2, HeldNone
      <3> QED BY <1>10, <3>1
    <2> QED BY <1>4, <2>1, <2>2
  <1> QED BY <1>12, <1>13, <1>14

-----------------------------------------------------------------------------
(* Chunks of a source, and keys that stay. *)

(* A chunk up to the last one of a source has between one byte and a full   *)
(* chunk.                                                                  *)
LEMMA ChunkLenIs ==
    ASSUME NEW len \in Nat, NEW last \in ChunksOf(len), NEW c \in Nat, c <= last
    PROVE  ChunkLen(len, c) \in 1 .. CHUNK_SIZE_BYTES
  <1> DEFINE K == CHUNK_SIZE_BYTES
  <1>1. K \in Nat /\ K # 0 /\ last \in Nat
    BY CacheConstants DEF ChunksOf
  <1>2. last * K < len
    BY DEF ChunksOf
  <1> HIDE DEF K
  <1>3. PICK d \in Nat : last = c + d
    <2>1. last - c \in Nat /\ last = c + (last - c)
      BY <1>1
    <2> QED BY <2>1
  <1>4. c * K \in Nat /\ d * K \in Nat /\ last * K = c * K + d * K /\ (c + 1) * K = c * K + K
    BY <1>1, <1>3
  <1>5. c * K < len
    BY <1>2, <1>4
  <1> QED BY <1>1, <1>4, <1>5 DEF ChunkLen, K

(* A hit keeps every key. *)
LEMMA TouchHolds ==
    ASSUME NEW S, NEW g, IsCache(g, S), NEW key, NEW other, Holds(g, other),
           NEW h, h = Touch(g, key)
    PROVE  Holds(h, other)
  <1>1. CASE ~Holds(g, key)
    BY <1>1 DEF Touch
  <1>2. CASE Holds(g, key)
    <2>0. PICK c : c = g.chunks
      OBVIOUS
    <2>1. PICK i \in 1 .. Len(c) : c[i].key = key
      BY <1>2, <2>0 DEF Holds, IsCache
    <2>2. c \in Seq(S) /\ c[i] \in S /\ Distinct(c)
      BY <2>0, <2>1 DEF IsCache
    <2>3. PICK rest : rest = RemoveAt(c, i)
      OBVIOUS
    <2>4. h.chunks = Append(rest, c[i])
      <3>1. SlotOf(g, key) = c[i] /\ OtherThan(c, key) = rest
        BY <2>0, <2>1, <2>2, <2>3, AtIs DEF SlotOf
      <3> QED BY <1>2, <2>0, <3>1 DEF Touch, IsCache
    <2>5. /\ rest \in Seq(S) /\ Len(rest) = Len(c) - 1
          /\ \A j \in 1 .. Len(c) : j # i => \E k \in 1 .. Len(c) - 1 : rest[k] = c[j]
      <3>1. /\ RemoveAt(c, i) \in Seq(S) /\ Len(RemoveAt(c, i)) = Len(c) - 1
            /\ \A j \in 1 .. Len(c) :
                  j # i => \E k \in 1 .. Len(c) - 1 : RemoveAt(c, i)[k] = c[j]
        BY <2>2, RestOf
      <3> QED BY <2>3, <3>1
    <2>6. PICK j \in 1 .. Len(c) : c[j].key = other
      BY <2>0 DEF Holds, IsCache
    <2>7. PICK m \in Nat : m = Len(rest)
      BY <2>5
    <2>8. PICK all : all = Append(rest, c[i])
      OBVIOUS
    <2>9. DOMAIN all = 1 .. m + 1 /\ all[m + 1] = c[i] /\ \A k \in 1 .. m : all[k] = rest[k]
      BY <2>2, <2>5, <2>7, <2>8
    <2>10. \E k \in 1 .. m + 1 : all[k].key = other
      <3>1. CASE j = i
        BY <2>6, <2>9, <3>1
      <3>2. CASE j # i
        <4>1. PICK k \in 1 .. m : rest[k] = c[j]
          BY <2>5, <2>7, <3>2
        <4> QED BY <2>6, <2>9, <4>1
      <3> QED BY <3>1, <3>2
    <2> QED BY <2>4, <2>8, <2>9, <2>10 DEF Holds
  <1> QED BY <1>1, <1>2

-----------------------------------------------------------------------------
(* A cache of one source, whose last chunk alone may be short, never meets  *)
(* the LruCache's bound on entries: the budget is reached first.           *)

OneTail(S) ==
    \A a, b \in S : a.len < CHUNK_SIZE_BYTES /\ b.len < CHUNK_SIZE_BYTES => a.key = b.key

(* Slots of which at most one is short. *)
LEMMA OneShort ==
    ASSUME NEW S, Sized(S), NEW slots \in Seq(S), NEW K \in Nat \ {0},
           \A i, j \in 1 .. Len(slots) : slots[i].len < K /\ slots[j].len < K => i = j
    PROVE  Len(slots) * K < BytesHeld(slots) + K
  <1> DEFINE n == Len(slots)
             w == [i \in 1 .. Len(slots) |-> slots[i].len]
  <1>1. n \in Nat /\ \A i \in 1 .. n : slots[i].len \in Nat \ {0}
    BY DEF Sized
  <1>2. w \in Seq(Nat) /\ Len(w) = n /\ \A i \in 1 .. n : w[i] = slots[i].len
    BY <1>1
  <1>3. BytesHeld(slots) = Total(w)
    BY DEF BytesHeld
  <1> HIDE DEF w
  <1>4. PICK t \in [0 .. n -> Nat] :
          t[0] = 0 /\ (\A k \in 1 .. n : t[k] = t[k - 1] + w[k]) /\ Total(w) = t[n]
    BY <1>2, TotalRuns
  <1> HIDE DEF n
  <1> DEFINE NoneShort(k) == \A i \in 1 .. k : ~(slots[i].len < K)
             I == {k \in 0 .. n : k * K < t[k] + K /\ (NoneShort(k) => k * K <= t[k])}
  <1>5. 0 \in I
    BY <1>1, <1>4
  <1>6. ASSUME NEW k \in 1 .. n, k - 1 \in I PROVE k \in I
    <2>1. PICK m \in Nat : m = k - 1 /\ k = m + 1 /\ m \in 0 .. n /\ k \in 0 .. n
      BY <1>1
    <2>2. PICK x \in Nat : x = m * K /\ k * K = x + K
      <3>1. m * K \in Nat /\ (m + 1) * K = m * K + K
        OBVIOUS
      <3> QED BY <2>1, <3>1
    <2>3. x < t[m] + K /\ (NoneShort(m) => x <= t[m])
      BY <1>6, <2>1, <2>2
    <2>4. t[k] = t[m] + slots[k].len /\ t[m] \in Nat /\ slots[k].len \in Nat \ {0}
      BY <1>1, <1>2, <1>4, <2>1
    <2>5. CASE slots[k].len < K
      <3>1. NoneShort(m)
        <4> SUFFICES ASSUME NEW i \in 1 .. m, slots[i].len < K PROVE FALSE
          OBVIOUS
        <4>1. i \in 1 .. n /\ i # k
          BY <1>1, <2>1
        <4> QED BY <2>5, <4>1 DEF n
      <3>2. ~NoneShort(k)
        BY <2>5, <2>1
      <3> HIDE DEF NoneShort
      <3>3. x + K < t[k] + K
        BY <2>3, <2>4, <3>1
      <3> QED BY <2>1, <2>2, <3>2, <3>3
    <2>6. CASE ~(slots[k].len < K)
      <3>1. NoneShort(k) => NoneShort(m)
        BY <2>1
      <3> HIDE DEF NoneShort
      <3>2. x + K < t[k] + K /\ (NoneShort(k) => x + K <= t[k])
        BY <2>3, <2>4, <2>6, <3>1
      <3> QED BY <2>1, <2>2, <3>2
    <2> QED BY <2>5, <2>6
  <1> HIDE DEF I
  <1>7. n \in I
    <2>1. \A k \in 0 .. n : k \in I
      BY <1>1, <1>5, <1>6, Upward
    <2> QED BY <1>1, <2>1
  <1>8. n * K < t[n] + K
    BY <1>7 DEF I
  <1> QED BY <1>3, <1>4, <1>8 DEF n

(* n whole chunks below the limit are below the capacity. *)
LEMMA BelowCap ==
    ASSUME NEW n \in Nat, NEW limit \in Nat, n * CHUNK_SIZE_BYTES < limit
    PROVE  n < lru_capacity_for(limit)
  <1> DEFINE K == CHUNK_SIZE_BYTES
  <1>1. K \in Nat \ {0} /\ LRU_SLACK \in Nat \ {0}
    BY CacheConstants
  <1>2. n * K < limit
    OBVIOUS
  <1> HIDE DEF K
  <1>3. PICK q \in Nat : q = limit \div K
    BY <1>1
  <1>6. limit < q * K + K
    BY <1>1, <1>3
  <1>4. n <= q
    <2> SUFFICES ASSUME n > q PROVE FALSE
      OBVIOUS
    <2>1. PICK d \in Nat : n = q + 1 + d
      <3>1. n - (q + 1) \in Nat /\ n = q + 1 + (n - (q + 1))
        OBVIOUS
      <3> QED BY <3>1
    <2>2. n * K = q * K + K + d * K /\ d * K \in Nat /\ q * K \in Nat /\ n * K \in Nat
      BY <1>1, <2>1
    <2> QED BY <1>1, <1>2, <1>6, <2>2
  <1>5. lru_capacity_for(limit) = q + LRU_SLACK
    BY <1>3 DEF lru_capacity_for, K
  <1> QED BY <1>1, <1>4, <1>5

(* What leaves room for one more slot is below the capacity. *)
LEMMA RoomIsBelow ==
    ASSUME NEW S, Sized(S), OneTail(S), NEW g, IsCache(g, S), BooksBalance(g), NEW slot \in S,
           \A i \in 1 .. Len(g.chunks) : g.chunks[i].key # slot.key,
           g.used_bytes + slot.len <= g.limit \/ Len(g.chunks) = 0
    PROVE  ~Full(g)
  <1> DEFINE c == g.chunks
             n == Len(c)
             K == CHUNK_SIZE_BYTES
  <1>1. c \in Seq(S) /\ Distinct(c) /\ n \in Nat /\ g.limit \in Nat
    BY DEF IsCache
  <1>2. CASE n = 0
    BY <1>1, <1>2, CapacityIs DEF Full
  <1>3. CASE n # 0
    <2>1. PICK more : more = Append(c, slot)
      OBVIOUS
    <2>2. more \in Seq(S) /\ Len(more) = n + 1 /\ Distinct(more)
      BY <1>1, <2>1, MoreOf
    <2>3. \A i, j \in 1 .. Len(more) : more[i].len < K /\ more[j].len < K => i = j
      <3> SUFFICES ASSUME NEW i \in 1 .. Len(more), NEW j \in 1 .. Len(more),
                          more[i].len < K, more[j].len < K
                   PROVE  i = j
        OBVIOUS
      <3>1. more[i] \in S /\ more[j] \in S
        BY <2>2
      <3>2. more[i].key = more[j].key
        BY <3>1 DEF OneTail
      <3> QED BY <2>2, <3>2 DEF Distinct
    <2>4. K \in Nat \ {0}
      BY CacheConstants
    <2>5. PICK held \in Nat : held = BytesHeld(c)
      BY <1>1, HeldType
    <2>6. BytesHeld(more) = held + slot.len /\ slot.len \in Nat
      BY <1>1, <2>1, <2>5, HeldAppend DEF Sized
    <2>7. held + slot.len <= g.limit
      BY <1>3, <2>5 DEF BooksBalance
    <2> HIDE DEF K
    <2>8. Len(more) * K < BytesHeld(more) + K
      BY <2>2, <2>3, <2>4, OneShort
    <2> HIDE DEF n, c
    <2>9. n * K < g.limit
      <3>1. (n + 1) * K = n * K + K /\ n * K \in Nat
        BY <1>1, <2>4
      <3> QED BY <1>1, <2>2, <2>4, <2>6, <2>7, <2>8, <3>1
    <2>10. n < lru_capacity_for(g.limit)
      BY <1>1, <2>9, BelowCap DEF K
    <2>11. lru_capacity_for(g.limit) \in Nat
      BY <1>1, CapacityIs
    <2> QED BY <1>1, <2>10, <2>11 DEF Full, n, c
  <1> QED BY <1>2, <1>3

(* Then every insert keeps the books. *)
LEMMA InsertBooks ==
    ASSUME NEW S, Sized(S), OneTail(S), NEW g, IsCache(g, S), BooksBalance(g),
           NEW slot \in S, slot.len <= g.limit,
           \A i \in 1 .. Len(g.chunks) : g.chunks[i].key # slot.key,
           NEW h, h = Insert(g, slot)
    PROVE  BooksBalance(h) /\ h.used_bytes <= h.limit
  <1>1. PICK e : e = EvictFor(g, slot.len)
    OBVIOUS
  <1>2. slot.len \in Nat
    BY DEF Sized
  <1>3. /\ IsCache(e, S) /\ e.limit = g.limit /\ From(e.chunks, g.chunks) /\ BooksBalance(e)
        /\ e.used_bytes + slot.len <= e.limit \/ Len(e.chunks) = 0
    BY <1>1, <1>2, EvictIs
  <1>4. \A i \in 1 .. Len(e.chunks) : e.chunks[i].key # slot.key
    BY <1>3 DEF From
  <1>5. ~Full(e)
    BY <1>3, <1>4, RoomIsBelow
  <1> QED BY <1>1, <1>5, InsertIs

LEMMA FillBooks ==
    ASSUME NEW S, Sized(S), OneTail(S), NEW g, IsCache(g, S), BooksBalance(g),
           g.used_bytes <= g.limit, NEW slot \in S, slot.len <= g.limit,
           NEW h, h = fill_chunk(g, slot)
    PROVE  BooksBalance(h) /\ h.used_bytes <= h.limit
  <1>1. CASE Holds(g, slot.key)
    <2>1. h = Touch(g, slot.key)
      BY <1>1 DEF fill_chunk
    <2> QED BY <2>1, TouchIs
  <1>2. CASE ~Holds(g, slot.key)
    <2>1. h = Insert(g, slot)
      BY <1>2 DEF fill_chunk
    <2>2. \A i \in 1 .. Len(g.chunks) : g.chunks[i].key # slot.key
      BY <1>2 DEF Holds, IsCache
    <2> QED BY <2>1, <2>2, InsertBooks
  <1> QED BY <1>1, <1>2

LEMMA StoreBooks ==
    ASSUME NEW S, Sized(S), OneTail(S), NEW g, IsCache(g, S), BooksBalance(g),
           NEW slot \in S, slot.len <= g.limit, NEW h, h = store_chunk(g, slot)
    PROVE  BooksBalance(h) /\ h.used_bytes <= h.limit
  <1>1. PICK p : p = Popped(g, slot.key)
    OBVIOUS
  <1>2. /\ IsCache(p, S) /\ p.limit = g.limit /\ BooksBalance(p)
        /\ \A i \in 1 .. Len(p.chunks) : p.chunks[i].key # slot.key
    BY <1>1, PoppedIs
  <1>3. h = Insert(p, slot) /\ slot.len <= p.limit
    BY <1>1, <1>2 DEF store_chunk
  <1> QED BY <1>2, <1>3, InsertBooks

-----------------------------------------------------------------------------
(* While there is room, whatever enters pushes nothing out. *)

LEMMA EvictRoom ==
    ASSUME NEW S, Sized(S), NEW g, IsCache(g, S), NEW n \in Nat, g.used_bytes + n <= g.limit
    PROVE  EvictFor(g, n) = g
  <1>1. Len(g.chunks) \in Nat
    BY DEF IsCache
  <1>2. PICK keys : keys = KeysOf(g.chunks)
    OBVIOUS
  <1>3. PICK after : after = PopEach(g, keys)
    OBVIOUS
  <1>4. PICK k \in 0 .. Len(g.chunks) :
          /\ EvictFor(g, n) = after[k]
          /\ \A j \in 0 .. k - 1 : ~(after[j].used_bytes + n <= g.limit)
    BY <1>1, <1>2, <1>3, EvictStops
  <1>5. after[0] = g
    BY <1>1, <1>3, PopEachRuns
  <1>6. k = 0
    BY <1>1, <1>4, <1>5
  <1> QED BY <1>4, <1>5, <1>6

LEMMA InsertHolds ==
    ASSUME NEW S, Sized(S), OneTail(S), NEW g, IsCache(g, S), BooksBalance(g), NEW slot \in S,
           \A i \in 1 .. Len(g.chunks) : g.chunks[i].key # slot.key,
           g.used_bytes + slot.len <= g.limit,
           NEW h, h = Insert(g, slot), NEW key, key = slot.key \/ Holds(g, key)
    PROVE  Holds(h, key)
  <1>1. slot.len \in Nat
    BY DEF Sized
  <1>2. ~Full(g)
    BY RoomIsBelow
  <1>3. h = Credit(Put(g, slot), slot)
    BY <1>1, EvictRoom DEF Insert
  <1>4. PICK c : c = g.chunks
    OBVIOUS
  <1>5. c \in Seq(S) /\ Len(c) \in Nat /\ DOMAIN c = 1 .. Len(c)
    BY <1>4 DEF IsCache
  <1>6. h.chunks = Append(c, slot)
    <2>1. OtherThan(c, slot.key) = c
      BY <1>4, <1>5 DEF OtherThan
    <2>2. ~(Len(c) >= lru_capacity_for(g.limit))
      BY <1>2, <1>4 DEF Full
    <2>3. Put(g, slot) = [g EXCEPT !.chunks = Append(c, slot)]
      BY <1>4, <2>1, <2>2 DEF Put
    <2>4. PICK put : put = Put(g, slot)
      OBVIOUS
    <2>5. put.chunks = Append(c, slot)
          /\ put = [limit |-> put.limit, used_bytes |-> put.used_bytes, chunks |-> put.chunks,
                    bytes_by_attribution |-> put.bytes_by_attribution]
      BY <2>3, <2>4 DEF IsCache
    <2>6. Credit(put, slot).chunks = put.chunks
      BY <2>5 DEF Credit
    <2> QED BY <1>3, <2>4, <2>5, <2>6
  <1>7. PICK n \in Nat : n = Len(c)
    BY <1>5
  <1>8. PICK all : all = Append(c, slot)
    OBVIOUS
  <1>9. DOMAIN all = 1 .. n + 1 /\ all[n + 1] = slot /\ \A i \in 1 .. n : all[i] = c[i]
    BY <1>5, <1>7, <1>8
  <1>10. \E i \in 1 .. n + 1 : all[i].key = key
    <2>1. CASE key = slot.key
      BY <1>9, <2>1
    <2>2. CASE Holds(g, key)
      <3>1. PICK i \in 1 .. n : c[i].key = key
        BY <1>4, <1>5, <1>7, <2>2 DEF Holds
      <3> QED BY <1>9, <3>1
    <2> QED BY <2>1, <2>2
  <1> QED BY <1>6, <1>8, <1>9, <1>10 DEF Holds

LEMMA FillKeepsAll ==
    ASSUME NEW S, Sized(S), OneTail(S), NEW g, IsCache(g, S), BooksBalance(g), NEW slot \in S,
           g.used_bytes + slot.len <= g.limit, NEW h, h = fill_chunk(g, slot),
           NEW key, Holds(g, key)
    PROVE  Holds(h, key)
  <1>1. CASE Holds(g, slot.key)
    <2>1. h = Touch(g, slot.key)
      BY <1>1 DEF fill_chunk
    <2> QED BY <2>1, TouchHolds
  <1>2. CASE ~Holds(g, slot.key)
    <2>1. h = Insert(g, slot)
      BY <1>2 DEF fill_chunk
    <2>2. \A i \in 1 .. Len(g.chunks) : g.chunks[i].key # slot.key
      BY <1>2 DEF Holds, IsCache
    <2> QED BY <2>1, <2>2, InsertHolds
  <1> QED BY <1>1, <1>2

(* A pop takes its own key only, and never raises used_bytes. *)
LEMMA PoppedHolds ==
    ASSUME NEW S, Sized(S), NEW g, IsCache(g, S), NEW key, NEW h, h = Popped(g, key)
    PROVE  /\ h.used_bytes <= g.used_bytes
           /\ \A other : Holds(g, other) /\ other # key => Holds(h, other)
  <1>0. g.used_bytes \in Nat
    BY DEF IsCache
  <1>1. CASE ~Holds(g, key)
    BY <1>0, <1>1 DEF Popped
  <1>2. CASE Holds(g, key)
    <2>0. PICK c : c = g.chunks
      OBVIOUS
    <2>1. PICK i \in 1 .. Len(c) : c[i].key = key
      BY <1>2, <2>0 DEF Holds, IsCache
    <2>2. c \in Seq(S) /\ c[i] \in S /\ Distinct(c) /\ c[i].len \in Nat
      BY <2>0, <2>1 DEF IsCache, Sized
    <2>3. PICK rest : rest = RemoveAt(c, i)
      OBVIOUS
    <2>4. h.chunks = rest /\ h.used_bytes = saturating_sub(g.used_bytes, c[i].len)
      <3>1. SlotOf(g, key) = g.chunks[i]
        BY <2>0, <2>1, <2>2, AtIs DEF SlotOf
      <3>2. h = Removed(g, g.chunks[i])
        BY <1>2, <3>1 DEF Popped
      <3> QED BY <2>0, <2>1, <2>3, <3>2, RemovedIs
    <2>5. /\ rest \in Seq(S) /\ Len(rest) = Len(c) - 1
          /\ \A j \in 1 .. Len(c) : j # i => \E k \in 1 .. Len(c) - 1 : rest[k] = c[j]
      <3>1. /\ RemoveAt(c, i) \in Seq(S) /\ Len(RemoveAt(c, i)) = Len(c) - 1
            /\ \A j \in 1 .. Len(c) :
                  j # i => \E k \in 1 .. Len(c) - 1 : RemoveAt(c, i)[k] = c[j]
        BY <2>2, RestOf
      <3> QED BY <2>3, <3>1
    <2>6. ASSUME NEW other, Holds(g, other), other # key PROVE Holds(h, other)
      <3>1. PICK j \in 1 .. Len(c) : c[j].key = other
        BY <2>0, <2>6 DEF Holds, IsCache
      <3>2. PICK k \in 1 .. Len(c) - 1 : rest[k] = c[j]
        BY <2>1, <2>5, <2>6, <3>1
      <3> QED BY <2>4, <2>5, <3>1, <3>2 DEF Holds
    <2>7. h.used_bytes <= g.used_bytes
      BY <1>0, <2>2, <2>4 DEF saturating_sub
    <2> QED BY <2>6, <2>7
  <1> QED BY <1>1, <1>2

LEMMA StoreKeepsAll ==
    ASSUME NEW S, Sized(S), OneTail(S), NEW g, IsCache(g, S), BooksBalance(g), NEW slot \in S,
           g.used_bytes + slot.len <= g.limit, NEW h, h = store_chunk(g, slot),
           NEW key, Holds(g, key)
    PROVE  Holds(h, key)
  <1>1. PICK p : p = Popped(g, slot.key)
    OBVIOUS
  <1>2. /\ IsCache(p, S) /\ p.limit = g.limit /\ BooksBalance(p)
        /\ \A i \in 1 .. Len(p.chunks) : p.chunks[i].key # slot.key
    BY <1>1, PoppedIs
  <1>3. p.used_bytes <= g.used_bytes /\ (key = slot.key \/ Holds(p, key))
    BY <1>1, PoppedHolds
  <1>4. p.used_bytes + slot.len <= p.limit
    <2>1. p.used_bytes \in Nat /\ g.used_bytes \in Nat /\ slot.len \in Nat /\ g.limit \in Nat
      BY <1>2 DEF IsCache, Sized
    <2> QED BY <1>2, <1>3, <2>1
  <1>5. h = Insert(p, slot)
    BY <1>1 DEF store_chunk
  <1> QED BY <1>2, <1>3, <1>4, <1>5, InsertHolds

=============================================================================
