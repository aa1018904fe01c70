-------------------------- MODULE EditorInputProofs --------------------------
(***************************************************************************)
(* Proofs about EditorInput, for every content, clipboard, count and        *)
(* bracket pair, and for any order of keys, clicks, drags, undos, pastes,   *)
(* saves and reloads.  The session's invariant holds under the input too;   *)
(* to it come the types of the keys' state and, for the two digits of a     *)
(* byte, that a nibble pointer left low is remembered where it was left.    *)
(* That no input takes the caret out of the bytes follows motion by motion: *)
(* each of them ends in Reach, inside the bytes if the caret was.           *)
(***************************************************************************)
EXTENDS EditHistoryProofs, VimTexts, FiniteSetTheorems

-----------------------------------------------------------------------------
(* Offsets. *)

(* The least of a set of offsets. *)
LEMMA MinIs ==
    ASSUME NEW S \in SUBSET Nat, S # {}
    PROVE  Min(S) \in S /\ Min(S) \in Nat /\ \A x \in S : Min(S) <= x
  <1>1. \E m \in S : \A k \in S : m <= k
    BY LeastNatural
  <1> QED BY <1>1 DEF Min

(* The greatest of a set of offsets. *)
LEMMA MaxIs ==
    ASSUME NEW n \in Nat, NEW S \in SUBSET (0 .. n), S # {}
    PROVE  Max(S) \in S /\ Max(S) \in Nat /\ Max(S) <= n /\ \A x \in S : x <= Max(S)
  <1> DEFINE T == {n - x : x \in S}
  <1>0. \A x \in S : x \in Nat /\ x <= n /\ n - x \in Nat
    OBVIOUS
  <1>1. T \in SUBSET Nat /\ T # {}
    BY <1>0
  <1>2. PICK m \in T : \A k \in T : m <= k
    <2> HIDE DEF T
    <2> QED BY <1>1, LeastNatural
  <1>3. PICK x \in S : m = n - x
    BY <1>2
  <1>4. \A y \in S : x >= y
    <2> TAKE y \in S
    <2>1. n - y \in T /\ y \in 0 .. n /\ x \in 0 .. n
      OBVIOUS
    <2>2. n - x <= n - y
      BY <1>2, <1>3, <2>1
    <2> QED BY <2>1, <2>2
  <1>5. Max(S) \in S /\ \A y \in S : Max(S) >= y
    BY <1>4 DEF Max
  <1> QED BY <1>0, <1>5

(* The last offset of a buffer; 0 of an empty one. *)
LEMMA LastIs ==
    ASSUME NEW buf \in Seq(Byte)
    PROVE  /\ LastOf(buf) \in Nat /\ Len(buf) \in Nat /\ LastOf(buf) <= Len(buf)
           /\ Len(buf) > 0 => LastOf(buf) + 1 = Len(buf)
  BY DEF LastOf, Greater

(* The first stop from i on, or the end. *)
LEMMA FirstFromIs ==
    ASSUME NEW i \in Nat, NEW len \in Nat, NEW stops
    PROVE  /\ FirstFrom(i, len, stops) \in Nat
           /\ i <= FirstFrom(i, len, stops)
           /\ i <= len => FirstFrom(i, len, stops) <= len
  <1>1. CASE i >= len
    BY <1>1 DEF FirstFrom
  <1>2. CASE ~(i >= len)
    <2> DEFINE S == {j \in i .. len : j = len \/ j \in stops}
    <2>1. S \in SUBSET Nat /\ len \in S
      BY <1>2
    <2>2. FirstFrom(i, len, stops) = Min(S)
      BY <1>2 DEF FirstFrom
    <2>3. Min(S) \in S
      <3> HIDE DEF S
      <3> QED BY <2>1, MinIs
    <2> QED BY <2>2, <2>3
  <1> QED BY <1>1, <1>2

(* Where a caret may go that was at cur, in a buffer of that length: not    *)
(* beyond the end, unless it was there already.                            *)
Reach(len, cur) == {o \in Nat : cur <= len => o <= len}

(* What is inside, or not past the caret, is in its reach. *)
LEMMA ReachIs ==
    ASSUME NEW len \in Nat, NEW cur \in Nat, NEW o \in Nat, o <= len \/ o <= cur
    PROVE  o \in Reach(len, cur)
  BY DEF Reach

(* A row of the hex pane begins at an offset. *)
LEMMA RowStartIs ==
    ASSUME NEW cur \in Nat
    PROVE  RowStart(cur) \in Nat
  <1>1. cur \div Columns \in Nat
    BY VimConstants
  <1> QED BY <1>1, VimConstants DEF RowStart

-----------------------------------------------------------------------------
(* Words. *)

(* w. *)
LEMMA WordForwardIs ==
    ASSUME NEW buf \in Seq(Byte), NEW pane, NEW from \in Nat, NEW big
    PROVE  word_forward(buf, pane, from, big) \in Reach(Len(buf), from)
  <1>1. LastOf(buf) \in Nat /\ Len(buf) \in Nat /\ LastOf(buf) <= Len(buf)
    BY LastIs
  <1>2. \A x \in Nat : Lesser(x, LastOf(buf)) \in Nat /\ Lesser(x, LastOf(buf)) <= Len(buf)
    BY <1>1 DEF Lesser
  <1>3. \A S, T : FirstFrom(FirstFrom(from + 1, Len(buf), S), Len(buf), T) \in Nat
    BY <1>1, FirstFromIs
  <1>4. word_forward(buf, pane, from, big) \in Nat
        /\ word_forward(buf, pane, from, big) <= Len(buf)
    BY <1>2, <1>3, SMTT(30) DEF word_forward
  <1> QED BY <1>1, <1>4, ReachIs

(* b and B stop at the start of the file. *)
LEMMA WordBackIs ==
    ASSUME NEW buf \in Seq(Byte), NEW pane, NEW from \in Nat, NEW big
    PROVE  word_back(buf, pane, from, big) \in Reach(Len(buf), from)
  <1>1. Len(buf) \in Nat
    OBVIOUS
  <1>2. CASE from = 0 \/ pane = "Hex"
    <2>1. word_back(buf, pane, from, big) \in Nat /\ word_back(buf, pane, from, big) <= from
      BY <1>2 DEF word_back
    <2> QED BY <1>1, <2>1, ReachIs
  <1>3. CASE from # 0 /\ pane # "Hex"
    <2> DEFINE S == {j \in 0 .. (from - 1) : j = 0 \/ ~IsSpace(buf, j)}
               i == Max(S)
               T == {j \in 0 .. i : j = 0 \/ ClassAt(buf, j - 1, big) # ClassAt(buf, i, big)}
    <2>1. from - 1 \in Nat /\ S \in SUBSET (0 .. (from - 1)) /\ 0 \in S
      BY <1>3
    <2>2. i \in Nat /\ i <= from - 1
      <3> HIDE DEF S
      <3> QED BY <2>1, MaxIs
    <2>3. word_back(buf, pane, from, big) = Max(T)
      BY <1>3 DEF word_back
    <2>4. T \in SUBSET (0 .. i) /\ 0 \in T
      <3> HIDE DEF i
      <3> QED BY <2>2
    <2>5. Max(T) \in Nat /\ Max(T) <= i
      <3> HIDE DEF T, i
      <3> QED BY <2>2, <2>4, MaxIs
    <2> HIDE DEF T, i
    <2>6. Max(T) <= from
      BY <2>2, <2>5
    <2> QED BY <1>1, <2>3, <2>5, <2>6, ReachIs
  <1> QED BY <1>2, <1>3

(* The run of a character class ends inside the bytes. *)
LEMMA RunEndIs ==
    ASSUME NEW buf \in Seq(Byte), NEW i \in Nat, i < Len(buf), NEW big
    PROVE  RunEnd(buf, i, big) \in Nat /\ i <= RunEnd(buf, i, big) /\ RunEnd(buf, i, big) < Len(buf)
  <1> DEFINE S == {j \in i .. LastOf(buf) :
                     j = LastOf(buf) \/ ClassAt(buf, j + 1, big) # ClassAt(buf, i, big)}
  <1>1. LastOf(buf) \in Nat /\ Len(buf) \in Nat /\ LastOf(buf) + 1 = Len(buf)
    BY LastIs
  <1>2. S \in SUBSET Nat /\ LastOf(buf) \in S
    BY <1>1
  <1>3. Min(S) \in S
    <2> HIDE DEF S
    <2> QED BY <1>2, MinIs
  <1>4. RunEnd(buf, i, big) = Min(S)
    BY DEF RunEnd
  <1> QED BY <1>1, <1>3, <1>4

(* e, E and W stop at the last byte. *)
LEMMA WordEndIs ==
    ASSUME NEW buf \in Seq(Byte), NEW pane, NEW from \in Nat, NEW big
    PROVE  word_end_forward(buf, pane, from, big) \in Reach(Len(buf), from)
  <1>1. LastOf(buf) \in Nat /\ Len(buf) \in Nat /\ LastOf(buf) <= Len(buf)
    BY LastIs
  <1> DEFINE i == FirstFrom(from + 1, Len(buf), {j \in 0 .. Len(buf) : ~IsSpace(buf, j)})
  <1>2. i \in Nat
    BY <1>1, FirstFromIs
  <1>3. word_end_forward(buf, pane, from, big) =
           IF pane = "Hex" THEN Lesser(from + 1, LastOf(buf))
           ELSE IF i >= Len(buf) THEN LastOf(buf) ELSE RunEnd(buf, i, big)
    BY DEF word_end_forward
  <1> HIDE DEF i
  <1>4. i < Len(buf) => RunEnd(buf, i, big) \in Nat /\ RunEnd(buf, i, big) < Len(buf)
    BY <1>2, RunEndIs
  <1>5. Lesser(from + 1, LastOf(buf)) \in Nat /\ Lesser(from + 1, LastOf(buf)) <= LastOf(buf)
    BY <1>1 DEF Lesser
  <1>6. /\ word_end_forward(buf, pane, from, big) \in Nat
        /\ word_end_forward(buf, pane, from, big) <= Len(buf)
    <2>1. CASE pane = "Hex"
      BY <1>1, <1>3, <1>5, <2>1
    <2>2. CASE pane # "Hex" /\ i >= Len(buf)
      BY <1>1, <1>3, <2>2
    <2>3. CASE pane # "Hex" /\ ~(i >= Len(buf))
      <3>1. i < Len(buf)
        BY <1>1, <1>2, <2>3
      <3> QED BY <1>1, <1>3, <1>4, <2>3, <3>1
    <2> QED BY <2>1, <2>2, <2>3
  <1> QED BY <1>1, <1>6, ReachIs

(* The scan to the first stop, from inside the buffer. *)
LEMMA FirstFromFinds ==
    ASSUME NEW i \in Nat, NEW len \in Nat, i < len, NEW stops
    PROVE  LET r == FirstFrom(i, len, stops)
           IN  /\ r \in i .. len /\ (r = len \/ r \in stops)
               /\ \A j \in i .. r - 1 : j \notin stops
  <1> DEFINE S == {j \in i .. len : j = len \/ j \in stops}
  <1>1. S \in SUBSET Nat /\ len \in S
    OBVIOUS
  <1>2. FirstFrom(i, len, stops) = Min(S)
    BY DEF FirstFrom
  <1>3. Min(S) \in S /\ \A x \in S : Min(S) <= x
    <2> HIDE DEF S
    <2> QED BY <1>1, MinIs
  <1> QED BY <1>2, <1>3

(* The nearest of a set behind an offset is known by being one and the first. *)
LEMMA NearestAfterIs ==
    ASSUME NEW S \in SUBSET Nat, NEW from \in Nat, NEW default, NEW x,
           \/ x \in S /\ x > from /\ \A y \in S : y > from => x <= y
           \/ x = default /\ \A y \in S : ~(y > from)
    PROVE  NearestAfter(S, from, default) = x
  <1> DEFINE T == {i \in S : i > from}
  <1>1. NearestAfter(S, from, default) = IF T = {} THEN default ELSE Min(T)
    BY DEF NearestAfter
  <1>2. CASE x \in S /\ x > from /\ \A y \in S : y > from => x <= y
    <2>1. T \in SUBSET Nat /\ x \in T /\ \A y \in T : x <= y
      BY <1>2
    <2> HIDE DEF T
    <2>2. Min(T) \in T /\ Min(T) \in Nat /\ x \in Nat /\ Min(T) <= x
      BY <2>1, MinIs
    <2>3. x <= Min(T)
      BY <2>1, <2>2
    <2>4. Min(T) = x
      BY <2>2, <2>3
    <2> QED BY <1>1, <2>1, <2>4
  <1>3. CASE x = default /\ \A y \in S : ~(y > from)
    <2>1. T = {}
      BY <1>3
    <2> QED BY <1>1, <1>3, <2>1
  <1> QED BY <1>2, <1>3

(* And the nearest before it. *)
LEMMA NearestBeforeIs ==
    ASSUME NEW S \in SUBSET Nat, NEW from \in Nat, NEW default, NEW x,
           \/ x \in S /\ x < from /\ \A y \in S : y < from => y <= x
           \/ x = default /\ \A y \in S : ~(y < from)
    PROVE  NearestBefore(S, from, default) = x
  <1> DEFINE T == {i \in S : i < from}
  <1>1. NearestBefore(S, from, default) = IF T = {} THEN default ELSE Max(T)
    BY DEF NearestBefore
  <1>2. CASE x \in S /\ x < from /\ \A y \in S : y < from => y <= x
    <2>0. \A y \in T : y \in 0 .. from
      OBVIOUS
    <2>1. T \in SUBSET (0 .. from) /\ x \in T /\ \A y \in T : y <= x
      BY <1>2, <2>0
    <2> HIDE DEF T
    <2>2. Max(T) \in T /\ Max(T) \in Nat /\ x \in Nat /\ x <= Max(T)
      BY <2>1, MaxIs
    <2>3. Max(T) <= x
      BY <2>1, <2>2
    <2>4. Max(T) = x
      BY <2>2, <2>3
    <2> QED BY <1>1, <2>1, <2>4
  <1>3. CASE x = default /\ \A y \in S : ~(y < from)
    <2>1. T = {}
      BY <1>3
    <2> QED BY <1>1, <1>3, <2>1
  <1> QED BY <1>2, <1>3

(* Whitespace is a class of its own, whichever words are told apart, and so  *)
(* is the end of the file.                                                 *)
LEMMA ClassesAre ==
    ASSUME NEW buf \in Seq(Byte), NEW big, NEW j \in Nat
    PROVE  /\ IsSpace(buf, j) <=> ClassAt(buf, j, big) = "Whitespace"
           /\ ~(j < Len(buf)) <=> ClassAt(buf, j, big) = "None"
  BY DEF IsSpace, ClassAt, classify

(* The beginnings and the ends of words, told by classes. *)
LEMMA StartsAre ==
    ASSUME NEW buf \in Seq(Byte), NEW big, NEW i \in Nat
    PROVE  i \in Starts(buf, big) <=>
              /\ i < Len(buf) /\ ClassAt(buf, i, big) # "Whitespace"
              /\ i > 0 => ClassAt(buf, i - 1, big) # ClassAt(buf, i, big)
  BY LastIs, ClassesAre DEF Starts
LEMMA EndsAre ==
    ASSUME NEW buf \in Seq(Byte), NEW big, NEW i \in Nat
    PROVE  i \in Ends(buf, big) <=>
              /\ i < Len(buf) /\ ClassAt(buf, i, big) # "Whitespace"
              /\ ClassAt(buf, i + 1, big) # ClassAt(buf, i, big)
  BY LastIs, ClassesAre DEF Ends
LEMMA EdgesAreOffsets ==
    ASSUME NEW buf \in Seq(Byte), NEW big
    PROVE  Starts(buf, big) \in SUBSET Nat /\ Ends(buf, big) \in SUBSET Nat
  BY LastIs DEF Starts, Ends

(* w and W. *)
LEMMA WordForwardExact ==
    ASSUME NEW buf \in Seq(Byte), NEW cur \in Nat, cur <= Len(buf), NEW big
    PROVE  word_forward(buf, "Ascii", cur, big) = NearestAfter(Starts(buf, big), cur, LastOf(buf))
  <1> DEFINE C(j) == ClassAt(buf, j, big)
             len == Len(buf)
             last == LastOf(buf)
             other == {j \in 0 .. len : C(j) # C(cur)}
             solid == {j \in 0 .. len : ~IsSpace(buf, j)}
             a == FirstFrom(cur + 1, len, other)
             b == FirstFrom(a, len, solid)
             S == Starts(buf, big)
  <1>1. word_forward(buf, "Ascii", cur, big) = Lesser(b, last)
    BY DEF word_forward
  <1>2. len \in Nat /\ last \in Nat /\ last <= len /\ (len > 0 => last + 1 = len)
    BY LastIs
  <1>3. S \in SUBSET Nat
    BY EdgesAreOffsets
  <1>4. \A j \in Nat : /\ j \in S <=> /\ j < len /\ C(j) # "Whitespace"
                                      /\ j > 0 => C(j - 1) # C(j)
                       /\ j \in solid <=> j <= len /\ C(j) # "Whitespace"
                       /\ j \in other <=> j <= len /\ C(j) # C(cur)
    <2> TAKE j \in Nat
    <2>1. j \in S <=> j < len /\ C(j) # "Whitespace" /\ (j > 0 => C(j - 1) # C(j))
      BY StartsAre
    <2> QED BY <1>2, <2>1, ClassesAre
  <1> SUFFICES NearestAfter(S, cur, last) = Lesser(b, last)
    BY <1>1
  <1>5. CASE cur + 1 >= len
    <2>1. a = cur + 1
      BY <1>5 DEF FirstFrom
    <2>2. b = a
      BY <1>5, <2>1 DEF FirstFrom
    <2> HIDE DEF S, other, solid, a, b, last, len, C
    <2>3. Lesser(b, last) = last
      BY <1>2, <1>5, <2>1, <2>2 DEF Lesser
    <2>4. \A y \in S : ~(y > cur)
      BY <1>2, <1>3, <1>4, <1>5
    <2> QED BY <1>2, <1>3, <2>3, <2>4, NearestAfterIs
  <1>6. CASE cur + 1 < len
    <2> HIDE DEF S, other, solid, last, C
    <2>1. /\ a \in cur + 1 .. len /\ (a = len \/ a \in other)
          /\ \A j \in cur + 1 .. a - 1 : j \notin other
      <3>1. cur + 1 \in Nat
        OBVIOUS
      <3> QED BY <1>2, <1>6, <3>1, FirstFromFinds
    <2>2. /\ b \in a .. len /\ (b = len \/ b \in solid)
          /\ \A j \in a .. b - 1 : j \notin solid
      <3>1. a \in Nat /\ (a >= len => a = len)
        BY <1>2, <2>1
      <3>2. CASE a >= len
        <4>1. b = a
          BY <3>2 DEF FirstFrom
        <4> HIDE DEF a, b
        <4> QED BY <1>2, <3>1, <3>2, <4>1
      <3>3. CASE a < len
        <4> HIDE DEF a
        <4> QED BY <1>2, <3>1, <3>3, FirstFromFinds
      <3> HIDE DEF a, b, len
      <3> QED BY <1>2, <3>1, <3>2, <3>3
    <2> HIDE DEF a, b, len
    <2>3. \A j \in cur .. a - 1 : C(j) = C(cur)
      BY <1>2, <1>4, <2>1
    <2>4. \A y \in S : y > cur => b <= y
      <3> SUFFICES ASSUME NEW y \in S, y > cur, y < b PROVE FALSE
        BY <1>3, <2>2, <1>2, <2>1
      <3>1. y \in Nat /\ y < len /\ C(y) # "Whitespace" /\ C(y - 1) # C(y)
        BY <1>3, <1>4
      <3>2. CASE y >= a
        BY <1>2, <1>4, <2>1, <2>2, <3>1, <3>2
      <3>3. CASE y < a
        <4>1. y \in cur .. a - 1 /\ y - 1 \in cur .. a - 1
          BY <2>1, <3>1, <3>3
        <4> QED BY <2>3, <3>1, <4>1
      <3> QED BY <2>1, <3>1, <3>2, <3>3
    <2>5. CASE b = len
      <3>1. Lesser(b, last) = last
        BY <1>2, <2>5 DEF Lesser
      <3>2. \A y \in S : ~(y > cur)
        BY <1>2, <1>3, <1>4, <2>4, <2>5
      <3> QED BY <1>2, <1>3, <3>1, <3>2, NearestAfterIs
    <2>6. CASE b # len
      <3>1. b \in Nat /\ b < len /\ b \in solid /\ b > cur /\ Lesser(b, last) = b
        BY <1>2, <2>1, <2>2, <2>6 DEF Lesser
      <3>2. C(b) # "Whitespace"
        BY <1>4, <3>1
      <3>3. C(b - 1) # C(b)
        <4>1. CASE b = a
          <5>1. C(a) # C(cur) /\ a - 1 \in cur .. a - 1
            BY <1>4, <2>1, <3>1, <4>1
          <5>2. C(a - 1) = C(cur)
            BY <2>3, <5>1
          <5> QED BY <4>1, <5>1, <5>2
        <4>2. CASE b # a
          <5>1. b - 1 \in a .. b - 1 /\ b - 1 \in Nat /\ b - 1 <= len
            BY <1>2, <2>1, <2>2, <4>2
          <5>2. C(b - 1) = "Whitespace"
            BY <1>4, <2>2, <5>1
          <5> QED BY <3>2, <5>2
        <4> QED BY <4>1, <4>2
      <3>4. b \in S
        BY <1>4, <3>1, <3>2, <3>3
      <3> QED BY <1>2, <1>3, <2>4, <3>1, <3>4, NearestAfterIs
    <2> QED BY <2>5, <2>6
  <1> QED BY <1>2, <1>5, <1>6

(* b and B. *)
LEMMA WordBackExact ==
    ASSUME NEW buf \in Seq(Byte), NEW cur \in Nat, cur <= Len(buf), NEW big
    PROVE  word_back(buf, "Ascii", cur, big) = NearestBefore(Starts(buf, big), cur, 0)
  <1> DEFINE C(j) == ClassAt(buf, j, big)
             len == Len(buf)
             before == {j \in 0 .. (cur - 1) : j = 0 \/ ~IsSpace(buf, j)}
             i == Max(before)
             T == {j \in 0 .. i : j = 0 \/ C(j - 1) # C(i)}
             w == Max(T)
             S == Starts(buf, big)
  <1>1. len \in Nat
    OBVIOUS
  <1>2. S \in SUBSET Nat
    BY EdgesAreOffsets
  <1>3. \A j \in Nat : /\ j \in S <=> /\ j < len /\ C(j) # "Whitespace"
                                      /\ j > 0 => C(j - 1) # C(j)
                       /\ IsSpace(buf, j) <=> C(j) = "Whitespace"
    <2> TAKE j \in Nat
    <2>1. j \in S <=> j < len /\ C(j) # "Whitespace" /\ (j > 0 => C(j - 1) # C(j))
      BY StartsAre
    <2> QED BY <2>1, ClassesAre
  <1> SUFFICES NearestBefore(S, cur, 0) = word_back(buf, "Ascii", cur, big)
    OBVIOUS
  <1>4. CASE cur = 0
    <2>1. word_back(buf, "Ascii", cur, big) = 0
      BY <1>4 DEF word_back
    <2> HIDE DEF S
    <2>2. \A y \in S : ~(y < cur)
      BY <1>2, <1>4
    <2> QED BY <1>2, <2>1, <2>2, NearestBeforeIs
  <1>5. CASE cur # 0
    <2>1. word_back(buf, "Ascii", cur, big) = w
      BY <1>5 DEF word_back
    <2>2. cur - 1 \in Nat /\ before \in SUBSET (0 .. (cur - 1)) /\ 0 \in before
      BY <1>5
    <2>3. i \in before /\ i \in Nat /\ i <= cur - 1 /\ \A x \in before : x <= i
      <3> HIDE DEF before
      <3> QED BY <2>2, MaxIs
    <2>4. i = 0 \/ C(i) # "Whitespace"
      <3> HIDE DEF i
      <3> QED BY <1>3, <2>3
    <2>5. \A y \in S : y < cur => y <= i
      <3> SUFFICES ASSUME NEW y \in S, y < cur PROVE y <= i
        OBVIOUS
      <3>1. y \in before
        <4> HIDE DEF S
        <4> QED BY <1>2, <1>3
      <3> HIDE DEF before, S, i
      <3> QED BY <2>3, <3>1
    <2> HIDE DEF i
    <2>6. T \in SUBSET (0 .. i) /\ 0 \in T
      BY <2>3
    <2>7. w \in T /\ w \in Nat /\ w <= i /\ \A x \in T : x <= w
      <3> HIDE DEF T
      <3> QED BY <2>3, <2>6, MaxIs
    <2> HIDE DEF w
    <2>8. \A j \in w + 1 .. i : C(j - 1) = C(i)
      <3> TAKE j \in w + 1 .. i
      <3> QED BY <2>3, <2>7
    <2>9. w = 0 \/ C(w - 1) # C(i)
      BY <2>7
    <2> HIDE DEF T, S, C, before
    <2>10. \A j \in w .. i : C(j) = C(i)
      <3> TAKE j \in w .. i
      <3>1. CASE j = i
        BY <3>1
      <3>2. CASE j # i
        <4>1. j + 1 \in w + 1 .. i /\ (j + 1) - 1 = j
          BY <2>3, <2>7, <3>2
        <4> QED BY <2>8, <4>1
      <3> QED BY <3>1, <3>2
    <2>11. \A y \in S : y < cur => y <= w
      <3> SUFFICES ASSUME NEW y \in S, y < cur, w < y PROVE FALSE
        BY <1>2, <2>7
      <3>1. y \in Nat /\ y > 0 /\ C(y - 1) # C(y) /\ y <= i
        BY <1>2, <1>3, <2>5, <2>7
      <3>2. y \in w .. i /\ y \in w + 1 .. i
        BY <2>3, <2>7, <3>1
      <3> QED BY <2>8, <2>10, <3>1, <3>2
    <2>12. w < len /\ w < cur
      BY <1>1, <1>5, <2>3, <2>7
    <2>13. CASE C(i) # "Whitespace"
      <3>1. C(w) = C(i)
        BY <2>3, <2>7, <2>10
      <3>2. w \in S
        BY <1>3, <2>7, <2>9, <2>12, <2>13, <3>1
      <3> QED BY <1>2, <2>1, <2>11, <2>12, <3>2, NearestBeforeIs
    <2>14. CASE C(i) = "Whitespace"
      <3>1. i = 0 /\ w = 0
        BY <2>3, <2>4, <2>7, <2>14
      <3>2. \A y \in S : ~(y < cur)
        <4> SUFFICES ASSUME NEW y \in S, y < cur PROVE FALSE
          OBVIOUS
        <4>1. y \in Nat /\ y <= 0 /\ C(y) # "Whitespace"
          BY <1>2, <1>3, <2>5, <3>1
        <4>2. y = 0
          BY <4>1
        <4> QED BY <2>14, <3>1, <4>1, <4>2
      <3> QED BY <1>2, <2>1, <3>1, <3>2, NearestBeforeIs
    <2> QED BY <2>13, <2>14
  <1> QED BY <1>4, <1>5

(* e and E. *)
LEMMA WordEndExact ==
    ASSUME NEW buf \in Seq(Byte), NEW cur \in Nat, cur <= Len(buf), NEW big
    PROVE  word_end_forward(buf, "Ascii", cur, big) = NearestAfter(Ends(buf, big), cur, LastOf(buf))
  <1> DEFINE C(j) == ClassAt(buf, j, big)
             len == Len(buf)
             last == LastOf(buf)
             solid == {j \in 0 .. len : ~IsSpace(buf, j)}
             i == FirstFrom(cur + 1, len, solid)
             S == Ends(buf, big)
  <1>1. word_end_forward(buf, "Ascii", cur, big) = IF i >= len THEN last ELSE RunEnd(buf, i, big)
    BY DEF word_end_forward
  <1>2. len \in Nat /\ last \in Nat /\ last <= len /\ (len > 0 => last + 1 = len)
    BY LastIs
  <1>3. S \in SUBSET Nat
    BY EdgesAreOffsets
  <1>4. \A j \in Nat : /\ j \in S <=> j < len /\ C(j) # "Whitespace" /\ C(j + 1) # C(j)
                       /\ j \in solid <=> j <= len /\ C(j) # "Whitespace"
                       /\ j < len <=> C(j) # "None"
    <2> TAKE j \in Nat
    <2>1. j \in S <=> j < len /\ C(j) # "Whitespace" /\ C(j + 1) # C(j)
      BY EndsAre
    <2> QED BY <1>2, <2>1, ClassesAre
  <1> SUFFICES NearestAfter(S, cur, last) = word_end_forward(buf, "Ascii", cur, big)
    OBVIOUS
  <1>5. CASE cur + 1 >= len
    <2>1. i = cur + 1
      BY <1>5 DEF FirstFrom
    <2> HIDE DEF S, solid, i, last, len, C
    <2>2. \A y \in S : ~(y > cur)
      BY <1>2, <1>3, <1>4, <1>5
    <2> QED BY <1>1, <1>2, <1>3, <1>5, <2>1, <2>2, NearestAfterIs
  <1>6. CASE cur + 1 < len
    <2> HIDE DEF S, solid, last, C
    <2>1. /\ i \in cur + 1 .. len /\ (i = len \/ i \in solid)
          /\ \A j \in cur + 1 .. i - 1 : j \notin solid
      <3>1. cur + 1 \in Nat
        OBVIOUS
      <3> QED BY <1>2, <1>6, <3>1, FirstFromFinds
    <2> HIDE DEF i, len
    <2>2. \A y \in S : y > cur => i <= y
      <3> SUFFICES ASSUME NEW y \in S, y > cur, y < i PROVE FALSE
        BY <1>3, <1>2, <2>1
      <3>1. y \in Nat /\ y <= len /\ C(y) # "Whitespace" /\ y \in cur + 1 .. i - 1
        BY <1>2, <1>3, <1>4, <2>1
      <3> QED BY <1>4, <2>1, <3>1
    <2>3. CASE i >= len
      <3>1. \A y \in S : ~(y > cur)
        BY <1>2, <1>3, <1>4, <2>1, <2>2, <2>3
      <3> QED BY <1>1, <1>2, <1>3, <2>3, <3>1, NearestAfterIs
    <2>4. CASE ~(i >= len)
      <3> DEFINE T == {j \in i .. last : j = last \/ C(j + 1) # C(i)}
                 e == Min(T)
      <3>1. RunEnd(buf, i, big) = e
        BY DEF RunEnd, C, last
      <3>2. i \in Nat /\ i < len /\ i > cur /\ i \in solid /\ C(i) # "Whitespace" /\ i <= last
        BY <1>2, <1>4, <2>1, <2>4
      <3>3. T \in SUBSET Nat /\ last \in T
        BY <1>2, <3>2
      <3>4. e \in T /\ \A x \in T : e <= x
        <4> HIDE DEF T
        <4> QED BY <3>3, MinIs
      <3> HIDE DEF e
      <3>5. e \in i .. last /\ (e = last \/ C(e + 1) # C(i))
        BY <3>4
      <3>6. \A j \in i .. e - 1 : C(j + 1) = C(i)
        <4> TAKE j \in i .. e - 1
        <4>1. j \in i .. last
          BY <1>2, <3>5
        <4> QED BY <3>4, <3>5, <4>1
      <3>7. \A j \in i .. e : C(j) = C(i)
        <4> TAKE j \in i .. e
        <4>1. CASE j = i
          BY <4>1
        <4>2. CASE j # i
          <5>1. j - 1 \in i .. e - 1 /\ (j - 1) + 1 = j
            BY <3>2, <3>5, <4>2
          <5> QED BY <3>6, <5>1
        <4> QED BY <4>1, <4>2
      <3> HIDE DEF T
      <3>8. e \in Nat /\ e < len /\ e > cur /\ e + 1 \in Nat
        BY <1>2, <3>2, <3>5
      <3>9. C(e) = C(i)
        BY <3>2, <3>5, <3>7
      <3>10. C(e + 1) # C(e)
        <4>1. CASE e = last
          <5>1. e + 1 = len
            BY <1>2, <3>2, <4>1
          <5>2. C(e + 1) = "None" /\ C(e) # "None"
            BY <1>2, <1>4, <3>8, <5>1
          <5> QED BY <5>2
        <4>2. CASE e # last
          BY <3>5, <3>9, <4>2
        <4> QED BY <4>1, <4>2
      <3>11. e \in S
        BY <1>4, <3>2, <3>8, <3>9, <3>10
      <3>12. \A y \in S : y > cur => e <= y
        <4> SUFFICES ASSUME NEW y \in S, y > cur, y < e PROVE FALSE
          BY <1>3, <3>8
        <4>1. y \in Nat /\ C(y + 1) # C(y) /\ i <= y
          BY <1>3, <1>4, <2>2
        <4>2. y \in i .. e - 1 /\ y \in i .. e
          BY <3>2, <3>8, <4>1
        <4> QED BY <3>6, <3>7, <4>1, <4>2
      <3> QED BY <1>1, <1>3, <2>4, <3>1, <3>8, <3>11, <3>12, NearestAfterIs
    <2> QED BY <2>3, <2>4
  <1> QED BY <1>2, <1>5, <1>6

(* w, b and e on every content. *)
LEMMA WordsExact ==
    ASSUME NEW buf \in Seq(Byte)
    PROVE  WordsAreExact(buf)
  <1>1. Len(buf) \in Nat
    OBVIOUS
  <1> SUFFICES ASSUME NEW cur \in 0 .. Len(buf), NEW big \in BOOLEAN
               PROVE  /\ word_forward(buf, "Ascii", cur, big)
                            = NearestAfter(Starts(buf, big), cur, LastOf(buf))
                      /\ word_back(buf, "Ascii", cur, big)
                            = NearestBefore(Starts(buf, big), cur, 0)
                      /\ word_end_forward(buf, "Ascii", cur, big)
                            = NearestAfter(Ends(buf, big), cur, LastOf(buf))
    BY DEF WordsAreExact
  <1>2. cur \in Nat /\ cur <= Len(buf)
    BY <1>1
  <1> QED BY <1>2, WordForwardExact, WordBackExact, WordEndExact

-----------------------------------------------------------------------------
(* Lines. *)

(* A line begins at or before the caret. *)
LEMMA LineStartIs ==
    ASSUME NEW buf, NEW cur \in Nat
    PROVE  find_line_start(buf, cur) \in Nat /\ find_line_start(buf, cur) <= cur
  <1> DEFINE S == {i \in 0 .. cur : i = 0 \/ Holds(buf, i - 1, NewLine)}
  <1>1. S \in SUBSET (0 .. cur) /\ 0 \in S
    OBVIOUS
  <1>2. Max(S) \in Nat /\ Max(S) <= cur
    <2> HIDE DEF S
    <2> QED BY <1>1, MaxIs
  <1> QED BY <1>2 DEF find_line_start

(* A line ends inside the bytes, wherever the caret is. *)
LEMMA LineEndIs ==
    ASSUME NEW buf \in Seq(Byte), NEW cur \in Nat
    PROVE  find_line_end(buf, cur) \in Nat /\ find_line_end(buf, cur) <= Len(buf)
  <1> DEFINE S == {i \in cur .. Len(buf) : Holds(buf, i + 1, NewLine)}
  <1>1. LastOf(buf) \in Nat /\ Len(buf) \in Nat /\ LastOf(buf) <= Len(buf)
    BY LastIs
  <1>2. find_line_end(buf, cur) = IF S = {} THEN LastOf(buf) ELSE Min(S)
    BY DEF find_line_end
  <1>3. S # {} => Min(S) \in S
    <2>1. S \in SUBSET Nat
      BY <1>1
    <2> HIDE DEF S
    <2> QED BY <2>1, MinIs
  <1>4. \A x \in S : x \in Nat /\ x <= Len(buf)
    BY <1>1
  <1> QED
    <2> HIDE DEF S
    <2> QED BY <1>1, <1>2, <1>3, <1>4

(* A line is a range that ends inside the bytes. *)
LEMMA LineBoundsIs ==
    ASSUME NEW buf \in Seq(Byte), NEW pane, NEW cur \in Nat
    PROVE  \E a \in Nat, b \in Nat : line_bounds(buf, pane, cur) = <<a, b>> /\ b <= Len(buf)
  <1>1. LastOf(buf) \in Nat /\ Len(buf) \in Nat /\ LastOf(buf) <= Len(buf)
    BY LastIs
  <1>2. RowStart(cur) \in Nat
    BY RowStartIs
  <1>3. /\ Lesser(RowStart(cur) + Columns - 1, LastOf(buf)) \in Nat
        /\ Lesser(RowStart(cur) + Columns - 1, LastOf(buf)) <= Len(buf)
    BY <1>1, <1>2, VimConstants DEF Lesser
  <1>4. CASE buf = << >>
    BY <1>1, <1>4 DEF line_bounds
  <1>5. CASE buf # << >> /\ pane = "Hex"
    BY <1>2, <1>3, <1>5 DEF line_bounds
  <1>6. CASE buf # << >> /\ pane # "Hex"
    BY <1>6, LineStartIs, LineEndIs DEF line_bounds
  <1> QED BY <1>4, <1>5, <1>6

-----------------------------------------------------------------------------
(* Loops of n rounds. *)

(* What 0 has, and every number takes over from the one before it. *)
LEMMA StepByStep ==
    ASSUME NEW n \in Nat, NEW I, 0 \in I, \A k \in 1 .. n : k - 1 \in I => k \in I
    PROVE  \A k \in 0 .. n : k \in I
  <1> DEFINE Bad == (0 .. n) \ I
  <1> SUFFICES ASSUME Bad # {} PROVE FALSE
    OBVIOUS
  <1>1. PICK m \in Bad : \A k \in Bad : m <= k
    <2>1. Bad \in SUBSET Nat
      OBVIOUS
    <2> HIDE DEF Bad
    <2> QED BY <2>1, LeastNatural
  <1>2. m \in 1 .. n /\ m - 1 \in 0 .. n
    BY <1>1
  <1>3. m - 1 \in I
    BY <1>1, <1>2
  <1> QED BY <1>1, <1>2, <1>3

(* The values of a loop that keeps to S, from a on. *)
Rounds(f, n, S, a, F) ==
    f \in [0 .. n -> S] /\ f[0] = a /\ \A k \in 1 .. n : f[k] = F[<<k, f[k - 1]>>]

(* Such a loop exists; the recursive definitions below are its values. *)
LEMMA RoundsRun ==
    ASSUME NEW n \in Nat, NEW S, NEW a \in S, NEW F \in [(1 .. n) \X S -> S]
    PROVE  \E f : Rounds(f, n, S, a, F)
  <1> DEFINE I == {m \in 0 .. n : \E f : Rounds(f, m, S, a, F)}
  <1>1. 0 \in I
    <2> DEFINE f == [k \in 0 .. 0 |-> a]
    <2>1. Rounds(f, 0, S, a, F) /\ 0 \in 0 .. n
      BY DEF Rounds
    <2> HIDE DEF f
    <2> QED BY <2>1
  <1>2. ASSUME NEW m \in 1 .. n, m - 1 \in I PROVE m \in I
    <2>1. PICK f : Rounds(f, m - 1, S, a, F)
      BY <1>2
    <2> DEFINE g == [k \in 0 .. m |-> IF k = m THEN F[<<m, f[m - 1]>>] ELSE f[k]]
    <2>2. f[m - 1] \in S /\ F[<<m, f[m - 1]>>] \in S
      <3>1. m - 1 \in 0 .. m - 1
        OBVIOUS
      <3>2. f[m - 1] \in S
        BY <2>1, <3>1 DEF Rounds
      <3>3. <<m, f[m - 1]>> \in (1 .. n) \X S
        BY <3>2
      <3> QED BY <3>2, <3>3
    <2>3. g \in [0 .. m -> S]
      <3>1. \A k \in 0 .. m : k = m \/ (k # m /\ k \in 0 .. m - 1)
        OBVIOUS
      <3> QED BY <2>1, <2>2, <3>1 DEF Rounds
    <2>4. g[0] = a
      BY <2>1 DEF Rounds
    <2>5. ASSUME NEW k \in 1 .. m PROVE g[k] = F[<<k, g[k - 1]>>]
      <3>1. k - 1 \in 0 .. m - 1 /\ g[k - 1] = f[k - 1]
        OBVIOUS
      <3>2. CASE k = m
        <4>1. g[m] = F[<<m, f[m - 1]>>]
          OBVIOUS
        <4> QED BY <3>1, <3>2, <4>1
      <3>3. CASE k # m
        <4>1. k \in 1 .. m - 1 /\ g[k] = f[k]
          BY <3>3
        <4> QED BY <2>1, <3>1, <4>1 DEF Rounds
      <3> QED BY <3>2, <3>3
    <2>6. m \in 0 .. n
      OBVIOUS
    <2> HIDE DEF g
    <2>7. Rounds(g, m, S, a, F)
      BY <2>3, <2>4, <2>5 DEF Rounds
    <2> QED BY <2>6, <2>7
  <1>3. n \in I
    <2> HIDE DEF I
    <2>1. \A k \in 1 .. n : k - 1 \in I => k \in I
      BY <1>2
    <2> QED BY <1>1, <2>1, StepByStep
  <1> QED BY <1>3

-----------------------------------------------------------------------------
(* Lines, counted. *)

(* dd and yy over a count of lines. *)
LEMMA ManyLinesAre ==
    ASSUME NEW buf \in Seq(Byte), NEW pane, NEW cur \in Nat, NEW count \in Nat \ {0}
    PROVE  \E a \in Nat, b \in Nat : multi_line_bounds(buf, pane, cur, count) = <<a, b>>
  <1> DEFINE first == line_bounds(buf, pane, cur)
             Next1(e) == IF e + 1 >= Len(buf) THEN e ELSE line_bounds(buf, pane, e + 1)[2]
             E(f) == [n \in 1 .. count |-> IF n = 1 THEN first[2] ELSE Next1(f[n - 1])]
             end == CHOOSE f : f = E(f)
  <1>1. PICK a \in Nat, b \in Nat : first = <<a, b>>
    BY LineBoundsIs
  <1>2. ASSUME NEW e \in Nat PROVE Next1(e) \in Nat
    <2>1. PICK c \in Nat, d \in Nat : line_bounds(buf, pane, e + 1) = <<c, d>>
      BY LineBoundsIs
    <2> QED BY <2>1
  <1>3. \E f : f = E(f)
    <2> DEFINE F == [p \in (1 .. count - 1) \X Nat |-> Next1(p[2])]
    <2>1. F \in [(1 .. count - 1) \X Nat -> Nat]
      <3> HIDE DEF Next1
      <3> QED BY <1>2
    <2>2. PICK g : Rounds(g, count - 1, Nat, b, F)
      <3>1. count - 1 \in Nat
        OBVIOUS
      <3> HIDE DEF F
      <3> QED BY <2>1, <3>1, RoundsRun, Zenon
    <2>3. \A k \in 1 .. count - 1 : g[k] = Next1(g[k - 1])
      <3> TAKE k \in 1 .. count - 1
      <3>1. k - 1 \in 0 .. count - 1
        OBVIOUS
      <3>2. g[k - 1] \in Nat /\ g[k] = F[<<k, g[k - 1]>>]
        BY <2>2, <3>1 DEF Rounds
      <3> HIDE DEF Next1
      <3> QED BY <3>2
    <2> DEFINE f == [n \in 1 .. count |-> g[n - 1]]
    <2>4. \A n \in 1 .. count : f[n] = IF n = 1 THEN first[2] ELSE Next1(f[n - 1])
      <3> TAKE n \in 1 .. count
      <3>1. CASE n = 1
        BY <1>1, <2>2, <3>1 DEF Rounds
      <3>2. CASE n # 1
        <4>1. n - 1 \in 1 .. count - 1 /\ n - 1 \in 1 .. count
          BY <3>2
        <4>2. f[n] = g[n - 1] /\ f[n - 1] = g[(n - 1) - 1]
          BY <4>1
        <4>3. g[n - 1] = Next1(g[(n - 1) - 1])
          BY <2>3, <4>1
        <4> HIDE DEF Next1, f
        <4> QED BY <3>2, <4>2, <4>3
      <3> QED BY <3>1, <3>2
    <2>5. f = E(f)
      <3>1. f = [n \in 1 .. count |-> f[n]]
        OBVIOUS
      <3> HIDE DEF f, Next1
      <3> QED BY <2>4, <3>1
    <2> QED BY <2>5
  <1>4. end = E(end)
    <2> HIDE DEF E
    <2> QED BY <1>3
  <1>5. multi_line_bounds(buf, pane, cur, count) = <<first[1], end[count]>>
    BY DEF multi_line_bounds
  <1> HIDE DEF end
  <1>6. end[1] = b /\ \A n \in 1 .. count : n # 1 => end[n] = Next1(end[n - 1])
    BY <1>1, <1>4
  <1> DEFINE I == {k \in 0 .. count - 1 : end[k + 1] \in Nat}
  <1>7. 0 \in I
    BY <1>6
  <1>8. ASSUME NEW k \in 1 .. count - 1, k - 1 \in I PROVE k \in I
    <2>1. (k - 1) + 1 = k /\ k + 1 \in 1 .. count /\ k + 1 # 1 /\ (k + 1) - 1 = k
      OBVIOUS
    <2>2. end[k] \in Nat /\ end[k + 1] = Next1(end[k])
      <3> HIDE DEF Next1
      <3> QED BY <1>6, <1>8, <2>1
    <2>3. end[k + 1] \in Nat
      <3> HIDE DEF Next1
      <3> QED BY <1>2, <2>2
    <2> QED BY <2>3
  <1>9. end[count] \in Nat
    <2>1. \A k \in 0 .. count - 1 : k \in I
      <3>1. count - 1 \in Nat
        OBVIOUS
      <3> HIDE DEF I
      <3>2. \A k \in 1 .. count - 1 : k - 1 \in I => k \in I
        BY <1>8
      <3> QED BY <1>7, <3>1, <3>2, StepByStep, Zenon
    <2>2. count - 1 \in I /\ (count - 1) + 1 = count
      BY <2>1
    <2> QED BY <2>2
  <1> QED BY <1>1, <1>5, <1>9

(* 0 and $. *)
LEMMA LineEndsAre ==
    ASSUME NEW buf \in Seq(Byte), NEW pane, NEW cur \in Nat
    PROVE  /\ LineStart(buf, pane, cur) \in Nat /\ LineStart(buf, pane, cur) <= Len(buf)
           /\ LineEnd(buf, pane, cur) \in Nat /\ LineEnd(buf, pane, cur) <= Len(buf)
  <1>1. LastOf(buf) \in Nat /\ Len(buf) \in Nat /\ LastOf(buf) <= Len(buf)
    BY LastIs
  <1>2. \A x \in Nat : Lesser(x, LastOf(buf)) \in Nat /\ Lesser(x, LastOf(buf)) <= Len(buf)
    BY <1>1 DEF Lesser
  <1>3. RowStart(cur) \in Nat /\ RowStart(cur) + Columns - 1 \in Nat
    BY RowStartIs, VimConstants, SMTT(30)
  <1>4. LineStart(buf, pane, cur) \in Nat /\ LineStart(buf, pane, cur) <= Len(buf)
    BY <1>2, <1>3, LineStartIs DEF LineStart
  <1>5. LineEnd(buf, pane, cur) \in Nat /\ LineEnd(buf, pane, cur) <= Len(buf)
    BY <1>2, <1>3, LineEndIs DEF LineEnd
  <1> QED BY <1>4, <1>5

-----------------------------------------------------------------------------
(* f, t, F, T. *)

(* f, F, t and T, where the scan ends. *)
LEMMA FindLands ==
    ASSUME NEW buf \in Seq(Byte), NEW pane, NEW cur \in Nat, NEW key \in {"f", "t", "F", "T"},
           NEW target, NEW count, NEW o \in apply_find_char(buf, pane, cur, key, target, count)
    PROVE  o \in Reach(Len(buf), cur)
  <1>1. PICK a \in Nat, b \in Nat : line_bounds(buf, pane, cur) = <<a, b>> /\ b <= Len(buf)
    BY LineBoundsIs
  <1>2. Len(buf) \in Nat
    OBVIOUS
  <1>3. \A j \in FindForward(buf, pane, cur, target, count) :
           j \in Nat /\ j - 1 \in Nat /\ j <= Len(buf)
    BY <1>1 DEF FindForward, Nth
  <1>4. \A j \in FindBackward(buf, pane, cur, target, count) : j \in Nat /\ j + 1 <= cur
    BY <1>1 DEF FindBackward, NthBack
  <1>5. apply_find_char(buf, pane, cur, key, target, count) # {} => buf # << >>
    BY DEF apply_find_char
  <1>6. CASE key = "f"
    <2>1. o \in FindForward(buf, pane, cur, target, count)
      BY <1>5, <1>6 DEF apply_find_char
    <2> QED BY <1>2, <1>3, <2>1, ReachIs
  <1>7. CASE key = "t"
    <2>1. PICK j \in FindForward(buf, pane, cur, target, count) : o = j - 1
      BY <1>5, <1>7 DEF apply_find_char
    <2>2. o \in Nat /\ o <= Len(buf)
      BY <1>2, <1>3, <2>1
    <2> QED BY <1>2, <2>2, ReachIs
  <1>8. CASE key = "F"
    <2>1. o \in FindBackward(buf, pane, cur, target, count)
      BY <1>5, <1>8 DEF apply_find_char
    <2>2. o \in Nat /\ o <= cur
      BY <1>4, <2>1
    <2> QED BY <1>2, <2>2, ReachIs
  <1>9. CASE key = "T"
    <2>1. PICK j \in FindBackward(buf, pane, cur, target, count) : o = Lesser(j + 1, b)
      BY <1>1, <1>5, <1>9 DEF apply_find_char
    <2>2. o \in Nat /\ o <= cur
      BY <1>4, <2>1 DEF Lesser
    <2> QED BY <1>2, <2>2, ReachIs
  <1> QED BY <1>6, <1>7, <1>8, <1>9

-----------------------------------------------------------------------------
(* Text objects: a selection, and its end in reach of the caret. *)

Ranges(len, cur) == Nat \X Reach(len, cur)

(* A range whose end is in reach. *)
LEMMA RangeIs ==
    ASSUME NEW len \in Nat, NEW cur \in Nat, NEW a \in Nat, NEW b \in Nat, b <= len \/ b <= cur
    PROVE  <<a, b>> \in Ranges(len, cur)
  BY ReachIs DEF Ranges

(* What is inside or around two delimiters ends in reach. *)
LEMMA BoundedIs ==
    ASSUME NEW len \in Nat, NEW cur \in Nat, NEW open \in Nat, NEW close \in Nat, close <= len,
           NEW around, NEW r \in Bounded(open, close, around)
    PROVE  r \in Ranges(len, cur)
  <1>1. CASE around
    <2>1. r = <<open, close>>
      BY <1>1 DEF Bounded
    <2> QED BY <2>1, RangeIs
  <1>2. CASE ~around
    <2>1. close > open + 1 /\ r = <<open + 1, close - 1>>
      BY <1>2 DEF Bounded
    <2>2. open + 1 \in Nat /\ close - 1 \in Nat /\ close - 1 <= len
      BY <2>1
    <2>3. <<open + 1, close - 1>> \in Ranges(len, cur)
      BY <2>2, RangeIs
    <2> QED BY <2>1, <2>3
  <1> QED BY <1>1, <1>2

-----------------------------------------------------------------------------
(* Brackets, by how deep an offset is nested. *)

(* One more offset, and at most one more bracket. *)
LEMMA ManyGrows ==
    ASSUME NEW buf, NEW lo \in Nat, NEW k \in Nat, lo <= k, NEW b
    PROVE  /\ Many(buf, lo, lo - 1, b) = 0
           /\ Many(buf, lo, k - 1, b) \in Nat
           /\ Many(buf, lo, k, b) = Many(buf, lo, k - 1, b) + (IF Holds(buf, k, b) THEN 1 ELSE 0)
  <1> DEFINE S(hi) == {j \in lo .. hi : Holds(buf, j, b)}
  <1>1. \A hi : Many(buf, lo, hi, b) = Cardinality(S(hi))
    BY DEF Many
  <1>2. S(lo - 1) = {}
    OBVIOUS
  <1>3. IsFiniteSet(S(k - 1))
    <2>1. IsFiniteSet(lo .. k - 1)
      BY FS_Interval
    <2>2. S(k - 1) \subseteq lo .. k - 1
      OBVIOUS
    <2> QED BY <2>1, <2>2, FS_Subset
  <1>4. k \notin S(k - 1) /\ S(k) = IF Holds(buf, k, b) THEN S(k - 1) \cup {k} ELSE S(k - 1)
    OBVIOUS
  <1> HIDE DEF S
  <1>5. Cardinality(S(k - 1)) \in Nat
    BY <1>3, FS_CardinalityType
  <1>6. Cardinality(S(lo - 1)) = 0
    BY <1>2, FS_EmptySet
  <1>7. Cardinality(S(k)) = Cardinality(S(k - 1)) + (IF Holds(buf, k, b) THEN 1 ELSE 0)
    <2>1. CASE Holds(buf, k, b)
      <3>1. Cardinality(S(k - 1) \cup {k}) = Cardinality(S(k - 1)) + 1
        BY <1>3, <1>4, FS_AddElement
      <3> QED BY <1>4, <2>1, <3>1
    <2>2. CASE ~Holds(buf, k, b)
      BY <1>4, <1>5, <2>2
    <2> QED BY <2>1, <2>2
  <1> QED BY <1>1, <1>5, <1>6, <1>7

(* D counts the opens less the closes in front of an offset. *)
Nests(D, buf, pair) ==
    /\ D \in [Nat -> Int]
    /\ \A k \in Nat : /\ Holds(buf, k, pair[1]) => D[k + 1] = D[k] + 1 /\ ~Holds(buf, k, pair[2])
                      /\ Holds(buf, k, pair[2]) => D[k + 1] = D[k] - 1
                      /\ ~Holds(buf, k, pair[1]) /\ ~Holds(buf, k, pair[2]) => D[k + 1] = D[k]

Depth(buf, pair) == [k \in Nat |-> Many(buf, 0, k - 1, pair[1]) - Many(buf, 0, k - 1, pair[2])]

LEMMA DepthNests ==
    ASSUME NEW buf, NEW pair, pair[1] # pair[2]
    PROVE  Nests(Depth(buf, pair), buf, pair)
  <1> DEFINE D == Depth(buf, pair)
             O(k) == Many(buf, 0, k - 1, pair[1])
             C(k) == Many(buf, 0, k - 1, pair[2])
  <1>1. \A k \in Nat : /\ O(k) \in Nat /\ C(k) \in Nat
                       /\ O(k + 1) = O(k) + (IF Holds(buf, k, pair[1]) THEN 1 ELSE 0)
                       /\ C(k + 1) = C(k) + (IF Holds(buf, k, pair[2]) THEN 1 ELSE 0)
    <2> TAKE k \in Nat
    <2>1. 0 \in Nat /\ 0 <= k /\ (k + 1) - 1 = k
      OBVIOUS
    <2> QED BY <2>1, ManyGrows
  <1>2. D = [k \in Nat |-> O(k) - C(k)]
    BY DEF Depth
  <1>3. \A k \in Nat : ~(Holds(buf, k, pair[1]) /\ Holds(buf, k, pair[2]))
    BY DEF Holds
  <1> HIDE DEF O, C
  <1>4. \A k \in Nat : D[k] = O(k) - C(k) /\ D[k + 1] = O(k + 1) - C(k + 1)
    BY <1>2
  <1>5. D \in [Nat -> Int]
    BY <1>1, <1>2
  <1> HIDE DEF D
  <1>6. \A k \in Nat : /\ Holds(buf, k, pair[1]) => D[k + 1] = D[k] + 1 /\ ~Holds(buf, k, pair[2])
                       /\ Holds(buf, k, pair[2]) => D[k + 1] = D[k] - 1
                       /\ ~Holds(buf, k, pair[1]) /\ ~Holds(buf, k, pair[2]) => D[k + 1] = D[k]
    <2> TAKE k \in Nat
    <2>1. O(k) \in Nat /\ C(k) \in Nat /\ D[k] = O(k) - C(k) /\ D[k + 1] = O(k + 1) - C(k + 1)
      BY <1>1, <1>4
    <2> QED BY <1>1, <1>3, <2>1
  <1>7. Nests(D, buf, pair)
    BY <1>5, <1>6 DEF Nests
  <1> QED BY <1>7 DEF D

(* What is between two offsets is their difference in depth. *)
LEMMA DepthBetween ==
    ASSUME NEW buf, NEW pair, pair[1] # pair[2], NEW lo \in Nat, NEW k \in Nat, lo <= k
    PROVE  /\ Many(buf, lo, k - 1, pair[1]) \in Nat /\ Many(buf, lo, k - 1, pair[2]) \in Nat
           /\ Many(buf, lo, k - 1, pair[1]) - Many(buf, lo, k - 1, pair[2])
                 = Depth(buf, pair)[k] - Depth(buf, pair)[lo]
  <1> DEFINE D == Depth(buf, pair)
             n == k - lo
             O(m) == Many(buf, lo, (lo + m) - 1, pair[1])
             C(m) == Many(buf, lo, (lo + m) - 1, pair[2])
             I == {m \in 0 .. n : O(m) - C(m) = D[lo + m] - D[lo]}
  <1>1. Nests(D, buf, pair)
    BY DepthNests
  <1> HIDE DEF D
  <1>2. \A j \in Nat : D[j] \in Int
    BY <1>1 DEF Nests
  <1>3. \A m \in Nat : /\ O(m) \in Nat /\ C(m) \in Nat
                       /\ O(m + 1) = O(m) + (IF Holds(buf, lo + m, pair[1]) THEN 1 ELSE 0)
                       /\ C(m + 1) = C(m) + (IF Holds(buf, lo + m, pair[2]) THEN 1 ELSE 0)
    <2> TAKE m \in Nat
    <2>1. PICK j \in Nat : j = lo + m /\ lo <= j /\ (lo + (m + 1)) - 1 = j /\ (lo + m) - 1 = j - 1
      OBVIOUS
    <2>2. \A b : /\ Many(buf, lo, j - 1, b) \in Nat
                 /\ Many(buf, lo, j, b) = Many(buf, lo, j - 1, b) + (IF Holds(buf, j, b) THEN 1 ELSE 0)
      <3> TAKE b
      <3> HIDE DEF n
      <3>1. lo <= j
        BY <2>1
      <3> QED BY <3>1, ManyGrows
    <2> QED BY <2>1, <2>2
  <1>4. O(0) = 0 /\ C(0) = 0
    <2>1. (lo + 0) - 1 = lo - 1 /\ lo <= lo
      OBVIOUS
    <2> QED BY <2>1, ManyGrows
  <1> HIDE DEF O, C
  <1>5. n \in Nat /\ lo + n = k
    OBVIOUS
  <1> HIDE DEF n
  <1>6. 0 \in I
    BY <1>2, <1>4, <1>5
  <1>7. ASSUME NEW m \in 1 .. n, m - 1 \in I PROVE m \in I
    <2>1. m - 1 \in Nat /\ (m - 1) + 1 = m /\ lo + (m - 1) \in Nat /\ (lo + (m - 1)) + 1 = lo + m
          /\ lo + m \in Nat /\ m \in 0 .. n
      BY <1>5
    <2>2. /\ O(m - 1) \in Nat /\ C(m - 1) \in Nat
          /\ O(m) = O(m - 1) + (IF Holds(buf, lo + (m - 1), pair[1]) THEN 1 ELSE 0)
          /\ C(m) = C(m - 1) + (IF Holds(buf, lo + (m - 1), pair[2]) THEN 1 ELSE 0)
      <3>1. /\ O(m - 1) \in Nat /\ C(m - 1) \in Nat
            /\ O((m - 1) + 1) = O(m - 1) + (IF Holds(buf, lo + (m - 1), pair[1]) THEN 1 ELSE 0)
            /\ C((m - 1) + 1) = C(m - 1) + (IF Holds(buf, lo + (m - 1), pair[2]) THEN 1 ELSE 0)
        BY <1>3, <2>1
      <3> QED BY <2>1, <3>1
    <2>3. O(m - 1) - C(m - 1) = D[lo + (m - 1)] - D[lo]
      BY <1>7
    <2>4. /\ Holds(buf, lo + (m - 1), pair[1])
             => D[lo + m] = D[lo + (m - 1)] + 1 /\ ~Holds(buf, lo + (m - 1), pair[2])
          /\ Holds(buf, lo + (m - 1), pair[2]) => D[lo + m] = D[lo + (m - 1)] - 1
          /\ ~Holds(buf, lo + (m - 1), pair[1]) /\ ~Holds(buf, lo + (m - 1), pair[2])
             => D[lo + m] = D[lo + (m - 1)]
      BY <1>1, <2>1 DEF Nests
    <2>5. D[lo + m] \in Int /\ D[lo + (m - 1)] \in Int /\ D[lo] \in Int
      BY <1>2, <2>1
    <2>6. O(m) - C(m) = D[lo + m] - D[lo]
      BY <2>2, <2>3, <2>4, <2>5
    <2> QED BY <2>1, <2>6
  <1>8. n \in I
    <2>1. \A m \in 1 .. n : m - 1 \in I => m \in I
      BY <1>7
    <2>2. n \in 0 .. n
      BY <1>5
    <2> HIDE DEF I
    <2> QED BY <1>5, <1>6, <2>1, <2>2, StepByStep
  <1>9. O(n) - C(n) = D[k] - D[lo] /\ O(n) \in Nat /\ C(n) \in Nat
    BY <1>3, <1>5, <1>8
  <1> QED BY <1>5, <1>9 DEF O, C, D

(* A pair that matches is one depth, and deeper in between. *)
LEMMA MatchedIs ==
    ASSUME NEW buf \in Seq(Byte), NEW pair, pair[1] # pair[2], NEW o \in Nat, NEW c \in Nat
    PROVE  LET D == Depth(buf, pair)
           IN  <<o, c>> \in Matched(buf, pair) <=>
                  /\ o < c /\ c < Len(buf)
                  /\ Holds(buf, o, pair[1]) /\ Holds(buf, c, pair[2])
                  /\ D[c + 1] = D[o] /\ \A k \in o + 1 .. c : D[k] > D[o]
  <1> DEFINE D == Depth(buf, pair)
             B(k) == Many(buf, o + 1, k, pair[1]) >= Many(buf, o + 1, k, pair[2])
  <1>1. Nests(D, buf, pair)
    BY DepthNests
  <1>2. <<o, c>> \in Matched(buf, pair) <=>
          /\ o < c /\ c < Len(buf)
          /\ Holds(buf, o, pair[1]) /\ Holds(buf, c, pair[2])
          /\ Many(buf, o + 1, c - 1, pair[1]) = Many(buf, o + 1, c - 1, pair[2])
          /\ \A k \in o .. (c - 1) : B(k)
    <2>1. LastOf(buf) \in Nat /\ Len(buf) \in Nat /\ (Len(buf) > 0 => LastOf(buf) + 1 = Len(buf))
      BY LastIs
    <2>2. <<o, c>> \in (0 .. LastOf(buf)) \X (0 .. LastOf(buf)) /\ o < c <=> o < c /\ c < Len(buf)
      <3>1. Len(buf) = 0 => LastOf(buf) = 0
        BY DEF LastOf, Greater
      <3> QED BY <2>1, <3>1
    <2> QED BY <2>2 DEF Matched
  <1> SUFFICES ASSUME o < c, Holds(buf, o, pair[1]), Holds(buf, c, pair[2])
               PROVE  /\ Many(buf, o + 1, c - 1, pair[1]) = Many(buf, o + 1, c - 1, pair[2])
                         <=> D[c + 1] = D[o]
                      /\ (\A k \in o .. (c - 1) : B(k)) <=> \A k \in o + 1 .. c : D[k] > D[o]
    BY <1>2
  <1> HIDE DEF B
  <1>3. D[o + 1] = D[o] + 1 /\ D[c + 1] = D[c] - 1
    BY <1>1 DEF Nests
  <1>4. \A k \in Nat : D[k] \in Int
    BY <1>1 DEF Nests
  <1>5. /\ Many(buf, o + 1, c - 1, pair[1]) \in Nat /\ Many(buf, o + 1, c - 1, pair[2]) \in Nat
        /\ Many(buf, o + 1, c - 1, pair[1]) - Many(buf, o + 1, c - 1, pair[2]) = D[c] - D[o + 1]
    BY DepthBetween
  <1>6. \A k \in o .. (c - 1) : B(k) <=> D[k + 1] > D[o]
    <2> TAKE k \in o .. (c - 1)
    <2>1. k + 1 \in Nat /\ o + 1 \in Nat /\ o + 1 <= k + 1 /\ (k + 1) - 1 = k
      OBVIOUS
    <2>2. /\ Many(buf, o + 1, k, pair[1]) \in Nat /\ Many(buf, o + 1, k, pair[2]) \in Nat
          /\ Many(buf, o + 1, k, pair[1]) - Many(buf, o + 1, k, pair[2]) = D[k + 1] - D[o + 1]
      <3>1. /\ Many(buf, o + 1, (k + 1) - 1, pair[1]) \in Nat
            /\ Many(buf, o + 1, (k + 1) - 1, pair[2]) \in Nat
            /\ Many(buf, o + 1, (k + 1) - 1, pair[1]) - Many(buf, o + 1, (k + 1) - 1, pair[2])
                  = D[k + 1] - D[o + 1]
        BY <2>1, DepthBetween
      <3> HIDE DEF D
      <3> QED BY <2>1, <3>1
    <2> HIDE DEF D
    <2>3. D[k + 1] \in Int /\ D[o] \in Int
      BY <1>4, <2>1
    <2>4. B(k) <=> Many(buf, o + 1, k, pair[1]) >= Many(buf, o + 1, k, pair[2])
      BY DEF B
    <2> QED BY <1>3, <2>2, <2>3, <2>4, SMTT(30)
  <1> HIDE DEF D
  <1>7. (\A k \in o .. (c - 1) : B(k)) <=> \A k \in o + 1 .. c : D[k] > D[o]
    <2>1. ASSUME \A k \in o .. (c - 1) : B(k), NEW k \in o + 1 .. c PROVE D[k] > D[o]
      <3>1. k - 1 \in o .. (c - 1) /\ (k - 1) + 1 = k
        OBVIOUS
      <3>2. D[(k - 1) + 1] > D[o]
        BY <1>6, <2>1, <3>1
      <3> QED BY <3>1, <3>2
    <2>2. ASSUME \A k \in o + 1 .. c : D[k] > D[o], NEW k \in o .. (c - 1) PROVE B(k)
      <3>1. k + 1 \in o + 1 .. c
        OBVIOUS
      <3> QED BY <1>6, <2>2, <3>1
    <2> QED BY <2>1, <2>2
  <1>8. D[o] \in Int /\ D[c] \in Int
    BY <1>4
  <1>9. Many(buf, o + 1, c - 1, pair[1]) = Many(buf, o + 1, c - 1, pair[2]) <=> D[c + 1] = D[o]
    BY <1>3, <1>5, <1>8, SMTT(30)
  <1> QED BY <1>7, <1>9

-----------------------------------------------------------------------------
(* Between a place and a shallower one behind it the depth comes back.  *)
LEMMA ComesBack ==
    ASSUME NEW D, NEW buf, NEW pair, Nests(D, buf, pair), NEW o \in Nat, NEW c \in Nat,
           o < c, Holds(buf, o, pair[1]), D[c + 1] <= D[o]
    PROVE  \E x \in o + 1 .. c : /\ Holds(buf, x, pair[2]) /\ D[x + 1] = D[o]
                                 /\ \A k \in o + 1 .. x : D[k] > D[o]
  <1> DEFINE S == {x \in o + 1 .. c : D[x + 1] <= D[o]}
  <1>1. \A k \in Nat : D[k] \in Int
    BY DEF Nests
  <1>2. S \in SUBSET Nat /\ c \in S
    OBVIOUS
  <1>3. PICK x \in S : \A y \in S : x <= y
    <2> HIDE DEF S
    <2> QED BY <1>2, LeastNatural
  <1>4. x \in Nat /\ o + 1 <= x /\ x <= c /\ D[x + 1] <= D[o] /\ x + 1 \in Nat
    OBVIOUS
  <1>5. D[o + 1] = D[o] + 1
    BY DEF Nests
  <1>6. \A k \in o + 1 .. x : D[k] > D[o]
    <2> TAKE k \in o + 1 .. x
    <2>1. CASE k = o + 1
      BY <1>1, <1>5, <2>1
    <2>2. CASE k # o + 1
      <3>1. k - 1 \in o + 1 .. c /\ (k - 1) + 1 = k /\ k - 1 < x /\ k \in Nat
        BY <1>4, <2>2
      <3>2. k - 1 \notin S
        <4> HIDE DEF S
        <4> QED BY <1>2, <1>3, <1>4, <3>1
      <3>3. ~(D[k] <= D[o])
        BY <3>1, <3>2
      <3> QED BY <1>1, <3>1, <3>3
    <2> QED BY <2>1, <2>2
  <1> HIDE DEF S
  <1>7. D[x] > D[o] /\ D[x] \in Int /\ D[o] \in Int /\ D[x + 1] \in Int
    BY <1>1, <1>4, <1>6
  <1>8. /\ Holds(buf, x, pair[1]) => D[x + 1] = D[x] + 1
        /\ Holds(buf, x, pair[2]) => D[x + 1] = D[x] - 1
        /\ ~Holds(buf, x, pair[1]) /\ ~Holds(buf, x, pair[2]) => D[x + 1] = D[x]
    BY <1>4 DEF Nests
  <1>9. Holds(buf, x, pair[2]) /\ D[x + 1] = D[o]
    BY <1>4, <1>7, <1>8
  <1> QED BY <1>4, <1>6, <1>9

(* The first close that is d levels up, from i on. *)
Closes(D, len, i, d) ==
    {c \in i .. len - 1 : D[c + 1] = D[i] - d /\ \A k \in i .. c : D[k] > D[i] - d}

(* The last open that is d levels up, before e. *)
Opens(D, e, d) ==
    {o \in 0 .. e - 1 : D[o] = D[e] - d - 1 /\ \A k \in o + 1 .. e : D[k] > D[e] - d - 1}

(* The walk on takes over from the byte behind. *)
LEMMA ClosesFrom ==
    ASSUME NEW D, NEW buf \in Seq(Byte), NEW pair, Nests(D, buf, pair),
           NEW i \in Nat, i < Len(buf), NEW d \in Nat \ {0}
    PROVE  /\ Holds(buf, i, pair[1]) => Closes(D, Len(buf), i, d) = Closes(D, Len(buf), i + 1, d + 1)
           /\ Holds(buf, i, pair[2]) => Closes(D, Len(buf), i, d) =
                 IF d = 1 THEN {i} ELSE Closes(D, Len(buf), i + 1, d - 1)
           /\ ~Holds(buf, i, pair[1]) /\ ~Holds(buf, i, pair[2])
                 => Closes(D, Len(buf), i, d) = Closes(D, Len(buf), i + 1, d)
  <1> DEFINE len == Len(buf)
  <1>1. len \in Nat /\ i < len
    OBVIOUS
  <1>2. \A k \in Nat : D[k] \in Int
    BY DEF Nests
  <1>3. D[i] \in Int /\ D[i + 1] \in Int
    BY <1>2
  <1> HIDE DEF len
  <1>4. ASSUME NEW e \in Nat \ {0}, D[i + 1] - e = D[i] - d
        PROVE  Closes(D, len, i, d) = Closes(D, len, i + 1, e)
    <2> DEFINE t == D[i] - d
    <2>1. t \in Int /\ D[i] > t /\ D[i + 1] > t
      BY <1>3, <1>4
    <2>2. /\ Closes(D, len, i, d) = {c \in i .. len - 1 : D[c + 1] = t /\ \A k \in i .. c : D[k] > t}
          /\ Closes(D, len, i + 1, e)
               = {c \in i + 1 .. len - 1 : D[c + 1] = t /\ \A k \in i + 1 .. c : D[k] > t}
      BY <1>4 DEF Closes
    <2> HIDE DEF t
    <2>3. ASSUME NEW c \in i .. len - 1, D[c + 1] = t, \A k \in i .. c : D[k] > t
          PROVE  c \in i + 1 .. len - 1 /\ \A k \in i + 1 .. c : D[k] > t
      <3>1. c # i
        BY <1>3, <2>1, <2>3
      <3> QED BY <1>1, <2>3, <3>1
    <2>4. ASSUME NEW c \in i + 1 .. len - 1, D[c + 1] = t, \A k \in i + 1 .. c : D[k] > t
          PROVE  c \in i .. len - 1 /\ \A k \in i .. c : D[k] > t
      <3>1. \A k \in i .. c : k = i \/ k \in i + 1 .. c
        OBVIOUS
      <3> QED BY <1>1, <2>1, <2>4, <3>1
    <2> QED BY <2>2, <2>3, <2>4
  <1>5. CASE Holds(buf, i, pair[1])
    <2>1. d + 1 \in Nat \ {0} /\ D[i + 1] - (d + 1) = D[i] - d /\ ~Holds(buf, i, pair[2])
      BY <1>3, <1>5 DEF Nests
    <2>2. Closes(D, len, i, d) = Closes(D, len, i + 1, d + 1)
      BY <1>4, <2>1
    <2> QED BY <1>5, <2>1, <2>2 DEF len
  <1>6. CASE Holds(buf, i, pair[2])
    <2>1. ~Holds(buf, i, pair[1]) /\ D[i + 1] = D[i] - 1
      BY <1>6 DEF Nests
    <2>2. CASE d # 1
      <3>1. d - 1 \in Nat \ {0} /\ D[i + 1] - (d - 1) = D[i] - d
        BY <1>3, <2>1, <2>2
      <3>2. Closes(D, len, i, d) = Closes(D, len, i + 1, d - 1)
        BY <1>4, <3>1
      <3> QED BY <1>6, <2>1, <2>2, <3>2 DEF len
    <2>3. CASE d = 1
      <3>1. Closes(D, len, i, 1) = {i}
        <4>1. i \in Closes(D, len, i, 1)
          BY <1>1, <1>3, <2>1 DEF Closes
        <4>2. ASSUME NEW c \in Closes(D, len, i, 1), c # i PROVE FALSE
          <5>1. c \in i .. len - 1 /\ \A k \in i .. c : D[k] > D[i] - 1
            BY DEF Closes
          <5>2. i + 1 \in i .. c
            BY <4>2, <5>1
          <5> QED BY <1>3, <2>1, <5>1, <5>2
        <4> QED BY <4>1, <4>2
      <3> QED BY <1>6, <2>1, <2>3, <3>1 DEF len
    <2> QED BY <2>2, <2>3
  <1>7. CASE ~Holds(buf, i, pair[1]) /\ ~Holds(buf, i, pair[2])
    <2>1. D[i + 1] - d = D[i] - d
      BY <1>7 DEF Nests
    <2>2. Closes(D, len, i, d) = Closes(D, len, i + 1, d)
      BY <1>4, <2>1
    <2> QED BY <1>7, <2>2 DEF len
  <1> QED BY <1>5, <1>6, <1>7

(* The walk back takes over from the byte before. *)
LEMMA OpensFrom ==
    ASSUME NEW D, NEW buf, NEW pair, Nests(D, buf, pair), NEW i \in Nat, NEW d \in Nat
    PROVE  /\ Holds(buf, i, pair[2]) => Opens(D, i + 1, d) = Opens(D, i, d + 1)
           /\ Holds(buf, i, pair[1]) /\ d = 0 => Opens(D, i + 1, d) = {i}
           /\ Holds(buf, i, pair[1]) /\ d # 0 => Opens(D, i + 1, d) = Opens(D, i, d - 1)
           /\ ~Holds(buf, i, pair[1]) /\ ~Holds(buf, i, pair[2]) => Opens(D, i + 1, d) = Opens(D, i, d)
           /\ Opens(D, 0, d) = {}
  <1>2. \A k \in Nat : D[k] \in Int
    BY DEF Nests
  <1>3. D[i] \in Int /\ D[i + 1] \in Int
    BY <1>2
  <1>4. ASSUME NEW e \in Nat, D[i + 1] - d - 1 = D[i] - e - 1
        PROVE  Opens(D, i + 1, d) = Opens(D, i, e)
    <2> DEFINE t == D[i] - e - 1
    <2>1. t \in Int /\ D[i] > t /\ D[i + 1] > t
      BY <1>3, <1>4
    <2>2. /\ Opens(D, i, e) = {o \in 0 .. i - 1 : D[o] = t /\ \A k \in o + 1 .. i : D[k] > t}
          /\ Opens(D, i + 1, d) = {o \in 0 .. i : D[o] = t /\ \A k \in o + 1 .. i + 1 : D[k] > t}
      BY <1>4 DEF Opens
    <2> HIDE DEF t
    <2>3. ASSUME NEW o \in 0 .. i, D[o] = t, \A k \in o + 1 .. i + 1 : D[k] > t
          PROVE  o \in 0 .. i - 1 /\ \A k \in o + 1 .. i : D[k] > t
      <3>1. o # i
        BY <1>3, <2>1, <2>3
      <3>2. \A k \in o + 1 .. i : k \in o + 1 .. i + 1
        OBVIOUS
      <3> QED BY <2>3, <3>1, <3>2
    <2>4. ASSUME NEW o \in 0 .. i - 1, D[o] = t, \A k \in o + 1 .. i : D[k] > t
          PROVE  o \in 0 .. i /\ \A k \in o + 1 .. i + 1 : D[k] > t
      <3>1. \A k \in o + 1 .. i + 1 : k = i + 1 \/ k \in o + 1 .. i
        OBVIOUS
      <3> QED BY <2>1, <2>4, <3>1
    <2> QED BY <2>2, <2>3, <2>4
  <1>5. CASE Holds(buf, i, pair[2])
    <2>1. d + 1 \in Nat /\ D[i + 1] - d - 1 = D[i] - (d + 1) - 1 /\ ~Holds(buf, i, pair[1])
      BY <1>3, <1>5 DEF Nests
    <2>2. Opens(D, i + 1, d) = Opens(D, i, d + 1)
      BY <1>4, <2>1
    <2> QED BY <1>5, <2>1, <2>2 DEF Opens
  <1>6. CASE Holds(buf, i, pair[1])
    <2>1. ~Holds(buf, i, pair[2]) /\ D[i + 1] = D[i] + 1
      BY <1>6 DEF Nests
    <2>2. CASE d # 0
      <3>1. d - 1 \in Nat /\ D[i + 1] - d - 1 = D[i] - (d - 1) - 1
        BY <1>3, <2>1, <2>2
      <3>2. Opens(D, i + 1, d) = Opens(D, i, d - 1)
        BY <1>4, <3>1
      <3> QED BY <1>6, <2>1, <2>2, <3>2 DEF Opens
    <2>3. CASE d = 0
      <3>1. Opens(D, i + 1, 0) = {i}
        <4>1. D[i + 1] - 0 - 1 = D[i]
          BY <1>3, <2>1
        <4>2. i \in Opens(D, i + 1, 0)
          <5>1. i \in 0 .. (i + 1) - 1 /\ \A k \in i + 1 .. i + 1 : k = i + 1
            OBVIOUS
          <5> QED BY <1>3, <2>1, <4>1, <5>1 DEF Opens
        <4>3. ASSUME NEW o \in Opens(D, i + 1, 0), o # i PROVE FALSE
          <5>1. o \in 0 .. (i + 1) - 1 /\ \A k \in o + 1 .. i + 1 : D[k] > D[i]
            BY <4>1 DEF Opens
          <5>2. i \in o + 1 .. i + 1
            BY <4>3, <5>1
          <5> QED BY <1>3, <5>1, <5>2
        <4> QED BY <4>2, <4>3
      <3> QED BY <1>6, <2>1, <2>3, <3>1 DEF Opens
    <2> QED BY <2>2, <2>3
  <1>7. CASE ~Holds(buf, i, pair[1]) /\ ~Holds(buf, i, pair[2])
    <2>1. D[i + 1] - d - 1 = D[i] - d - 1
      BY <1>7 DEF Nests
    <2>2. Opens(D, i + 1, d) = Opens(D, i, d)
      BY <1>4, <2>1
    <2> QED BY <1>7, <2>2 DEF Opens
  <1> QED BY <1>5, <1>6, <1>7

-----------------------------------------------------------------------------
(* The walk of CloseAfter, at every depth at once. *)
LEMMA CloseAfterIs ==
    ASSUME NEW buf \in Seq(Byte), NEW pair, NEW D, Nests(D, buf, pair),
           NEW open \in Nat, open < Len(buf)
    PROVE  CloseAfter(buf, open, pair) = Closes(D, Len(buf), open + 1, 1)
  <1> DEFINE len == Len(buf)
             n == len - (open + 1)
             At(i, w) == [depth \in Nat \ {0} |->
                IF i = Len(buf) THEN {}
                ELSE CASE Holds(buf, i, pair[1]) -> w[depth + 1]
                       [] Holds(buf, i, pair[2]) -> IF depth = 1 THEN {i} ELSE w[depth - 1]
                       [] OTHER -> w[depth]]
             E(f) == [i \in (open + 1) .. Len(buf) |-> At(i, f[i + 1])]
             walk == CHOOSE f : f = E(f)
             G(i) == [depth \in Nat \ {0} |-> Closes(D, len, i, depth)]
             g == [i \in (open + 1) .. len |-> G(i)]
  <1>1. len \in Nat /\ n \in Nat /\ len - n = open + 1
    OBVIOUS
  <1>2. ASSUME NEW i \in (open + 1) .. len, NEW w, i = len \/ w = G(i + 1)
        PROVE  At(i, w) = G(i)
    <2>1. ASSUME NEW depth \in Nat \ {0}
          PROVE  (IF i = Len(buf) THEN {}
                  ELSE CASE Holds(buf, i, pair[1]) -> w[depth + 1]
                         [] Holds(buf, i, pair[2]) -> IF depth = 1 THEN {i} ELSE w[depth - 1]
                         [] OTHER -> w[depth]) = Closes(D, len, i, depth)
      <3>1. CASE i = len
        <4>1. Closes(D, len, len, depth) = {}
          BY <1>1 DEF Closes
        <4> QED BY <3>1, <4>1
      <3>2. CASE i # len
        <4>1. i \in Nat /\ i < Len(buf)
          BY <3>2
        <4>2. ~(Holds(buf, i, pair[1]) /\ Holds(buf, i, pair[2]))
          BY <4>1 DEF Nests
        <4>3. depth + 1 \in Nat \ {0} /\ (depth # 1 => depth - 1 \in Nat \ {0})
          OBVIOUS
        <4>4. \A d \in Nat \ {0} : w[d] = Closes(D, len, i + 1, d)
          BY <1>2, <3>2
        <4>5. /\ w[depth + 1] = Closes(D, len, i + 1, depth + 1)
              /\ depth # 1 => w[depth - 1] = Closes(D, len, i + 1, depth - 1)
              /\ w[depth] = Closes(D, len, i + 1, depth)
          BY <4>3, <4>4
        <4>6. /\ Holds(buf, i, pair[1]) => Closes(D, Len(buf), i, depth) = Closes(D, Len(buf), i + 1, depth + 1)
              /\ Holds(buf, i, pair[2]) => Closes(D, Len(buf), i, depth) =
                    IF depth = 1 THEN {i} ELSE Closes(D, Len(buf), i + 1, depth - 1)
              /\ ~Holds(buf, i, pair[1]) /\ ~Holds(buf, i, pair[2])
                    => Closes(D, Len(buf), i, depth) = Closes(D, Len(buf), i + 1, depth)
          BY <4>1, ClosesFrom
        <4>7. CASE Holds(buf, i, pair[1])
          BY <3>2, <4>5, <4>6, <4>7, Zenon
        <4>8. CASE Holds(buf, i, pair[2])
          BY <3>2, <4>2, <4>5, <4>6, <4>8, Zenon
        <4>9. CASE ~Holds(buf, i, pair[1]) /\ ~Holds(buf, i, pair[2])
          BY <3>2, <4>5, <4>6, <4>9, Zenon
        <4> QED BY <4>7, <4>8, <4>9
      <3> QED BY <3>1, <3>2
    <2> QED BY <2>1, Zenon
  <1> HIDE DEF At, G, n
  <1>3. g = E(g)
    <2>1. \A i \in (open + 1) .. len : At(i, g[i + 1]) = G(i)
      <3> TAKE i \in (open + 1) .. len
      <3>1. i = len \/ i + 1 \in (open + 1) .. len
        BY <1>1
      <3>2. i = len \/ g[i + 1] = G(i + 1)
        BY <3>1
      <3> HIDE DEF g
      <3> QED BY <1>2, <3>2
    <2>2. E(g) = [i \in (open + 1) .. len |-> G(i)]
      <3> HIDE DEF g
      <3> QED BY <2>1
    <2> QED BY <2>2
  <1>4. walk = E(walk)
    <2> HIDE DEF E
    <2> QED BY <1>3
  <1>5. CloseAfter(buf, open, pair) = walk[open + 1][1]
    BY DEF CloseAfter, At
  <1> HIDE DEF walk, g
  <1>6. \A i \in (open + 1) .. len : walk[i] = At(i, walk[i + 1])
    BY <1>4
  <1> DEFINE I == {k \in 0 .. n : walk[len - k] = G(len - k)}
  <1>7. 0 \in I
    <2>1. 0 \in 0 .. n /\ len - 0 = len /\ len \in (open + 1) .. len
      BY <1>1
    <2> HIDE DEF len
    <2> QED BY <1>2, <1>6, <2>1
  <1>8. \A k \in 1 .. n : k - 1 \in I => k \in I
    <2>1. \A k \in 1 .. n : k \in 0 .. n /\ len - k \in (open + 1) .. len
                            /\ (len - k) + 1 = len - (k - 1)
      BY <1>1
    <2> HIDE DEF len
    <2> QED BY <1>2, <1>6, <2>1
  <1>9. n \in I
    <2>1. n \in 0 .. n
      BY <1>1
    <2> HIDE DEF I
    <2> QED BY <1>1, <1>7, <1>8, <2>1, StepByStep
  <1>10. walk[open + 1] = G(open + 1)
    BY <1>1, <1>9
  <1> QED BY <1>5, <1>10 DEF G

(* And the one of OpenBefore. *)
LEMMA OpenBeforeIs ==
    ASSUME NEW buf \in Seq(Byte), NEW pair, NEW D, Nests(D, buf, pair), NEW cur \in Nat
    PROVE  OpenBefore(buf, cur, pair) =
              IF cur >= Len(buf) THEN {}
              ELSE Opens(D, IF Holds(buf, cur, pair[2]) THEN cur ELSE cur + 1, 0)
  <1> DEFINE On(i, w, d) == IF i = 0 THEN {} ELSE w[d]
             At(i, w) == [depth \in Nat |->
                    CASE Holds(buf, i, pair[2]) /\ i # cur -> On(i, w, depth + 1)
                      [] Holds(buf, i, pair[1]) -> IF depth = 0 THEN {i} ELSE On(i, w, depth - 1)
                      [] OTHER -> On(i, w, depth)]
             E(f) == [i \in 0 .. cur |-> At(i, f[i - 1])]
             walk == CHOOSE f : f = E(f)
             Edge(i) == IF i = cur /\ Holds(buf, i, pair[2]) THEN i ELSE i + 1
             G(i) == [depth \in Nat |-> Opens(D, Edge(i), depth)]
             g == [i \in 0 .. cur |-> G(i)]
  <1>2. ASSUME NEW i \in 0 .. cur, NEW w, i = 0 \/ w = G(i - 1)
        PROVE  At(i, w) = G(i)
    <2>1. ASSUME NEW depth \in Nat
          PROVE  (CASE Holds(buf, i, pair[2]) /\ i # cur -> On(i, w, depth + 1)
                    [] Holds(buf, i, pair[1]) -> IF depth = 0 THEN {i} ELSE On(i, w, depth - 1)
                    [] OTHER -> On(i, w, depth)) = Opens(D, Edge(i), depth)
      <3>1. i \in Nat /\ ~(Holds(buf, i, pair[1]) /\ Holds(buf, i, pair[2]))
        BY DEF Nests
      <3>2. depth + 1 \in Nat /\ (depth # 0 => depth - 1 \in Nat)
        OBVIOUS
      <3>3. \A d \in Nat : On(i, w, d) = Opens(D, i, d)
        <4>1. CASE i = 0
          BY <3>1, <4>1, OpensFrom
        <4>2. CASE i # 0
          <5>1. i - 1 # cur /\ (i - 1) + 1 = i
            BY <4>2
          <5>2. w = G(i - 1) /\ Edge(i - 1) = i
            BY <1>2, <4>2, <5>1
          <5> HIDE DEF Edge
          <5> QED BY <4>2, <5>2
        <4> QED BY <4>1, <4>2
      <3>4. /\ On(i, w, depth + 1) = Opens(D, i, depth + 1)
            /\ depth # 0 => On(i, w, depth - 1) = Opens(D, i, depth - 1)
            /\ On(i, w, depth) = Opens(D, i, depth)
        <4> HIDE DEF On
        <4> QED BY <3>2, <3>3
      <3>5. /\ Holds(buf, i, pair[2]) => Opens(D, i + 1, depth) = Opens(D, i, depth + 1)
            /\ Holds(buf, i, pair[1]) /\ depth = 0 => Opens(D, i + 1, depth) = {i}
            /\ Holds(buf, i, pair[1]) /\ depth # 0 => Opens(D, i + 1, depth) = Opens(D, i, depth - 1)
            /\ ~Holds(buf, i, pair[1]) /\ ~Holds(buf, i, pair[2])
                  => Opens(D, i + 1, depth) = Opens(D, i, depth)
        BY <3>1, OpensFrom, SMTT(30)
      <3>6. CASE Holds(buf, i, pair[2]) /\ i = cur
        <4>1. Edge(i) = i
          BY <3>6
        <4> HIDE DEF On, Edge
        <4> QED BY <3>1, <3>4, <3>6, <4>1, Zenon
      <3>7. CASE ~(Holds(buf, i, pair[2]) /\ i = cur)
        <4>1. Edge(i) = i + 1
          BY <3>7
        <4> HIDE DEF On, Edge
        <4>2. CASE Holds(buf, i, pair[2])
          BY <3>4, <3>5, <3>7, <4>1, <4>2, Zenon
        <4>3. CASE Holds(buf, i, pair[1])
          BY <3>1, <3>4, <3>5, <4>1, <4>3, Zenon
        <4>4. CASE ~Holds(buf, i, pair[1]) /\ ~Holds(buf, i, pair[2])
          BY <3>4, <3>5, <4>1, <4>4, Zenon
        <4> QED BY <4>2, <4>3, <4>4
      <3> QED BY <3>6, <3>7
    <2> HIDE DEF On, Edge
    <2> QED BY <2>1, Zenon
  <1> HIDE DEF At, G
  <1>3. g = E(g)
    <2>1. \A i \in 0 .. cur : At(i, g[i - 1]) = G(i)
      <3> TAKE i \in 0 .. cur
      <3>1. i = 0 \/ i - 1 \in 0 .. cur
        OBVIOUS
      <3>2. i = 0 \/ g[i - 1] = G(i - 1)
        BY <3>1
      <3> HIDE DEF g
      <3> QED BY <1>2, <3>2
    <2>2. E(g) = [i \in 0 .. cur |-> G(i)]
      <3> HIDE DEF g
      <3> QED BY <2>1
    <2> QED BY <2>2
  <1>4. walk = E(walk)
    <2> HIDE DEF E
    <2> QED BY <1>3
  <1>5. OpenBefore(buf, cur, pair) = IF cur >= Len(buf) THEN {} ELSE walk[cur][0]
    BY DEF OpenBefore, At
  <1> HIDE DEF walk, g
  <1>6. \A i \in 0 .. cur : walk[i] = At(i, walk[i - 1])
    BY <1>4
  <1> DEFINE I == {k \in 0 .. cur : walk[k] = G(k)}
  <1>7. 0 \in I
    <2>1. 0 \in 0 .. cur
      OBVIOUS
    <2> QED BY <1>2, <1>6, <2>1
  <1>8. \A k \in 1 .. cur : k - 1 \in I => k \in I
    <2>1. \A k \in 1 .. cur : k \in 0 .. cur
      OBVIOUS
    <2> QED BY <1>2, <1>6, <2>1
  <1>9. cur \in I
    <2>1. cur \in 0 .. cur
      OBVIOUS
    <2> HIDE DEF I
    <2> QED BY <1>7, <1>8, <2>1, StepByStep
  <1>10. walk[cur] = G(cur)
    BY <1>9
  <1>11. walk[cur][0] = Opens(D, Edge(cur), 0)
    <2> HIDE DEF Edge
    <2> QED BY <1>10 DEF G
  <1> QED BY <1>5, <1>11

(* i( and a( on every content: the innermost pair, balanced or not around it. *)
LEMMA BracketRangeIs ==
    ASSUME NEW buf \in Seq(Byte), NEW pair, pair[1] # pair[2], NEW cur \in Nat, NEW o, NEW c
    PROVE  (o \in OpenBefore(buf, cur, pair) /\ c \in CloseAfter(buf, o, pair)) <=>
              LET pairs == {m \in Matched(buf, pair) : m[1] <= cur /\ cur <= m[2]}
              IN  <<o, c>> \in pairs /\ \A n \in pairs : n[1] <= o
  <1> DEFINE D == Depth(buf, pair)
             len == Len(buf)
             e == IF Holds(buf, cur, pair[2]) THEN cur ELSE cur + 1
             pairs == {m \in Matched(buf, pair) : m[1] <= cur /\ cur <= m[2]}
             IsPair(x, y) == /\ x < y /\ y < len
                             /\ Holds(buf, x, pair[1]) /\ Holds(buf, y, pair[2])
                             /\ D[y + 1] = D[x] /\ \A k \in x + 1 .. y : D[k] > D[x]
  <1>1. Nests(D, buf, pair)
    BY DepthNests
  <1>2. len \in Nat
    OBVIOUS
  <1>3. \A x \in Nat, y \in Nat : <<x, y>> \in Matched(buf, pair) <=> IsPair(x, y)
    BY MatchedIs
  <1>4. \A m \in Matched(buf, pair) : m[1] \in Nat /\ m[2] \in Nat /\ m = <<m[1], m[2]>>
    <2>1. LastOf(buf) \in Nat
      BY LastIs
    <2> QED BY <2>1 DEF Matched
  <1>5. OpenBefore(buf, cur, pair) = IF cur >= len THEN {} ELSE Opens(D, e, 0)
    BY <1>1, OpenBeforeIs
  <1>6. \A x \in Nat : x < len => CloseAfter(buf, x, pair) = Closes(D, len, x + 1, 1)
    BY <1>1, CloseAfterIs
  <1>7. e \in Nat /\ cur <= e /\ e <= cur + 1 /\ (e = cur <=> Holds(buf, cur, pair[2]))
    OBVIOUS
  <1>8. \A k \in Nat : /\ D[k] \in Int
                       /\ Holds(buf, k, pair[1]) => D[k + 1] = D[k] + 1 /\ ~Holds(buf, k, pair[2])
                       /\ Holds(buf, k, pair[2]) => D[k + 1] = D[k] - 1
                       /\ ~Holds(buf, k, pair[1]) /\ ~Holds(buf, k, pair[2]) => D[k + 1] = D[k]
    BY <1>1 DEF Nests
  <1>9. \A k : Holds(buf, k, pair[1]) \/ Holds(buf, k, pair[2]) => k < len
    BY DEF Holds
  <1>10. /\ Opens(D, e, 0) = {x \in 0 .. e - 1 : D[x] = D[e] - 1 /\ \A k \in x + 1 .. e : D[k] > D[e] - 1}
    <2>1. D[e] - 0 - 1 = D[e] - 1
      BY <1>7, <1>8
    <2> QED BY <2>1 DEF Opens
  <1>11. \A x \in Nat : Closes(D, len, x + 1, 1) =
            {y \in x + 1 .. len - 1 : D[y + 1] = D[x + 1] - 1 /\ \A k \in x + 1 .. y : D[k] > D[x + 1] - 1}
    BY DEF Closes
  <1> HIDE DEF D, len, e
  <1>12. \A x \in Nat, y \in Nat : <<x, y>> \in pairs <=> IsPair(x, y) /\ x <= cur /\ cur <= y
    <2> HIDE DEF IsPair
    <2> QED BY <1>3
  (* A pair around the caret is around the edge the walk starts from. *)
  <1>13. ASSUME NEW x \in Nat, NEW y \in Nat, <<x, y>> \in pairs
         PROVE  IsPair(x, y) /\ x < e /\ e <= y /\ e \in x + 1 .. y
    <2>1. IsPair(x, y) /\ x <= cur /\ cur <= y
      BY <1>12, <1>13
    <2>2. x < e
      <3>1. CASE x = cur
        <4>1. ~Holds(buf, cur, pair[2])
          BY <1>8, <2>1, <3>1
        <4> QED BY <1>7, <3>1, <4>1
      <3>2. CASE x # cur
        BY <1>7, <2>1, <3>2
      <3> QED BY <3>1, <3>2
    <2>3. e <= y
      <3>1. CASE y = cur
        BY <1>7, <2>1, <3>1
      <3>2. CASE y # cur
        BY <1>7, <2>1, <3>2
      <3> QED BY <3>1, <3>2
    <2> QED BY <1>7, <2>1, <2>2, <2>3
  (* What the walks find. *)
  <1>14. ASSUME o \in OpenBefore(buf, cur, pair), c \in CloseAfter(buf, o, pair)
         PROVE  <<o, c>> \in pairs /\ \A n \in pairs : n[1] <= o
    <2>1. cur < len /\ o \in Opens(D, e, 0)
      BY <1>2, <1>5, <1>14
    <2>2. /\ o \in Nat /\ o < e /\ o <= cur /\ o < len /\ D[o] = D[e] - 1
          /\ \A k \in o + 1 .. e : D[k] > D[e] - 1
      BY <1>2, <1>7, <1>10, <2>1
    <2>3. D[o] \in Int /\ D[e] \in Int /\ D[o + 1] \in Int
      BY <1>7, <1>8, <2>2
    <2>4. o + 1 \in o + 1 .. e
      BY <1>7, <2>2
    <2>5. Holds(buf, o, pair[1]) /\ D[o + 1] = D[o] + 1
      <3>1. D[o + 1] > D[o]
        BY <2>2, <2>3, <2>4
      <3> QED BY <1>8, <2>2, <2>3, <3>1
    <2>6. /\ c \in o + 1 .. len - 1 /\ D[c + 1] = D[o] /\ \A k \in o + 1 .. c : D[k] > D[o]
      <3>1. c \in Closes(D, len, o + 1, 1) /\ D[o + 1] - 1 = D[o]
        BY <1>6, <1>14, <2>2, <2>3, <2>5
      <3> QED BY <1>11, <2>2, <3>1
    <2>7. c \in Nat /\ o < c /\ c < len /\ c + 1 \in Nat /\ c \in o + 1 .. c
      BY <1>2, <2>2, <2>6
    <2>8. Holds(buf, c, pair[2])
      <3>1. D[c] > D[c + 1] /\ D[c] \in Int /\ D[c + 1] \in Int
        BY <1>8, <2>6, <2>7
      <3> QED BY <1>8, <2>7, <3>1
    <2>9. cur <= c
      <3>1. c + 1 \notin o + 1 .. e
        <4>1. D[c + 1] = D[e] - 1
          BY <2>2, <2>6
        <4> QED BY <2>2, <2>3, <4>1
      <3> QED BY <1>7, <2>2, <2>7, <3>1
    <2>10. <<o, c>> \in pairs
      BY <1>12, <2>2, <2>5, <2>6, <2>7, <2>8, <2>9
    <2>11. ASSUME NEW n \in pairs PROVE n[1] <= o
      <3>1. PICK x \in Nat, y \in Nat : n = <<x, y>> /\ n[1] = x
        BY <1>4
      <3>2. IsPair(x, y) /\ x < e /\ e \in x + 1 .. y
        <4> HIDE DEF pairs, IsPair
        <4> QED BY <1>13, <2>11, <3>1
      <3>3. D[e] > D[x]
        BY <3>2
      <3>4. x \notin o + 1 .. e
        BY <1>8, <2>2, <2>3, <3>3
      <3> QED BY <1>7, <2>2, <3>1, <3>2, <3>4
    <2> QED BY <2>10, <2>11
  (* And there is nothing else. *)
  <1>15. ASSUME <<o, c>> \in pairs, \A n \in pairs : n[1] <= o
         PROVE  o \in OpenBefore(buf, cur, pair) /\ c \in CloseAfter(buf, o, pair)
    <2>1. o \in Nat /\ c \in Nat
      <3>1. <<o, c>>[1] = o /\ <<o, c>>[2] = c
        OBVIOUS
      <3> QED BY <1>4, <1>15, <3>1
    <2>2. IsPair(o, c) /\ o < e /\ e <= c /\ e \in o + 1 .. c /\ o <= cur /\ cur <= c
      BY <1>12, <1>13, <1>15, <2>1
    <2>3. D[e] > D[o] /\ D[e] \in Int /\ D[o] \in Int
      BY <1>7, <1>8, <2>1, <2>2
    <2> DEFINE S == {x \in 0 .. e - 1 : D[x] < D[e]}
               p == Max(S)
    <2>4. p \in S /\ p \in Nat /\ o <= p /\ \A x \in S : x <= p
      <3>1. S \in SUBSET (0 .. e) /\ o \in S
        BY <1>7, <2>1, <2>2, <2>3
      <3> HIDE DEF S
      <3> QED BY <1>7, <3>1, MaxIs
    <2> HIDE DEF p
    <2>5. p < e /\ D[p] < D[e] /\ p + 1 <= e /\ D[p] \in Int /\ D[p + 1] \in Int /\ p + 1 \in Nat
      BY <1>7, <1>8, <2>4
    <2>6. \A k \in p + 1 .. e : D[k] >= D[e] /\ D[k] \in Int /\ k \in Nat
      <3> TAKE k \in p + 1 .. e
      <3>1. k \in Nat /\ D[k] \in Int
        BY <1>8, <2>4
      <3>2. CASE k = e
        BY <2>3, <3>1, <3>2
      <3>3. CASE k # e
        <4>1. k \in 0 .. e - 1 /\ ~(k <= p)
          BY <1>7, <2>4, <3>3
        <4>2. ~(D[k] < D[e])
          BY <2>4, <4>1
        <4> QED BY <2>3, <3>1, <4>2
      <3> QED BY <3>1, <3>2, <3>3
    <2>7. p + 1 \in p + 1 .. e
      BY <1>7, <2>4, <2>5
    <2>8. Holds(buf, p, pair[1]) /\ D[p + 1] = D[p] + 1 /\ D[p] = D[e] - 1
      <3>1. D[p + 1] >= D[e]
        BY <2>6, <2>7
      <3>2. Holds(buf, p, pair[1])
        BY <1>8, <2>3, <2>4, <2>5, <3>1
      <3>3. D[p + 1] = D[p] + 1
        BY <1>8, <2>4, <3>2
      <3> QED BY <2>3, <2>5, <3>1, <3>2, <3>3
    <2>9. p = o
      <3> SUFFICES ASSUME p # o PROVE FALSE
        OBVIOUS
      <3>1. p < c /\ p \in o + 1 .. c
        BY <1>7, <2>1, <2>2, <2>4, <2>5
      <3>2. D[c + 1] <= D[p]
        BY <2>2, <2>3, <2>5, <3>1
      <3>3. PICK x \in p + 1 .. c : /\ Holds(buf, x, pair[2]) /\ D[x + 1] = D[p]
                                    /\ \A k \in p + 1 .. x : D[k] > D[p]
        BY <1>1, <2>1, <2>4, <2>8, <3>1, <3>2, ComesBack
      <3>4. x \in Nat /\ p < x /\ x < len /\ x + 1 \in Nat
        BY <1>9, <2>1, <2>4, <3>3
      <3>5. cur <= x
        <4>1. x + 1 \notin p + 1 .. e
          BY <2>3, <2>5, <2>6, <3>3
        <4> QED BY <1>7, <2>4, <3>4, <4>1
      <3>6. p <= cur
        BY <1>7, <2>4, <2>5
      <3>7. <<p, x>> \in pairs
        BY <1>12, <2>4, <2>8, <3>3, <3>4, <3>5, <3>6
      <3>8. <<p, x>>[1] <= o
        BY <1>15, <3>7
      <3> QED BY <2>1, <2>4, <3>8
    <2>10. cur < len /\ o < len /\ ~(cur >= len)
      BY <1>2, <2>1, <2>2
    <2>11. o \in Opens(D, e, 0)
      <3>1. o \in 0 .. e - 1
        BY <1>7, <2>1, <2>2
      <3>2. \A k \in o + 1 .. e : D[k] > D[e] - 1
        BY <2>3, <2>6, <2>9
      <3> QED BY <1>10, <2>8, <2>9, <3>1, <3>2
    <2>12. c \in Closes(D, len, o + 1, 1)
      <3>1. D[o + 1] - 1 = D[o] /\ c \in o + 1 .. len - 1
        BY <1>2, <2>1, <2>2, <2>3, <2>8, <2>9
      <3> QED BY <1>11, <2>1, <2>2, <3>1
    <2> QED BY <1>5, <1>6, <2>1, <2>10, <2>11, <2>12
  <1> QED BY <1>14, <1>15

(* Bracket objects on every content. *)
LEMMA BracketsExact ==
    ASSUME NEW buf \in Seq(Byte)
    PROVE  BracketsAreExact(buf)
  <1> SUFFICES ASSUME NEW cur \in 0 .. Len(buf), NEW pair \in Brackets, NEW around \in BOOLEAN
               PROVE  LET pairs == {m \in Matched(buf, pair) : m[1] <= cur /\ cur <= m[2]}
                          inmost == {m \in pairs : \A n \in pairs : n[1] <= m[1]}
                      IN  bracket_range(buf, cur, pair, around)
                             = UNION {Bounded(m[1], m[2], around) : m \in inmost}
    BY DEF BracketsAreExact
  <1> DEFINE pairs == {m \in Matched(buf, pair) : m[1] <= cur /\ cur <= m[2]}
             inmost == {m \in pairs : \A n \in pairs : n[1] <= m[1]}
             Found(o, c) == o \in OpenBefore(buf, cur, pair) /\ c \in CloseAfter(buf, o, pair)
  <1>1. cur \in Nat /\ pair[1] # pair[2]
    BY VimConstants
  <1>2. \A o, c : Found(o, c) <=> <<o, c>> \in pairs /\ \A n \in pairs : n[1] <= o
    BY <1>1, BracketRangeIs
  <1>3. \A m \in pairs : m = <<m[1], m[2]>>
    BY DEF Matched
  <1> HIDE DEF pairs, Found
  <1>4. \A o, c : Found(o, c) => <<o, c>> \in inmost
    BY <1>2
  <1>5. \A m \in inmost : Found(m[1], m[2])
    BY <1>2, <1>3
  <1> HIDE DEF inmost
  <1>6. ASSUME NEW r \in bracket_range(buf, cur, pair, around)
        PROVE  \E m \in inmost : r \in Bounded(m[1], m[2], around)
    <2>1. PICK o, c : Found(o, c) /\ r \in Bounded(o, c, around)
      BY <1>6 DEF bracket_range, Found
    <2>2. <<o, c>> \in inmost /\ <<o, c>>[1] = o /\ <<o, c>>[2] = c
      BY <1>4, <2>1
    <2> QED BY <2>1, <2>2
  <1>7. ASSUME NEW m \in inmost, NEW r \in Bounded(m[1], m[2], around)
        PROVE  r \in bracket_range(buf, cur, pair, around)
    BY <1>5, <1>7 DEF bracket_range, Found
  <1>8. bracket_range(buf, cur, pair, around) = UNION {Bounded(m[1], m[2], around) : m \in inmost}
    BY <1>6, <1>7
  <1> QED BY <1>8 DEF inmost, pairs

-----------------------------------------------------------------------------
(* Text objects. *)

(* Every range a text object answers with ends in reach. *)
LEMMA TextObjectIs ==
    ASSUME NEW buf \in Seq(Byte), NEW pane, NEW cur \in Nat, NEW around,
           NEW pair, pair[1] # pair[2], NEW q, NEW big
    PROVE  /\ bracket_range(buf, cur, pair, around) \subseteq Ranges(Len(buf), cur)
           /\ quote_range(buf, cur, q, around) \subseteq Ranges(Len(buf), cur)
           /\ word_object_range(buf, pane, cur, big, around) \subseteq Ranges(Len(buf), cur)
  <1>1. LastOf(buf) \in Nat /\ Len(buf) \in Nat /\ LastOf(buf) <= Len(buf)
    BY LastIs
  <1>2. ASSUME NEW r \in bracket_range(buf, cur, pair, around) PROVE r \in Ranges(Len(buf), cur)
    <2>1. PICK o \in OpenBefore(buf, cur, pair) :
             \E c \in CloseAfter(buf, o, pair) : r \in Bounded(o, c, around)
      BY <1>2 DEF bracket_range
    <2>2. PICK c \in CloseAfter(buf, o, pair) : r \in Bounded(o, c, around)
      BY <2>1
    <2>3. <<o, c>> \in Matched(buf, pair)
      BY <2>1, <2>2, BracketRangeIs
    <2>4. o \in Nat /\ c \in Nat /\ c <= Len(buf)
      BY <1>1, <2>3 DEF Matched
    <2> QED BY <1>1, <2>2, <2>4, BoundedIs
  <1>3. ASSUME NEW r \in quote_range(buf, cur, q, around) PROVE r \in Ranges(Len(buf), cur)
    <2> DEFINE opens == {i \in find_line_start(buf, cur) .. cur : Holds(buf, i, q)}
               closes == {i \in (Max(opens) + 1) .. find_line_end(buf, cur) : Holds(buf, i, q)}
    <2>1. opens # {} /\ closes # {} /\ r \in Bounded(Max(opens), Min(closes), around)
      BY <1>3 DEF quote_range
    <2>2. Max(opens) \in Nat
      <3>1. opens \in SUBSET (0 .. cur)
        BY LineStartIs
      <3> HIDE DEF opens
      <3> QED BY <2>1, <3>1, MaxIs
    <2>3. Min(closes) \in Nat /\ Min(closes) <= Len(buf)
      <3>1. find_line_end(buf, cur) \in Nat /\ find_line_end(buf, cur) <= Len(buf)
        BY LineEndIs
      <3>2. closes \in SUBSET Nat /\ \A x \in closes : x <= Len(buf)
        <4> HIDE DEF opens
        <4> QED BY <1>1, <2>2, <3>1
      <3> HIDE DEF closes
      <3> QED BY <2>1, <3>2, MinIs
    <2> HIDE DEF opens, closes
    <2> QED BY <1>1, <2>1, <2>2, <2>3, BoundedIs
  <1>4. ASSUME NEW r \in word_object_range(buf, pane, cur, big, around)
        PROVE  r \in Ranges(Len(buf), cur)
    <2>1. CASE pane = "Hex"
      <3>1. r = <<cur, cur>>
        BY <1>4, <2>1 DEF word_object_range
      <3> QED BY <1>1, <3>1, RangeIs
    <2>2. CASE pane # "Hex"
      <3> DEFINE Same(j) == ClassAt(buf, j, big) = ClassAt(buf, cur, big)
                 before == {i \in 0 .. cur : i = 0 \/ ~Same(i - 1)}
                 run == RunEnd(buf, cur, big)
                 next == FirstFrom(run + 1, Len(buf), {j \in 0 .. Len(buf) : ~IsSpace(buf, j)})
                 end == IF around THEN next - 1 ELSE run
      <3>1. cur < Len(buf) /\ r = <<Max(before), end>>
        <4>1. ~(cur >= Len(buf)) /\ r = <<Max(before), end>>
          BY <1>4, <2>2 DEF word_object_range
        <4> QED BY <1>1, <4>1
      <3>2. Max(before) \in Nat
        <4>1. before \in SUBSET (0 .. cur) /\ 0 \in before
          OBVIOUS
        <4> HIDE DEF before
        <4> QED BY <4>1, MaxIs
      <3>3. run \in Nat /\ run < Len(buf)
        BY <3>1, RunEndIs
      <3>4. next \in Nat /\ next >= run + 1 /\ next <= Len(buf)
        <4>1. run + 1 \in Nat /\ run + 1 <= Len(buf)
          BY <1>1, <3>3
        <4> HIDE DEF run
        <4> QED BY <1>1, <4>1, FirstFromIs
      <3>5. end \in Nat /\ end <= Len(buf)
        <4> HIDE DEF run, next
        <4> QED BY <1>1, <3>3, <3>4
      <3> HIDE DEF before, end
      <3> QED BY <1>1, <3>1, <3>2, <3>5, RangeIs
    <2> QED BY <2>1, <2>2
  <1> QED BY <1>2, <1>3, <1>4

-----------------------------------------------------------------------------
(* Arrows and words, `count` times. *)

Places(len, cur) == [sel: Ranges(len, cur), high: BOOLEAN]

(* Moving the caret, with or without the anchor. *)
LEMMA ToIs ==
    ASSUME NEW len \in Nat, NEW cur \in Nat, NEW sel \in Ranges(len, cur),
           NEW o \in Nat, o <= len \/ o <= sel[2], NEW extend
    PROVE  To(sel, o, extend) \in Ranges(len, cur)
  <1>1. PICK a \in Nat, b \in Reach(len, cur) : sel = <<a, b>>
    BY DEF Ranges
  <1>2. o \in Reach(len, cur)
    BY <1>1 DEF Reach
  <1> QED BY <1>1, <1>2 DEF To, Caret, Ranges, Reach

(* One arrow. *)
LEMMA ArrowIs ==
    ASSUME NEW len \in Nat, NEW cur \in Nat, NEW place \in Places(len, cur),
           NEW pane, NEW step, NEW extend
    PROVE  Arrow(place, pane, step, extend, len) \in Places(len, cur)
  <1>1. PICK a \in Nat, c \in Nat : place.sel = <<a, c>> /\ <<a, c>> \in Ranges(len, cur)
    BY DEF Places, Ranges, Reach
  <1>2. ASSUME NEW o \in Nat, o <= len \/ o <= c, NEW high \in BOOLEAN
        PROVE  [sel |-> To(place.sel, o, extend), high |-> high] \in Places(len, cur)
    <2>1. To(place.sel, o, extend) \in Ranges(len, cur)
      BY <1>1, <1>2, ToIs
    <2> QED BY <2>1 DEF Places
  <1>3. /\ Lesser(c + 1, len) \in Nat /\ Lesser(c + 1, len) <= len
        /\ Greater(c, 1) - 1 \in Nat /\ Greater(c, 1) - 1 <= c
    BY DEF Lesser, Greater
  <1>4. nav_nibble(place, pane, step, extend, len) \in Places(len, cur)
    <2>1. place.sel[2] = c
      BY <1>1
    <2> DEFINE At(o, high) == [sel |-> To(place.sel, o, extend), high |-> high]
    <2>2. \A o \in Nat, high \in BOOLEAN : o <= len \/ o <= c => At(o, high) \in Places(len, cur)
      BY <1>2
    <2>3. nav_nibble(place, pane, step, extend, len) =
             CASE pane = "Ascii" ->
                    At(IF step = "Right" THEN Lesser(c + 1, len) ELSE Greater(c, 1) - 1, TRUE)
               [] step = "Right" -> IF place.high THEN At(c, FALSE)
                                    ELSE At(Lesser(c + 1, len), TRUE)
               [] OTHER -> IF ~place.high THEN At(c, TRUE)
                           ELSE IF c = 0 THEN At(0, TRUE) ELSE At(Greater(c, 1) - 1, FALSE)
      BY <2>1 DEF nav_nibble
    <2>4. /\ At(c, TRUE) \in Places(len, cur) /\ At(c, FALSE) \in Places(len, cur)
          /\ At(0, TRUE) \in Places(len, cur)
          /\ At(Lesser(c + 1, len), TRUE) \in Places(len, cur)
          /\ At(Greater(c, 1) - 1, TRUE) \in Places(len, cur)
          /\ At(Greater(c, 1) - 1, FALSE) \in Places(len, cur)
      <3>1. 0 \in Nat /\ 0 <= len /\ c <= c
        OBVIOUS
      <3> HIDE DEF At
      <3> QED BY <1>3, <2>2, <3>1
    <2> HIDE DEF At
    <2> QED BY <2>3, <2>4
  <1>5. nav_row(place, step, extend, len) \in Places(len, cur)
    <2> DEFINE down == Lesser(c + Columns, Greater(len, 1) - 1)
               up == IF c >= Columns THEN c - Columns ELSE 0
               o == IF step = "Down" THEN down ELSE up
    <2>1. down \in Nat /\ down <= len /\ up \in Nat /\ up <= c
      BY VimConstants DEF Lesser, Greater
    <2>2. nav_row(place, step, extend, len) = [sel |-> To(place.sel, o, extend), high |-> TRUE]
      BY <1>1 DEF nav_row
    <2>3. o \in Nat /\ (o <= len \/ o <= c)
      <3> HIDE DEF down, up
      <3> QED BY <2>1
    <2> HIDE DEF o
    <2> QED BY <1>2, <2>2, <2>3
  <1> QED BY <1>4, <1>5 DEF Arrow

(* The places of a run of arrows, one for each of the presses so far. *)
ArrowsFrom(from, pane, step, extend, len, count) ==
    CHOOSE f : f = [n \in 0 .. count |->
                       IF n = 0 THEN from ELSE Arrow(f[n - 1], pane, step, extend, len)]

(* A count of arrows. *)
LEMMA ArrowsAre ==
    ASSUME NEW len \in Nat, NEW cur \in Nat, NEW from \in Places(len, cur),
           NEW pane, NEW step, NEW extend, NEW count \in Nat
    PROVE  ArrowsFrom(from, pane, step, extend, len, count)[count] \in Places(len, cur)
  <1>0. PICK place : place = ArrowsFrom(from, pane, step, extend, len, count)
    OBVIOUS
  <1> DEFINE S == Places(len, cur)
             At(p) == Arrow(p, pane, step, extend, len)
             E(f) == [n \in 0 .. count |-> IF n = 0 THEN from ELSE At(f[n - 1])]
  <1>1. \A p \in S : At(p) \in S
    BY ArrowIs
  <1>2. \E f : f = E(f)
    <2> DEFINE F == [p \in (1 .. count) \X S |-> At(p[2])]
    <2>1. F \in [(1 .. count) \X S -> S]
      <3> HIDE DEF At, S
      <3> QED BY <1>1
    <2>2. PICK g : Rounds(g, count, S, from, F)
      <3> HIDE DEF F
      <3> QED BY <2>1, RoundsRun, Zenon
    <2>3. \A k \in 0 .. count : g[k] = IF k = 0 THEN from ELSE At(g[k - 1])
      <3> TAKE k \in 0 .. count
      <3>1. CASE k = 0
        BY <2>2, <3>1 DEF Rounds
      <3>2. CASE k # 0
        <4>1. k \in 1 .. count /\ k - 1 \in 0 .. count
          BY <3>2
        <4>2. g[k - 1] \in S /\ g[k] = F[<<k, g[k - 1]>>]
          <5> HIDE DEF F, S
          <5> QED BY <2>2, <4>1 DEF Rounds
        <4> HIDE DEF At, S
        <4> QED BY <3>2, <4>1, <4>2
      <3> QED BY <3>1, <3>2
    <2>4. g = [k \in 0 .. count |-> g[k]]
      <3> HIDE DEF S, F
      <3> QED BY <2>2 DEF Rounds
    <2>5. g = E(g)
      <3> HIDE DEF At, F, S
      <3> QED BY <2>3, <2>4
    <2> QED BY <2>5
  <1>3. place = E(place)
    <2>1. place = CHOOSE f : f = E(f)
      BY <1>0 DEF ArrowsFrom
    <2> HIDE DEF E
    <2> QED BY <1>2, <2>1
  <1>4. place[0] = from /\ \A k \in 1 .. count : place[k] = At(place[k - 1])
    <2>1. 0 \in 0 .. count /\ \A k \in 1 .. count : k \in 0 .. count /\ k # 0
      OBVIOUS
    <2> HIDE DEF At
    <2>2. \A k \in 0 .. count : place[k] = IF k = 0 THEN from ELSE At(place[k - 1])
      BY <1>3
    <2> QED BY <2>1, <2>2
  <1> DEFINE I == {k \in 0 .. count : place[k] \in S}
  <1>5. 0 \in I /\ \A k \in 1 .. count : k - 1 \in I => k \in I
    <2>1. 0 \in 0 .. count /\ \A k \in 1 .. count : k \in 0 .. count
      OBVIOUS
    <2>2. from \in S
      OBVIOUS
    <2> HIDE DEF At, S
    <2> QED BY <1>1, <1>4, <2>1, <2>2
  <1>6. count \in I
    <2> HIDE DEF I
    <2>1. count \in 0 .. count
      OBVIOUS
    <2> QED BY <1>5, <2>1, StepByStep
  <1> QED BY <1>0, <1>6

(* One word motion. *)
LEMMA WordStepIs ==
    ASSUME view \in Seq(Byte), NEW motion \in {"w", "b", "e", "W", "B"}, NEW cur \in Nat,
           NEW from \in Reach(Len(view), cur)
    PROVE  WordStep(motion, from) \in Reach(Len(view), cur)
  <1>1. from \in Nat
    BY DEF Reach
  <1>2. WordStep(motion, from) \in Reach(Len(view), from)
    BY <1>1, WordForwardIs, WordBackIs, WordEndIs DEF WordStep
  <1> QED BY <1>2 DEF Reach

(* A count of word motions. *)
LEMMA WordsAre ==
    ASSUME view \in Seq(Byte), NEW motion \in {"w", "b", "e", "W", "B"}, NEW cur \in Nat,
           NEW count \in Nat, NEW at,
           at = CHOOSE f : f = [n \in 0 .. count |->
                                  IF n = 0 THEN cur ELSE WordStep(motion, f[n - 1])]
    PROVE  at[count] \in Reach(Len(view), cur)
  <1> DEFINE S == Reach(Len(view), cur)
             At(o) == WordStep(motion, o)
             E(f) == [n \in 0 .. count |-> IF n = 0 THEN cur ELSE At(f[n - 1])]
  <1>1. cur \in S /\ \A o \in S : At(o) \in S
    <2>1. cur \in S
      BY DEF Reach
    <2> QED BY <2>1, WordStepIs
  <1>2. \E f : f = E(f)
    <2> DEFINE F == [p \in (1 .. count) \X S |-> At(p[2])]
    <2>1. F \in [(1 .. count) \X S -> S]
      <3> HIDE DEF At, S
      <3> QED BY <1>1
    <2>2. PICK g : Rounds(g, count, S, cur, F)
      <3> HIDE DEF F, S
      <3> QED BY <1>1, <2>1, RoundsRun, Zenon
    <2>3. \A k \in 0 .. count : g[k] = IF k = 0 THEN cur ELSE At(g[k - 1])
      <3> TAKE k \in 0 .. count
      <3>1. CASE k = 0
        BY <2>2, <3>1 DEF Rounds
      <3>2. CASE k # 0
        <4>1. k \in 1 .. count /\ k - 1 \in 0 .. count
          BY <3>2
        <4>2. g[k - 1] \in S /\ g[k] = F[<<k, g[k - 1]>>]
          <5> HIDE DEF F, S
          <5> QED BY <2>2, <4>1 DEF Rounds
        <4> HIDE DEF At, S
        <4> QED BY <3>2, <4>1, <4>2
      <3> QED BY <3>1, <3>2
    <2>4. g = [k \in 0 .. count |-> g[k]]
      <3> HIDE DEF S, F
      <3> QED BY <2>2 DEF Rounds
    <2>5. g = E(g)
      <3> HIDE DEF At, F, S
      <3> QED BY <2>3, <2>4
    <2> QED BY <2>5
  <1>3. at = E(at)
    <2>1. at = CHOOSE f : f = E(f)
      OBVIOUS
    <2> HIDE DEF E
    <2> QED BY <1>2, <2>1
  <1>4. at[0] = cur /\ \A k \in 1 .. count : at[k] = At(at[k - 1])
    <2>1. 0 \in 0 .. count /\ \A k \in 1 .. count : k \in 0 .. count /\ k # 0
      OBVIOUS
    <2> HIDE DEF At
    <2>2. \A k \in 0 .. count : at[k] = IF k = 0 THEN cur ELSE At(at[k - 1])
      BY <1>3
    <2> QED BY <2>1, <2>2
  <1> DEFINE I == {k \in 0 .. count : at[k] \in S}
  <1>5. 0 \in I /\ \A k \in 1 .. count : k - 1 \in I => k \in I
    <2>1. 0 \in 0 .. count /\ \A k \in 1 .. count : k \in 0 .. count
      OBVIOUS
    <2> HIDE DEF At, S
    <2> QED BY <1>1, <1>4, <2>1
  <1>6. count \in I
    <2> HIDE DEF I
    <2>1. count \in 0 .. count
      OBVIOUS
    <2> QED BY <1>5, <2>1, StepByStep
  <1> QED BY <1>6

-----------------------------------------------------------------------------
(* The inductive invariant of the input: the bytes and the history are      *)
(* those of a session, whatever the keys; and where the nibble pointer is   *)
(* low, the last key left it at the caret that it left.                    *)

VimStates ==
    [mode: {"Normal", "Insert", "Replace", "Visual", "VisualLine"}, count: Nat,
     pending: {"None", "G", "Yank", "Delete", "f", "F", "t", "T", "Inner", "Around"},
     register: Seq(Byte)]

KeysTyped ==
    /\ selection = << >> \/ selection \in Nat \X Nat
    /\ drag_anchor = << >> \/ drag_anchor[1] \in Nat
    /\ vim \in VimStates
    /\ active_pane \in {"Hex", "Ascii"}
    /\ input_mode \in {"Default", "Vim"}

NibbleFollows == edit_high_nibble \/ half = last_cursor_offset

InputInv == IInv /\ KeysTyped /\ NibbleFollows

(* What the steps start from. *)
LEMMA Here ==
    ASSUME InputInv
    PROVE  /\ view = present /\ present \in Seq(Byte) /\ Len(present) \in Nat
           /\ sel0 \in Ranges(Len(present), cur0) /\ cur0 \in Nat
           /\ selection # << >> => selection \in Nat \X Nat /\ cur0 = cursor /\ sel0 = selection
           /\ CountOrOne \in Nat /\ CountOrOne # 0
           /\ vim \in VimStates /\ clear_pending \in VimStates
           /\ edit_high_nibble \in BOOLEAN /\ history_break \in BOOLEAN
           /\ typing_mode \in {"Replace", "Insert"}
  <1>1. view = present /\ present \in Seq(Byte)
    BY DEF InputInv, IInv, PatchShows, BufferTypes, view
  <1>2. sel0 \in Nat \X Nat /\ cur0 \in Nat
    BY DEF InputInv, KeysTyped, sel0, cur0, Caret
  <1>3. sel0 \in Ranges(Len(present), cur0)
    BY <1>2 DEF Ranges, Reach, cur0
  <1>4. vim \in VimStates
    BY DEF InputInv, KeysTyped
  <1>5. CountOrOne \in Nat /\ CountOrOne # 0
    BY <1>4 DEF CountOrOne, Greater, VimStates
  <1>6. clear_pending \in VimStates
    BY <1>4 DEF clear_pending, VimStates
  <1>7. selection # << >> => selection \in Nat \X Nat /\ cur0 = cursor /\ sel0 = selection
    BY DEF InputInv, KeysTyped, sel0, cur0, cursor
  <1>8. edit_high_nibble \in BOOLEAN /\ history_break \in BOOLEAN
        /\ typing_mode \in {"Replace", "Insert"}
    BY DEF InputInv, IInv, EditorTypes
  <1> QED BY <1>1, <1>2, <1>3, <1>4, <1>5, <1>6, <1>7, <1>8

(* Flags a step may leave behind. *)
FlagsTyped == typing_mode' \in {"Replace", "Insert"} /\ edit_high_nibble' \in BOOLEAN

(* A step that leaves the bytes alone. *)
LEMMA KeptIs ==
    ASSUME IInv, NEW boundary \in BOOLEAN, Kept(boundary), FlagsTyped
    PROVE  IInv' /\ present' = present
  <1>1. EditorTypes'
    BY DEF Kept, FlagsTyped, IInv, EditorTypes
  <1>2. UNCHANGED <<base_source, patch, undo_stack, redo_stack, bufferVars>> /\ present' = present
    BY DEF Kept, bufferVars
  <1> QED BY <1>1, <1>2, QuietKeeps

(* An accepted overwrite keeps the length. *)
LEMMA WroteIs ==
    ASSUME IInv, NEW offset \in Nat, NEW bytes \in Seq(Byte), NEW boundary,
           Wrote(offset, bytes, boundary), FlagsTyped
    PROVE  /\ IInv' /\ present' = Splice(present, offset, Len(bytes), bytes)
           /\ offset + Len(bytes) <= Len(present) /\ Len(present') = Len(present)
  <1>1. view = present /\ present \in Seq(Byte) /\ Len(bytes) \in Nat
    BY DEF IInv, PatchShows, BufferTypes, view
  <1>2. /\ BelowCap /\ (Len(bytes) > 0 \/ bytes # << >>)
        /\ offset + Len(bytes) <= Len(view)
        /\ Recorded(Entry(offset, Len(bytes), bytes), boundary) /\ history_break' \in BOOLEAN
        /\ \/ patch' = rebuild_patch_from_stack(undo_stack')
           \/ patch' = apply_lp_write_to_patch(undo_stack')
        /\ UNCHANGED <<base_source, mode>>
        /\ Change(Splice(present, offset, Len(bytes), bytes), Joined)
    BY DEF Wrote, Requested, request_write, record_entry, CanRecord, Edit
  <1>3. typing_mode' \in {"Replace", "Insert"} /\ edit_high_nibble' \in BOOLEAN
    BY DEF FlagsTyped
  <1>4. IInv' /\ present' = Splice(present, offset, Len(bytes), bytes)
    BY <1>1, <1>2, <1>3, EditRecorded
  <1> QED BY <1>1, <1>2, <1>4, SpliceType

(* A splice, accepted or refused. *)
LEMMA SplicedIs ==
    ASSUME IInv, NEW offset \in Nat, NEW remove \in Nat, NEW bytes \in Seq(Byte),
           NEW boundary \in BOOLEAN, Spliced(offset, remove, bytes, boundary), FlagsTyped
    PROVE  /\ IInv'
           /\ \/ ~Accepted(offset, remove) /\ present' = present
              \/ /\ Accepted(offset, remove)
                 /\ present' = Splice(present, offset, remove, bytes)
                 /\ offset + remove <= Len(present)
                 /\ Len(present') = Len(present) - remove + Len(bytes)
  <1>1. view = present /\ present \in Seq(Byte)
    BY DEF IInv, PatchShows, BufferTypes, view
  <1>2. CASE ~Accepted(offset, remove)
    BY <1>2, KeptIs DEF Spliced
  <1>3. CASE Accepted(offset, remove)
    <2>1. /\ BelowCap /\ (remove > 0 \/ bytes # << >>)
          /\ offset + remove <= Len(view)
          /\ Recorded(Entry(offset, remove, bytes), boundary) /\ history_break' \in BOOLEAN
          /\ patch' = rebuild_patch_from_stack(undo_stack')
          /\ UNCHANGED <<base_source, mode>>
          /\ Change(Splice(present, offset, remove, bytes), Joined)
      BY <1>3 DEF Spliced, Requested, splice, record_entry, CanRecord, Edit
    <2>2. typing_mode' \in {"Replace", "Insert"} /\ edit_high_nibble' \in BOOLEAN
      BY DEF FlagsTyped
    <2>3. IInv' /\ present' = Splice(present, offset, remove, bytes)
      BY <2>1, <2>2, EditRecorded
    <2> QED BY <1>1, <1>3, <2>1, <2>3, SpliceType, SMTT(30)
  <1> QED BY <1>2, <1>3

(* An insertion, accepted or refused. *)
LEMMA InsertedIs ==
    ASSUME IInv, NEW offset \in Nat, NEW bytes \in Seq(Byte),
           NEW boundary \in BOOLEAN, Inserted(offset, bytes, boundary), FlagsTyped
    PROVE  /\ IInv'
           /\ \/ ~Accepted(offset, 0) /\ present' = present
              \/ /\ Accepted(offset, 0)
                 /\ present' = Splice(present, offset, 0, bytes)
                 /\ offset <= Len(present)
                 /\ Len(present') = Len(present) + Len(bytes)
  <1>1. view = present /\ present \in Seq(Byte)
    BY DEF IInv, PatchShows, BufferTypes, view
  <1>2. CASE ~Accepted(offset, 0)
    BY <1>2, KeptIs DEF Inserted
  <1>3. CASE Accepted(offset, 0)
    <2>1. /\ BelowCap /\ (0 > 0 \/ bytes # << >>)
          /\ offset + 0 <= Len(view)
          /\ Recorded(Entry(offset, 0, bytes), boundary) /\ history_break' \in BOOLEAN
          /\ patch' = rebuild_patch_from_stack(undo_stack')
          /\ UNCHANGED <<base_source, mode>>
          /\ Change(Splice(present, offset, 0, bytes), Joined)
      BY <1>3 DEF Inserted, Requested, insert_at, record_entry, CanRecord, Edit
    <2>2. typing_mode' \in {"Replace", "Insert"} /\ edit_high_nibble' \in BOOLEAN
      BY DEF FlagsTyped
    <2>3. IInv' /\ present' = Splice(present, offset, 0, bytes)
      BY <2>1, <2>2, EditRecorded
    <2>4. Len(present') = Len(present) - 0 + Len(bytes) /\ offset <= Len(present)
      BY <1>1, <2>1, <2>3, SpliceType
    <2> QED BY <1>1, <1>3, <2>3, <2>4
  <1> QED BY <1>2, <1>3

-----------------------------------------------------------------------------
(* The keys of default dispatch. *)

(* Where the caret of a step lands: still inside, if it was. *)
Lands ==
    \/ selection' = << >>
    \/ selection' \in Nat \X Nat /\ (cur0 <= Len(present) => selection'[2] <= Len(present'))

(* The caret goes somewhere in reach and the bytes do not get fewer. *)
LEMMA LandsIn ==
    ASSUME InputInv, selection' \in Ranges(Len(present), cur0), Len(present') \in Nat,
           Len(present) <= Len(present')
    PROVE  Lands
  <1>1. Len(present) \in Nat /\ cur0 \in Nat
    BY Here
  <1>2. selection' \in Nat \X Nat /\ (cur0 <= Len(present) => selection'[2] <= Len(present))
    BY DEF Ranges, Reach
  <1>3. selection'[2] \in Nat
    BY <1>2
  <1> QED BY <1>1, <1>2, <1>3 DEF Lands

(* The caret stays and the bytes do not get fewer. *)
LEMMA LandsStill ==
    ASSUME InputInv, selection' = selection \/ selection' = sel0, Len(present') \in Nat,
           Len(present) <= Len(present')
    PROVE  Lands
  <1>1. selection' = << >> \/ selection' = sel0
    BY Here
  <1>2. CASE selection' = sel0
    BY <1>2, Here, LandsIn
  <1> QED BY <1>1, <1>2 DEF Lands

(* The caret goes to an offset inside the new bytes. *)
LEMMA LandsAt ==
    ASSUME InputInv, NEW o \in Nat, o <= Len(present'), selection' = Caret(o)
    PROVE  Lands
  BY DEF Lands, Caret

(* The look at the caret gives flags. *)
LEMMA StartFlags ==
    ASSUME InputInv
    PROVE  NibbleAtStart \in BOOLEAN /\ BoundaryAtStart \in BOOLEAN
  BY Zenon DEF NibbleAtStart, BoundaryAtStart

(* The two halves of a byte. *)
LEMMA Halves ==
    ASSUME NEW byte \in Byte, NEW nibble \in Nibbles
    PROVE  /\ nibble * NibbleBase \in Byte
           /\ nibble * NibbleBase + (byte % NibbleBase) \in Byte
           /\ (byte \div NibbleBase) * NibbleBase + nibble \in Byte
  <1>1. /\ NibbleBase \in Nat /\ NibbleBase > 0 /\ nibble \in Nat /\ nibble < NibbleBase
        /\ byte \in Nat /\ byte < NibbleBase * NibbleBase
    BY InputConstants
  <1>2. /\ byte % NibbleBase \in Nat /\ byte % NibbleBase < NibbleBase
        /\ byte \div NibbleBase \in Nat
        /\ byte = NibbleBase * (byte \div NibbleBase) + (byte % NibbleBase)
    BY <1>1
  <1>3. ASSUME NEW h \in Nat, h < NibbleBase, NEW l \in Nat, l < NibbleBase
        PROVE  h * NibbleBase + l \in Nat /\ h * NibbleBase + l < NibbleBase * NibbleBase
    <2>1. h + 1 <= NibbleBase /\ h + 1 \in Nat
      BY <1>1, <1>3
    <2>2. (h + 1) * NibbleBase <= NibbleBase * NibbleBase
      BY <1>1, <2>1
    <2>3. (h + 1) * NibbleBase = h * NibbleBase + NibbleBase /\ h * NibbleBase \in Nat
          /\ NibbleBase * NibbleBase \in Nat
      BY <1>1
    <2> QED BY <1>1, <1>3, <2>2, <2>3
  <1>4. byte \div NibbleBase < NibbleBase
    <2>1. PICK q \in Nat, r \in Nat : q = byte \div NibbleBase /\ r = byte % NibbleBase
      BY <1>2
    <2>2. q >= NibbleBase => NibbleBase * q >= NibbleBase * NibbleBase
      BY <1>1, <2>1
    <2>3. NibbleBase * q \in Nat /\ NibbleBase * NibbleBase \in Nat
      BY <1>1
    <2> QED BY <1>1, <1>2, <2>1, <2>2, <2>3
  <1>5. \A b \in Nat : b < NibbleBase * NibbleBase => b \in Byte
    BY <1>1, InputConstants
  <1>6. nibble * NibbleBase = nibble * NibbleBase + 0
    BY <1>1
  <1> QED BY <1>1, <1>2, <1>3, <1>4, <1>5, <1>6

(* A buffer of one byte. *)
LEMMA OneByte ==
    ASSUME NEW b \in Byte
    PROVE  <<b>> \in Seq(Byte) /\ Len(<<b>>) = 1
  OBVIOUS

(* A digit; one that completes a byte found the pointer low and the caret unmoved. *)
LEMMA HexDigitIs ==
    ASSUME InputInv, HexDigit
    PROVE  /\ IInv' /\ Lands /\ edit_high_nibble' \in BOOLEAN
           /\ /\ Len(present') = Len(present) /\ present' # present /\ edit_high_nibble'
              /\ selection # << >>
              => ~NibbleAtStart
  <1>1. /\ view = present /\ present \in Seq(Byte) /\ Len(present) \in Nat
        /\ typing_mode' = typing_mode /\ typing_mode \in {"Replace", "Insert"}
        /\ NibbleAtStart \in BOOLEAN /\ BoundaryAtStart \in BOOLEAN /\ IInv
        /\ selection # << >> => cursor \in Nat
    BY Here, StartFlags DEF HexDigit, InputInv, cursor
  <1>2. CASE selection = << >>
    <2>1. Kept(BoundaryAtStart) /\ Stay
      BY <1>2 DEF HexDigit
    <2>2. FlagsTyped /\ edit_high_nibble' \in BOOLEAN /\ selection' = << >>
      BY <1>1, <1>2, <2>1 DEF Stay, FlagsTyped
    <2>3. IInv' /\ present' = present
      BY <1>1, <2>1, <2>2, KeptIs
    <2> QED BY <1>2, <2>2, <2>3 DEF Lands
  <1>3. CASE selection # << >>
    <2> DEFINE creating_new_byte == NibbleAtStart /\ (typing_mode = "Insert" \/ cursor >= Len(view))
               current == view[cursor + 1]
    <2>1. PICK nibble \in Nibbles :
             \/ /\ creating_new_byte
                /\ Inserted(cursor, <<nibble * NibbleBase>>, BoundaryAtStart)
                /\ IF Accepted(cursor, 0)
                   THEN selection' = selection /\ edit_high_nibble' = FALSE
                   ELSE Stay
             \/ /\ ~creating_new_byte /\ cursor >= Len(view)
                /\ Kept(BoundaryAtStart) /\ Stay
             \/ /\ ~creating_new_byte /\ cursor < Len(view)
                /\ Wrote(cursor, <<IF NibbleAtStart
                                   THEN nibble * NibbleBase + (current % NibbleBase)
                                   ELSE (current \div NibbleBase) * NibbleBase + nibble>>,
                         BoundaryAtStart)
                /\ edit_high_nibble' = ~NibbleAtStart
                /\ IF NibbleAtStart THEN selection' = selection ELSE advance_cursor_byte
      BY <1>3 DEF HexDigit
    <2>2. CASE /\ Inserted(cursor, <<nibble * NibbleBase>>, BoundaryAtStart)
               /\ IF Accepted(cursor, 0)
                  THEN selection' = selection /\ edit_high_nibble' = FALSE
                  ELSE Stay
      <3>1. edit_high_nibble' \in BOOLEAN /\ selection' = selection
        BY <1>1, <2>2 DEF Stay
      <3>2. FlagsTyped
        BY <1>1, <3>1 DEF FlagsTyped
      <3>3. nibble * NibbleBase \in Byte
        <4>1. 0 \in Byte
          BY InputConstants
        <4> QED BY <4>1, Halves
      <3>4. /\ IInv'
            /\ \/ present' = present
               \/ Len(present') = Len(present) + 1
        BY <1>1, <1>3, <2>2, <3>2, <3>3, InsertedIs, OneByte
      <3>5. Len(present') \in Nat /\ Len(present) <= Len(present')
        BY <1>1, <3>4
      <3>6. Len(present') = Len(present) => present' = present
        BY <1>1, <3>4
      <3> QED BY <3>1, <3>4, <3>5, <3>6, LandsStill
    <2>3. CASE Kept(BoundaryAtStart) /\ Stay
      <3>1. edit_high_nibble' \in BOOLEAN /\ selection' = selection /\ FlagsTyped
        BY <1>1, <2>3 DEF Stay, FlagsTyped
      <3>2. IInv' /\ present' = present
        BY <1>1, <2>3, <3>1, KeptIs
      <3> QED BY <1>1, <3>1, <3>2, LandsStill
    <2>4. CASE /\ cursor < Len(view)
               /\ Wrote(cursor, <<IF NibbleAtStart
                                  THEN nibble * NibbleBase + (current % NibbleBase)
                                  ELSE (current \div NibbleBase) * NibbleBase + nibble>>,
                        BoundaryAtStart)
               /\ edit_high_nibble' = ~NibbleAtStart
               /\ IF NibbleAtStart THEN selection' = selection ELSE advance_cursor_byte
      <3>1. edit_high_nibble' \in BOOLEAN
        BY <2>4, Zenon
      <3>2. FlagsTyped
        BY <1>1, <3>1 DEF FlagsTyped
      <3>3. current \in Byte
        <4>1. cursor + 1 \in 1 .. Len(present)
          BY <1>1, <1>3, <2>4
        <4> QED BY <1>1, <4>1
      <3> DEFINE byte == IF NibbleAtStart THEN nibble * NibbleBase + (current % NibbleBase)
                         ELSE (current \div NibbleBase) * NibbleBase + nibble
      <3>4. byte \in Byte
        <4> HIDE DEF current
        <4> QED BY <3>3, Halves
      <3> HIDE DEF byte
      <3>5. Wrote(cursor, <<byte>>, BoundaryAtStart)
        BY <2>4 DEF byte
      <3>6. IInv' /\ Len(present') = Len(present)
        BY <1>1, <1>3, <3>2, <3>4, <3>5, WroteIs, OneByte
      <3>7. Lands
        <4>1. CASE NibbleAtStart
          BY <1>1, <2>4, <3>6, <4>1, LandsStill
        <4>2. CASE ~NibbleAtStart
          <5>1. view' = present'
            BY <3>6 DEF IInv, PatchShows, view
          <5>2. selection' = Caret(Lesser(cursor + 1, Len(present')))
            BY <2>4, <4>2, <5>1 DEF advance_cursor_byte
          <5>3. /\ Lesser(cursor + 1, Len(present')) \in Nat
                /\ Lesser(cursor + 1, Len(present')) <= Len(present')
            BY <1>1, <1>3, <3>6 DEF Lesser
          <5> QED BY <5>2, <5>3, LandsAt
        <4> QED BY <4>1, <4>2
      <3>8. edit_high_nibble' => ~NibbleAtStart
        BY <2>4
      <3> QED BY <3>1, <3>6, <3>7, <3>8
    <2> QED BY <2>1, <2>2, <2>3, <2>4
  <1> QED BY <1>2, <1>3

(* A character in the text pane. *)
LEMMA TypeTextIs ==
    ASSUME InputInv, TypeText
    PROVE  IInv' /\ Lands /\ edit_high_nibble' \in BOOLEAN
  <1>1. /\ view = present /\ present \in Seq(Byte) /\ Len(present) \in Nat
        /\ typing_mode' = typing_mode /\ typing_mode \in {"Replace", "Insert"}
        /\ edit_high_nibble' = NibbleAtStart
        /\ NibbleAtStart \in BOOLEAN /\ BoundaryAtStart \in BOOLEAN /\ IInv
        /\ selection # << >> => cursor \in Nat
    BY Here, StartFlags DEF TypeText, InputInv, cursor
  <1>2. edit_high_nibble' \in BOOLEAN /\ FlagsTyped
    BY <1>1 DEF FlagsTyped
  <1>3. CASE selection = << >>
    <2>1. Kept(BoundaryAtStart) /\ selection' = << >>
      BY <1>3 DEF TypeText
    <2>2. IInv'
      BY <1>1, <1>2, <2>1, KeptIs
    <2> QED BY <1>2, <2>1, <2>2 DEF Lands
  <1>4. CASE selection # << >>
    <2>1. PICK byte \in WordBytes :
             IF cursor >= Len(view) \/ typing_mode = "Insert"
             THEN /\ Inserted(cursor, <<byte>>, BoundaryAtStart)
                  /\ IF Accepted(cursor, 0) THEN advance_cursor_byte ELSE selection' = selection
             ELSE Wrote(cursor, <<byte>>, BoundaryAtStart) /\ advance_cursor_byte
      BY <1>4 DEF TypeText
    <2>2. <<byte>> \in Seq(Byte) /\ Len(<<byte>>) = 1
      BY InputConstants, OneByte
    <2>3. /\ IInv' /\ Len(present') \in Nat /\ Len(present) <= Len(present')
          /\ advance_cursor_byte \/ selection' = selection
      <3>1. CASE Inserted(cursor, <<byte>>, BoundaryAtStart)
        <4>1. IInv' /\ (present' = present \/ Len(present') = Len(present) + 1)
          BY <1>1, <1>2, <1>4, <2>2, <3>1, InsertedIs
        <4> QED BY <1>1, <2>1, <4>1
      <3>2. CASE Wrote(cursor, <<byte>>, BoundaryAtStart)
        <4>1. IInv' /\ Len(present') = Len(present)
          BY <1>1, <1>2, <1>4, <2>2, <3>2, WroteIs
        <4> QED BY <1>1, <2>1, <4>1
      <3> QED BY <2>1, <3>1, <3>2
    <2>4. Lands
      <3>1. CASE selection' = selection
        BY <2>3, <3>1, LandsStill
      <3>2. CASE advance_cursor_byte
        <4>1. view' = present'
          BY <2>3 DEF IInv, PatchShows, view
        <4>2. selection' = Caret(Lesser(cursor + 1, Len(present')))
          BY <3>2, <4>1 DEF advance_cursor_byte
        <4>3. /\ Lesser(cursor + 1, Len(present')) \in Nat
              /\ Lesser(cursor + 1, Len(present')) <= Len(present')
          BY <1>1, <1>4, <2>3 DEF Lesser
        <4> QED BY <4>2, <4>3, LandsAt
      <3> QED BY <2>3, <3>1, <3>2
    <2> QED BY <1>2, <2>3, <2>4
  <1> QED BY <1>3, <1>4

(* A step that leaves the bytes alone and the caret in reach. *)
LEMMA KeptLands ==
    ASSUME InputInv, NEW boundary \in BOOLEAN, Kept(boundary), FlagsTyped,
           \/ selection' \in Ranges(Len(present), cur0)
           \/ selection' = selection
    PROVE  IInv' /\ Lands /\ present' = present
  <1>1. IInv' /\ present' = present
    BY KeptIs DEF InputInv
  <1>2. Len(present') \in Nat /\ Len(present) <= Len(present')
    BY <1>1, Here
  <1> QED BY <1>1, <1>2, LandsIn, LandsStill

(* An arrow. *)
LEMMA ArrowKeyIs ==
    ASSUME InputInv, ArrowKey
    PROVE  IInv' /\ Lands /\ edit_high_nibble' \in BOOLEAN /\ present' = present
  <1>1. /\ view = present /\ Len(present) \in Nat /\ cur0 \in Nat
        /\ sel0 \in Ranges(Len(present), cur0) /\ NibbleAtStart \in BOOLEAN
        /\ typing_mode \in {"Replace", "Insert"}
    BY Here, StartFlags
  <1> DEFINE from == IF selection = << >> THEN [sel |-> Caret(0), high |-> TRUE]
                     ELSE [sel |-> selection, high |-> NibbleAtStart]
  <1>2. PICK step \in {"Left", "Right", "Up", "Down"}, shift \in BOOLEAN :
           LET place == Arrow(from, active_pane, step, shift, Len(view))
           IN  selection' = place.sel /\ edit_high_nibble' = place.high
    BY DEF ArrowKey
  <1>3. from \in Places(Len(present), cur0)
    BY <1>1 DEF sel0, Places
  <1> HIDE DEF from
  <1>4. Arrow(from, active_pane, step, shift, Len(view)) \in Places(Len(present), cur0)
    BY <1>1, <1>3, ArrowIs
  <1>5. selection' \in Ranges(Len(present), cur0) /\ edit_high_nibble' \in BOOLEAN
    BY <1>2, <1>4 DEF Places
  <1>6. Kept(TRUE) /\ typing_mode' = typing_mode
    BY DEF ArrowKey
  <1>7. FlagsTyped
    BY <1>1, <1>5, <1>6 DEF FlagsTyped
  <1> QED BY <1>5, <1>6, <1>7, KeptLands

(* A selection may shrink to its caret. *)
LEMMA CaretInReach ==
    ASSUME InputInv
    PROVE  Caret(cur0) \in Ranges(Len(present), cur0)
  BY Here, RangeIs DEF Caret

(* Escape. *)
LEMMA ClearSelectionIs ==
    ASSUME InputInv, ClearSelection
    PROVE  IInv' /\ Lands /\ edit_high_nibble' \in BOOLEAN /\ present' = present
  <1>1. /\ Kept(BoundaryAtStart) /\ BoundaryAtStart \in BOOLEAN
        /\ typing_mode' = typing_mode /\ edit_high_nibble' = TRUE
    BY StartFlags DEF ClearSelection
  <1>2. edit_high_nibble' \in BOOLEAN
    BY <1>1, Zenon
  <1>3. FlagsTyped
    BY <1>1, <1>2, Here DEF FlagsTyped
  <1>4. selection' = selection \/ selection' = Caret(cur0)
    BY Here DEF ClearSelection
  <1> QED BY <1>1, <1>2, <1>3, <1>4, CaretInReach, KeptLands

(* A key that is left to the host. *)
LEMMA HostKeyIs ==
    ASSUME InputInv, HostKey
    PROVE  IInv' /\ Lands /\ edit_high_nibble' \in BOOLEAN /\ present' = present
  <1>1. /\ Kept(BoundaryAtStart) /\ BoundaryAtStart \in BOOLEAN
        /\ typing_mode' = typing_mode /\ edit_high_nibble' \in BOOLEAN /\ selection' = selection
    BY StartFlags DEF HostKey, Stay
  <1>3. FlagsTyped
    BY <1>1, Here DEF FlagsTyped
  <1> QED BY <1>1, <1>3, KeptLands

(* Backspace, which never keeps the length of bytes it changes. *)
LEMMA BackspaceIs ==
    ASSUME InputInv, Backspace
    PROVE  /\ IInv' /\ Lands /\ edit_high_nibble' \in BOOLEAN
           /\ present' = present \/ Len(present') < Len(present)
  <1>1. /\ view = present /\ present \in Seq(Byte) /\ Len(present) \in Nat
        /\ typing_mode' = typing_mode /\ typing_mode \in {"Replace", "Insert"}
        /\ mode = "Mutable" /\ BoundaryAtStart \in BOOLEAN /\ IInv
        /\ selection # << >> => cursor \in Nat
    BY Here, StartFlags DEF Backspace, InputInv, cursor
  <1>2. CASE selection = << >> \/ selection[2] = 0 \/ selection[2] > Len(view)
    <2>1. Kept(BoundaryAtStart) /\ Stay
      BY <1>2 DEF Backspace
    <2>2. edit_high_nibble' \in BOOLEAN /\ selection' = selection
      BY <2>1, StartFlags DEF Stay
    <2>3. FlagsTyped
      BY <1>1, <2>2 DEF FlagsTyped
    <2> QED BY <1>1, <2>1, <2>2, <2>3, KeptLands
  <1>3. CASE ~(selection = << >> \/ selection[2] = 0 \/ selection[2] > Len(view))
    <2>1. /\ Spliced(cursor - 1, 1, << >>, BoundaryAtStart)
          /\ selection' = Caret(cursor - 1) /\ edit_high_nibble' = TRUE
      BY <1>3 DEF Backspace
    <2>2. edit_high_nibble' \in BOOLEAN
      BY <2>1, Zenon
    <2>3. FlagsTyped
      BY <1>1, <2>2 DEF FlagsTyped
    <2>4. PICK o \in Nat : o = cursor - 1 /\ o + 1 <= Len(present)
      BY <1>1, <1>3 DEF cursor
    <2>5. << >> \in Seq(Byte) /\ Len(<< >>) = 0 /\ 1 \in Nat
      OBVIOUS
    <2>6. /\ IInv'
          /\ \/ ~Accepted(o, 1) /\ present' = present
             \/ Len(present') = Len(present) - 1 + 0
      <3> DEFINE none == << >>
      <3>1. Spliced(o, 1, none, BoundaryAtStart)
        BY <2>1, <2>4
      <3>2. none \in Seq(Byte) /\ Len(none) = 0 /\ 1 \in Nat
        BY <2>5
      <3> HIDE DEF none
      <3>3. /\ IInv'
            /\ \/ ~Accepted(o, 1) /\ present' = present
               \/ Len(present') = Len(present) - 1 + Len(none)
        <4>1. IInv /\ BoundaryAtStart \in BOOLEAN /\ o \in Nat
          BY <1>1
        <4> QED BY <2>3, <3>1, <3>2, <4>1, SplicedIs, ZenonT(40)
      <3> QED BY <3>2, <3>3
    <2>7. Accepted(o, 1)
      BY <1>1, <2>4 DEF Accepted
    <2>8. o <= Len(present') /\ Len(present') < Len(present)
      BY <1>1, <2>4, <2>6, <2>7
    <2> QED BY <2>1, <2>2, <2>4, <2>6, <2>8, LandsAt
  <1> QED BY <1>2, <1>3

(* Every key of default dispatch. *)
LEMMA DefaultKeeps ==
    ASSUME InputInv, DefaultNext
    PROVE  IInv' /\ Lands
  BY HexDigitIs, TypeTextIs, ArrowKeyIs, ClearSelectionIs, BackspaceIs, HostKeyIs DEF DefaultNext

(* Escape out of the modes that type. *)
LEMMA ExitInsertKeeps ==
    ASSUME InputInv, ExitInsert
    PROVE  IInv' /\ Lands /\ vim' \in VimStates
  <1>1. Kept(TRUE) /\ typing_mode' = "Replace" /\ edit_high_nibble' = TRUE /\ selection' = selection
    BY DEF ExitInsert, set_typing_mode
  <1>2. edit_high_nibble' \in BOOLEAN
    BY <1>1, Zenon
  <1>3. FlagsTyped
    BY <1>1, <1>2 DEF FlagsTyped
  <1>4. vim' \in VimStates
    BY Here DEF ExitInsert, VimStates
  <1> QED BY <1>1, <1>3, <1>4, KeptLands

-----------------------------------------------------------------------------
(* vim's keys. *)

(* A key that edits nothing. *)
LEMMA QuietLands ==
    ASSUME InputInv, Kept(history_break), typing_mode' \in {"Replace", "Insert"},
           edit_high_nibble' \in BOOLEAN, selection' \in Ranges(Len(present), cur0)
    PROVE  IInv' /\ Lands /\ present' = present
  <1>1. history_break \in BOOLEAN /\ FlagsTyped
    BY Here DEF FlagsTyped
  <1> QED BY <1>1, KeptLands

(* What such a key leaves alone. *)
LEMMA QuietIs ==
    ASSUME InputInv, Quiet
    PROVE  Kept(history_break) /\ typing_mode' \in {"Replace", "Insert"}
           /\ active_pane' = active_pane
  BY Here DEF Quiet

(* The caret set to an offset in reach. *)
LEMMA CursorSet ==
    ASSUME InputInv, NEW o \in Reach(Len(present), cur0), set_cursor(o)
    PROVE  selection' \in Ranges(Len(present), cur0) /\ edit_high_nibble' \in BOOLEAN
  <1>1. edit_high_nibble' \in BOOLEAN
    BY Zenon DEF set_cursor
  <1>2. selection' \in Ranges(Len(present), cur0)
    BY Here DEF set_cursor, To, Caret, Ranges, Reach
  <1> QED BY <1>1, <1>2

(* The caret of a key that moves nothing. *)
LEMMA StoodStill ==
    ASSUME InputInv, selection' = sel0, edit_high_nibble' = edit_high_nibble
    PROVE  selection' \in Ranges(Len(present), cur0) /\ edit_high_nibble' \in BOOLEAN
  BY Here

(* Escape. *)
LEMMA VimEscapeIs ==
    ASSUME InputInv, VimEscape
    PROVE  IInv' /\ Lands /\ present' = present /\ vim' \in VimStates
  <1>1. selection' \in Ranges(Len(present), cur0)
    BY CaretInReach DEF VimEscape
  <1>2. edit_high_nibble' \in BOOLEAN
    BY Zenon DEF VimEscape
  <1>3. Quiet
    BY DEF VimEscape
  <1>4. vim' \in VimStates
    BY Here DEF VimEscape, VimStates
  <1> QED BY <1>1, <1>2, <1>3, <1>4, QuietIs, QuietLands

(* The other pane. *)
LEMMA TogglePaneIs ==
    ASSUME InputInv, TogglePane
    PROVE  /\ IInv' /\ Lands /\ present' = present /\ vim' \in VimStates
           /\ active_pane' \in {"Hex", "Ascii"}
  <1>1. edit_high_nibble' \in BOOLEAN
    BY Zenon DEF TogglePane
  <1>2. /\ Kept(TRUE) /\ FlagsTyped /\ selection' \in Ranges(Len(present), cur0)
        /\ vim' \in VimStates /\ active_pane' \in {"Hex", "Ascii"}
    BY <1>1, Here DEF TogglePane, FlagsTyped
  <1> QED BY <1>2, KeptLands

(* i and R. *)
LEMMA EnterTypingIs ==
    ASSUME InputInv, EnterTyping
    PROVE  IInv' /\ Lands /\ present' = present /\ vim' \in VimStates /\ active_pane' = active_pane
  <1>1. edit_high_nibble' \in BOOLEAN
    BY Zenon DEF EnterTyping, set_typing_mode
  <1>2. /\ Kept(TRUE) /\ FlagsTyped /\ selection' \in Ranges(Len(present), cur0)
        /\ active_pane' = active_pane
    BY <1>1, Here DEF EnterTyping, FlagsTyped, set_typing_mode
  <1>3. vim' \in VimStates
    BY Here DEF EnterTyping, VimStates
  <1> QED BY <1>2, <1>3, KeptLands

(* The digits of a count, and 0. *)
LEMMA CountDigitIs ==
    ASSUME InputInv, CountDigit
    PROVE  IInv' /\ Lands /\ present' = present /\ vim' \in VimStates /\ active_pane' = active_pane
  <1>1. PICK d \in Counts :
           IF d = 0 /\ vim.count = 0
           THEN set_cursor(LineStart(view, active_pane, cur0)) /\ vim' = vim
           ELSE /\ vim' = [vim EXCEPT !.count = @ * 10 + d]
                /\ StandStill
    BY DEF CountDigit
  <1>2. d \in Nat
    BY InputConstants
  <1>3. vim' \in VimStates
    BY <1>1, <1>2, Here, SMTT(30) DEF VimStates
  <1>4. LineStart(view, active_pane, cur0) \in Reach(Len(present), cur0)
    BY Here, LineEndsAre, ReachIs
  <1>5. selection' \in Ranges(Len(present), cur0) /\ edit_high_nibble' \in BOOLEAN
    BY <1>1, <1>4, CursorSet, StoodStill DEF StandStill
  <1>6. Quiet
    BY DEF CountDigit
  <1> QED BY <1>3, <1>5, <1>6, QuietIs, QuietLands

(* g and gg. *)
LEMMA PressGIs ==
    ASSUME InputInv, PressG
    PROVE  IInv' /\ Lands /\ present' = present /\ vim' \in VimStates /\ active_pane' = active_pane
  <1>1. /\ vim' = clear_pending \/ vim' = [vim EXCEPT !.pending = "G"]
        /\ set_cursor(Lesser(vim.count * Columns, LastOf(view))) \/ StandStill
        /\ Quiet
    BY DEF PressG
  <1>2. vim' \in VimStates
    BY <1>1, Here DEF VimStates
  <1>3. Lesser(vim.count * Columns, LastOf(view)) \in Reach(Len(present), cur0)
    <2>1. vim.count * Columns \in Nat
      BY Here, VimConstants DEF VimStates
    <2>2. LastOf(view) \in Nat /\ LastOf(view) <= Len(present)
      BY Here, LastIs
    <2>3. /\ Lesser(vim.count * Columns, LastOf(view)) \in Nat
          /\ Lesser(vim.count * Columns, LastOf(view)) <= Len(present)
      BY <2>1, <2>2, Here DEF Lesser
    <2> QED BY <2>3, Here, ReachIs
  <1>4. selection' \in Ranges(Len(present), cur0) /\ edit_high_nibble' \in BOOLEAN
    BY <1>1, <1>3, CursorSet, StoodStill DEF StandStill
  <1> QED BY <1>1, <1>2, <1>4, QuietIs, QuietLands

(* h, j, k and l. *)
LEMMA ArrowMotionIs ==
    ASSUME InputInv, ArrowMotion
    PROVE  IInv' /\ Lands /\ present' = present /\ vim' \in VimStates /\ active_pane' = active_pane
  <1>1. PICK step \in {"Left", "Right", "Up", "Down"} :
           LET place[n \in 0 .. CountOrOne] ==
                   IF n = 0 THEN [sel |-> sel0, high |-> edit_high_nibble]
                   ELSE Arrow(place[n - 1], active_pane, step, Visual, Len(view))
           IN  /\ selection' = place[CountOrOne].sel
               /\ edit_high_nibble' = place[CountOrOne].high
    BY DEF ArrowMotion
  <1> DEFINE from == [sel |-> sel0, high |-> edit_high_nibble]
             place == ArrowsFrom(from, active_pane, step, Visual, Len(view), CountOrOne)
  <1>2. selection' = place[CountOrOne].sel /\ edit_high_nibble' = place[CountOrOne].high
    BY <1>1 DEF ArrowsFrom
  <1>3. Len(view) \in Nat /\ view = present /\ cur0 \in Nat /\ CountOrOne \in Nat
    BY Here
  <1>4. place[CountOrOne] \in Places(Len(present), cur0)
    <2>1. from \in Places(Len(view), cur0)
      BY Here DEF Places
    <2> HIDE DEF from
    <2>2. place[CountOrOne] \in Places(Len(view), cur0)
      BY <1>3, <2>1, ArrowsAre
    <2> QED BY <1>3, <2>2
  <1> HIDE DEF place
  <1>5. selection' \in Ranges(Len(present), cur0) /\ edit_high_nibble' \in BOOLEAN
    BY <1>2, <1>4 DEF Places
  <1>6. vim' \in VimStates /\ Quiet
    BY Here DEF ArrowMotion
  <1> QED BY <1>5, <1>6, QuietIs, QuietLands

(* $ and G. *)
LEMMA LineMotionIs ==
    ASSUME InputInv, LineMotion
    PROVE  IInv' /\ Lands /\ present' = present /\ vim' \in VimStates /\ active_pane' = active_pane
  <1>1. LineEnd(view, active_pane, cur0) \in Reach(Len(present), cur0)
    BY Here, LineEndsAre, ReachIs
  <1>2. LastOf(view) \in Reach(Len(present), cur0)
    BY Here, LastIs, ReachIs
  <1>3. selection' \in Ranges(Len(present), cur0) /\ edit_high_nibble' \in BOOLEAN
    BY <1>1, <1>2, CursorSet DEF LineMotion
  <1>4. vim' \in VimStates /\ Quiet
    BY Here DEF LineMotion
  <1> QED BY <1>3, <1>4, QuietIs, QuietLands

(* w, b, e, W and B. *)
LEMMA WordMotionIs ==
    ASSUME InputInv, WordMotion
    PROVE  IInv' /\ Lands /\ present' = present /\ vim' \in VimStates /\ active_pane' = active_pane
  <1>1. PICK motion \in {"w", "b", "e", "W", "B"} :
           LET at[n \in 0 .. CountOrOne] == IF n = 0 THEN cur0 ELSE WordStep(motion, at[n - 1])
           IN  set_cursor(at[CountOrOne])
    BY DEF WordMotion
  <1> DEFINE at == CHOOSE f : f = [n \in 0 .. CountOrOne |->
                                     IF n = 0 THEN cur0 ELSE WordStep(motion, f[n - 1])]
  <1>2. set_cursor(at[CountOrOne])
    BY <1>1
  <1>3. at[CountOrOne] \in Reach(Len(present), cur0)
    <2>1. view \in Seq(Byte) /\ view = present /\ cur0 \in Nat /\ CountOrOne \in Nat
      BY Here
    <2> QED BY <2>1, WordsAre
  <1> HIDE DEF at
  <1>4. selection' \in Ranges(Len(present), cur0) /\ edit_high_nibble' \in BOOLEAN
    BY <1>2, <1>3, CursorSet
  <1>5. vim' \in VimStates /\ Quiet
    BY Here DEF WordMotion
  <1> QED BY <1>4, <1>5, QuietIs, QuietLands

(* v and V. *)
LEMMA EnterVisualIs ==
    ASSUME InputInv, EnterVisual \/ EnterVisualLine
    PROVE  IInv' /\ Lands /\ present' = present /\ vim' \in VimStates /\ active_pane' = active_pane
  <1>1. PICK a \in Nat, b \in Nat : line_bounds(view, active_pane, cur0) = <<a, b>> /\ b <= Len(view)
    BY Here, LineBoundsIs
  <1>2. <<a, b>> \in Ranges(Len(present), cur0)
    BY <1>1, Here, RangeIs
  <1>3. selection' \in Ranges(Len(present), cur0) /\ edit_high_nibble' = edit_high_nibble
    BY <1>1, <1>2, CaretInReach DEF EnterVisual, EnterVisualLine
  <1>4. vim' \in VimStates
    BY Here DEF EnterVisual, EnterVisualLine, VimStates
  <1>5. Quiet /\ edit_high_nibble' \in BOOLEAN
    BY <1>3, Here DEF EnterVisual, EnterVisualLine
  <1> QED BY <1>3, <1>4, <1>5, QuietIs, QuietLands

(* A character search, found or not. *)
LEMMA FindKeepsAll ==
    ASSUME InputInv, NEW key \in FindKeys, NEW target, Find(key, target)
    PROVE  IInv' /\ Lands /\ present' = present /\ vim' \in VimStates /\ active_pane' = active_pane
  <1>1. \A o \in apply_find_char(view, active_pane, cur0, key, target, CountOrOne) :
           o \in Reach(Len(present), cur0)
    BY Here, FindLands DEF FindKeys
  <1>2. StandStill \/ \E o \in apply_find_char(view, active_pane, cur0, key, target, CountOrOne) :
                         set_cursor(o)
    BY DEF Find
  <1>3. selection' \in Ranges(Len(present), cur0) /\ edit_high_nibble' \in BOOLEAN
    BY <1>1, <1>2, CursorSet, StoodStill DEF StandStill
  <1>4. /\ Kept(history_break) /\ typing_mode' \in {"Replace", "Insert"}
        /\ vim' \in VimStates /\ active_pane' = active_pane
    BY Here DEF Find
  <1> QED BY <1>3, <1>4, QuietLands

(* A character search, from the key or from the character it waited for. *)
LEMMA ResolveIs ==
    ASSUME InputInv, ResolveAtOnce \/ FindChar
    PROVE  IInv' /\ Lands /\ present' = present /\ vim' \in VimStates /\ active_pane' = active_pane
  <1>1. CASE \E key \in FindKeys, b \in WordBytes : Find(key, b)
    BY <1>1, FindKeepsAll
  <1>2. CASE vim' = clear_pending /\ StandStill /\ Quiet
    <2>1. vim' \in VimStates
      BY <1>2, Here
    <2> QED BY <1>2, <2>1, QuietIs, StoodStill, QuietLands DEF StandStill
  <1>3. CASE FindChar
    BY <1>3, FindKeepsAll DEF FindChar
  <1> QED BY <1>1, <1>2, <1>3 DEF ResolveAtOnce

(* A key that waits for its character. *)
LEMMA WaitIs ==
    ASSUME InputInv, WaitForChar
    PROVE  IInv' /\ Lands /\ present' = present /\ vim' \in VimStates /\ active_pane' = active_pane
  <1>1. PICK key \in FindKeys \cup {"Inner", "Around"} : vim' = [vim EXCEPT !.pending = key]
    BY DEF WaitForChar
  <1>2. vim' \in VimStates
    BY <1>1, Here DEF VimStates, FindKeys
  <1>3. StandStill /\ Quiet
    BY DEF WaitForChar
  <1> QED BY <1>2, <1>3, QuietIs, StoodStill, QuietLands DEF StandStill

(* i and a, with the character they waited for. *)
LEMMA TextObjectKeeps ==
    ASSUME InputInv, TextObject
    PROVE  IInv' /\ Lands /\ present' = present /\ vim' \in VimStates /\ active_pane' = active_pane
  <1> DEFINE around == vim.pending = "Around"
             ranges == {bracket_range(view, cur0, pair, around) : pair \in Brackets}
                       \cup {quote_range(view, cur0, q, around) : q \in Quotes}
                       \cup {word_object_range(view, active_pane, cur0, big, around) : big \in BOOLEAN}
  <1>1. PICK found \in ranges : selection' \in IF view = << >> \/ found = {} THEN {sel0} ELSE found
    BY DEF TextObject
  <1>2. found \subseteq Ranges(Len(present), cur0)
    <2>1. view \in Seq(Byte) /\ view = present /\ cur0 \in Nat
      BY Here
    <2> HIDE DEF around
    <2>2. \A pair \in Brackets : pair[1] # pair[2]
      BY VimConstants
    <2>3. \A pair \in Brackets : bracket_range(view, cur0, pair, around) \subseteq Ranges(Len(view), cur0)
      BY <2>1, <2>2, TextObjectIs
    <2>4. /\ \A q : quote_range(view, cur0, q, around) \subseteq Ranges(Len(view), cur0)
          /\ \A pane, big : word_object_range(view, pane, cur0, big, around) \subseteq Ranges(Len(view), cur0)
      <3> DEFINE two == <<1, 2>>
      <3>1. two[1] # two[2]
        OBVIOUS
      <3> HIDE DEF two
      <3> QED BY <2>1, <3>1, TextObjectIs
    <2> QED BY <2>1, <2>3, <2>4
  <1> HIDE DEF ranges
  <1>3. selection' \in Ranges(Len(present), cur0)
    BY <1>1, <1>2, Here
  <1>4. vim' \in VimStates /\ Quiet /\ edit_high_nibble' = edit_high_nibble
    BY Here DEF TextObject
  <1>5. edit_high_nibble' \in BOOLEAN
    BY <1>4, Here
  <1> QED BY <1>3, <1>4, <1>5, QuietIs, QuietLands

-----------------------------------------------------------------------------
(* vim's operators. *)

(* The bytes cut out, put back where they were, give the bytes there were. *)
LEMMA PutBack ==
    ASSUME NEW buf \in Seq(Byte), NEW a \in Nat, NEW n \in Nat, a + n <= Len(buf)
    PROVE  buf = Splice(Splice(buf, a, n, << >>), a, 0, Slice(buf, a, n))
  <1> DEFINE cut == Splice(buf, a, n, << >>)
             got == Slice(buf, a, n)
             back == Splice(cut, a, 0, got)
  <1>1. got \in Seq(Byte) /\ Len(got) = n /\ \A i \in 1 .. n : got[i] = buf[a + i]
    BY SliceType
  <1>2. << >> \in Seq(Byte) /\ Len(<< >>) = 0
    OBVIOUS
  <1>3. cut \in Seq(Byte) /\ Len(cut) = Len(buf) - n
    <2>1. cut \in Seq(Byte) /\ Len(cut) = Len(buf) - n + Len(<< >>)
      <3> DEFINE e == << >>
      <3>1. e \in Seq(Byte)
        BY <1>2
      <3> HIDE DEF e
      <3>2. Splice(buf, a, n, e) \in Seq(Byte) /\ Len(Splice(buf, a, n, e)) = Len(buf) - n + Len(e)
        BY <3>1, SpliceType
      <3> QED BY <3>2 DEF e
    <2> QED BY <1>2, <2>1
  <1>4. \A i \in 1 .. (Len(buf) - n) : cut[i] = IF i <= a THEN buf[i] ELSE buf[i + n]
    <2> TAKE i \in 1 .. (Len(buf) - n)
    <2> DEFINE e == << >>
    <2>1. e \in Seq(Byte) /\ Len(e) = 0
      BY <1>2
    <2> HIDE DEF e
    <2>2. i \in 1 .. (Len(buf) - n + Len(e))
      BY <2>1
    <2>3. Splice(buf, a, n, e)[i] = IF i <= a THEN buf[i]
                                    ELSE IF i <= a + Len(e) THEN e[i - a]
                                    ELSE buf[i - Len(e) + n]
      BY <2>1, <2>2 DEF Splice
    <2>4. i - Len(e) + n = i + n /\ a + Len(e) = a
      BY <2>1
    <2>5. Splice(buf, a, n, e)[i] = IF i <= a THEN buf[i] ELSE buf[i + n]
      BY <2>3, <2>4
    <2> QED BY <2>5 DEF e
  <1> HIDE DEF cut, got
  <1>5. back \in Seq(Byte) /\ Len(back) = Len(buf)
    <2>1. a + 0 <= Len(cut)
      BY <1>3
    <2>2. back \in Seq(Byte) /\ Len(back) = Len(cut) - 0 + Len(got)
      BY <1>1, <1>3, <2>1, SpliceType
    <2> QED BY <1>1, <1>3, <2>2
  <1>6. ASSUME NEW i \in 1 .. Len(buf) PROVE back[i] = buf[i]
    <2>1. a + 0 <= Len(cut) /\ i \in 1 .. (Len(cut) - 0 + Len(got))
      BY <1>1, <1>3
    <2>0. got \in Seq(Byte) /\ cut \in Seq(Byte) /\ 0 \in Nat
      BY <1>1, <1>3
    <2>2. back[i] = IF i <= a THEN cut[i]
                    ELSE IF i <= a + Len(got) THEN got[i - a]
                    ELSE cut[i - Len(got) + 0]
      BY <2>0, <2>1, SplicePoint
    <2>3. CASE i <= a
      <3>1. i \in 1 .. (Len(buf) - n)
        BY <2>3
      <3> QED BY <1>4, <2>2, <2>3, <3>1
    <2>4. CASE ~(i <= a) /\ i <= a + n
      <3>1. i - a \in 1 .. n /\ a + (i - a) = i
        BY <2>4
      <3> QED BY <1>1, <2>2, <2>4, <3>1
    <2>5. CASE ~(i <= a) /\ ~(i <= a + n)
      <3>1. i - n \in 1 .. (Len(buf) - n) /\ ~(i - n <= a) /\ (i - n) + n = i
        BY <2>5
      <3>2. i - Len(got) + 0 = i - n
        BY <1>1
      <3> QED BY <1>1, <1>4, <2>2, <2>5, <3>1, <3>2
    <2> QED BY <2>3, <2>4, <2>5
  <1> HIDE DEF back
  <1>7. buf = back
    BY <1>5, <1>6, BufferEqual
  <1> QED BY <1>7 DEF back, cut, got

(* What is gone is in the register. *)
GoneIsKept ==
    Len(present') < Len(present) =>
       \E o \in 0 .. Len(present') : present = Splice(present', o, 0, vim'.register)

(* Bytes cut into the register, if the splice is accepted. *)
LEMMA CutIs ==
    ASSUME InputInv, NEW a \in Nat, NEW b \in Nat, a <= b, b < Len(view), NEW v \in VimStates,
           Cut(<<a, b>>, v), typing_mode' = typing_mode
    PROVE  IInv' /\ Lands /\ vim' \in VimStates /\ GoneIsKept
  <1>1. /\ view = present /\ present \in Seq(Byte) /\ Len(present) \in Nat /\ IInv
        /\ history_break \in BOOLEAN
    BY Here DEF InputInv
  <1>2. PICK n \in Nat : n = b + 1 - a /\ a + n <= Len(present)
    BY <1>1
  <1>3. /\ vim' = [v EXCEPT !.register = Slice(present, a, n)]
        /\ Spliced(a, n, << >>, history_break)
        /\ selection' = Caret(Lesser(a, LastOf(view')))
        /\ edit_high_nibble' = edit_high_nibble
    BY <1>1, <1>2 DEF Cut, BytesIn
  <1>4. FlagsTyped
    BY <1>3, Here DEF FlagsTyped
  <1>5. << >> \in Seq(Byte) /\ Len(<< >>) = 0
    OBVIOUS
  <1>6. /\ IInv'
        /\ \/ present' = present
           \/ present' = Splice(present, a, n, << >>) /\ Len(present') = Len(present) - n + 0
    BY <1>1, <1>3, <1>4, <1>5, SplicedIs
  <1>7. present' \in Seq(Byte) /\ view' = present'
    BY <1>6 DEF IInv, BufferTypes, PatchShows, view
  <1>8. Slice(present, a, n) \in Seq(Byte)
    BY <1>1, <1>2, SliceType
  <1>9. vim' \in VimStates /\ vim'.register = Slice(present, a, n)
    BY <1>3, <1>8 DEF VimStates
  <1>10. GoneIsKept
    <2> SUFFICES ASSUME Len(present') < Len(present)
                 PROVE  \E o \in 0 .. Len(present') : present = Splice(present', o, 0, vim'.register)
      BY DEF GoneIsKept
    <2>1. present' = Splice(present, a, n, << >>) /\ Len(present') = Len(present) - n + 0
      BY <1>1, <1>6
    <2>2. a \in 0 .. Len(present')
      BY <1>1, <1>2, <2>1
    <2>3. present = Splice(Splice(present, a, n, << >>), a, 0, Slice(present, a, n))
      BY <1>1, <1>2, PutBack
    <2> QED BY <1>9, <2>1, <2>2, <2>3
  <1>11. Lands
    <2>1. LastOf(present') \in Nat /\ LastOf(present') <= Len(present')
      BY <1>7, LastIs
    <2>2. /\ Lesser(a, LastOf(present')) \in Nat
          /\ Lesser(a, LastOf(present')) <= Len(present')
      BY <1>7, <2>1 DEF Lesser
    <2> QED BY <1>3, <1>7, <2>2, LandsAt
  <1> QED BY <1>6, <1>9, <1>10, <1>11

(* An operator with nothing to work on. *)
LEMMA NothingIs ==
    ASSUME InputInv, NEW v \in VimStates, Nothing(v), typing_mode' = typing_mode
    PROVE  IInv' /\ Lands /\ vim' \in VimStates /\ present' = present
  <1>1. selection' \in Ranges(Len(present), cur0) /\ edit_high_nibble' \in BOOLEAN
    BY StoodStill DEF Nothing, StandStill
  <1>2. Kept(history_break) /\ vim' = v /\ typing_mode' \in {"Replace", "Insert"}
    BY Here DEF Nothing
  <1> QED BY <1>1, <1>2, QuietLands

(* The selection is a range. *)
LEMMA SelectedIs ==
    ASSUME InputInv
    PROVE  \E a \in Nat, b \in Nat : Selected = <<a, b>>
  BY Here DEF Selected, Lesser, Greater, Ranges, Reach

(* The lines under a count are a range. *)
LEMMA RowsAre ==
    ASSUME InputInv
    PROVE  \E a \in Nat, b \in Nat : Rows = <<a, b>>
  BY Here, ManyLinesAre DEF Rows

(* A range that can be read lies inside the bytes. *)
LEMMA ReadableIs ==
    ASSUME InputInv, NEW a \in Nat, NEW b \in Nat, Readable(<<a, b>>)
    PROVE  a <= b /\ b < Len(view) /\ BytesIn(<<a, b>>) \in Seq(Byte)
  <1>1. a <= b /\ b < Len(view) /\ view \in Seq(Byte) /\ Len(view) \in Nat
    BY Here DEF Readable
  <1>2. PICK n \in Nat : n = b + 1 - a /\ a + n <= Len(view)
    BY <1>1
  <1>3. Slice(view, a, n) \in Seq(Byte)
    BY <1>1, <1>2, SliceType
  <1> QED BY <1>1, <1>2, <1>3 DEF BytesIn

(* y and yy. *)
LEMMA YankIs ==
    ASSUME InputInv, Yank
    PROVE  IInv' /\ Lands /\ present' = present /\ vim' \in VimStates /\ active_pane' = active_pane
  <1>1. edit_high_nibble' \in BOOLEAN /\ Quiet
    BY Here DEF Yank
  <1>2. selection' = Caret(cur0) \/ selection' = sel0
    BY DEF Yank
  <1>3. selection' \in Ranges(Len(present), cur0)
    BY <1>2, CaretInReach, Here
  <1>4. \A r \in {Selected, Rows} : Readable(r) => BytesIn(r) \in Seq(Byte)
    BY SelectedIs, RowsAre, ReadableIs
  <1>5. vim' \in VimStates
    BY <1>4, Here DEF Yank, VimStates
  <1> QED BY <1>1, <1>3, <1>5, QuietIs, QuietLands

(* Where nothing is gone, nothing is lost. *)
LEMMA SameIsKept ==
    ASSUME InputInv, present' = present
    PROVE  GoneIsKept
  BY Here DEF GoneIsKept

(* d and dd. *)
LEMMA DeleteIs ==
    ASSUME InputInv, Delete
    PROVE  IInv' /\ Lands /\ vim' \in VimStates /\ active_pane' = active_pane /\ GoneIsKept
  <1>1. typing_mode' = typing_mode /\ active_pane' = active_pane
    BY DEF Delete
  <1>2. PICK v \in VimStates :
           \/ Nothing(v)
           \/ Readable(Selected) /\ Cut(Selected, v)
           \/ Readable(Rows) /\ Cut(Rows, v)
    <2>1. /\ clear_pending \in VimStates
          /\ [clear_pending EXCEPT !.mode = "Normal"] \in VimStates
          /\ [vim EXCEPT !.pending = "Delete"] \in VimStates
      BY Here DEF VimStates
    <2> QED BY <2>1 DEF Delete
  <1>3. CASE Nothing(v)
    BY <1>1, <1>3, NothingIs, SameIsKept
  <1>4. ASSUME NEW r \in {Selected, Rows}, Readable(r), Cut(r, v)
        PROVE  IInv' /\ Lands /\ vim' \in VimStates /\ GoneIsKept
    <2>1. PICK a \in Nat, b \in Nat : r = <<a, b>>
      BY SelectedIs, RowsAre
    <2>2. Readable(<<a, b>>) /\ Cut(<<a, b>>, v)
      BY <1>4, <2>1
    <2> QED BY <1>1, <2>2, ReadableIs, CutIs
  <1> QED BY <1>1, <1>2, <1>3, <1>4

(* x. *)
LEMMA DeleteByteIs ==
    ASSUME InputInv, DeleteByte
    PROVE  IInv' /\ Lands /\ vim' \in VimStates /\ active_pane' = active_pane /\ GoneIsKept
  <1>1. typing_mode' = typing_mode /\ active_pane' = active_pane
    BY DEF DeleteByte
  <1>2. CASE cur0 >= Len(view)
    <2>1. Nothing(clear_pending)
      BY <1>2 DEF DeleteByte
    <2> QED BY <1>1, <2>1, Here, NothingIs, SameIsKept
  <1>3. CASE ~(cur0 >= Len(view))
    <2>1. PICK b \in Nat :
             b = cur0 + Lesser(CountOrOne, Len(view) - cur0) - 1 /\ cur0 <= b /\ b < Len(view)
      BY <1>3, Here DEF Lesser
    <2>2. Cut(<<cur0, b>>, clear_pending)
      BY <1>3, <2>1 DEF DeleteByte
    <2> QED BY <1>1, <2>1, <2>2, Here, CutIs
  <1> QED BY <1>2, <1>3

(* The register, repeated. *)
LEMMA PayloadIs ==
    ASSUME NEW s \in Seq(Byte), s # << >>, NEW count \in Nat, count # 0
    PROVE  /\ [i \in 1 .. (Len(s) * count) |-> s[((i - 1) % Len(s)) + 1]] \in Seq(Byte)
           /\ Len([i \in 1 .. (Len(s) * count) |-> s[((i - 1) % Len(s)) + 1]]) = Len(s) * count
           /\ Len(s) * count \in Nat /\ Len(s) * count > 0
  <1>1. PICK n \in Nat : n = Len(s) /\ n > 0
    OBVIOUS
  <1>2. n * count \in Nat /\ n * count > 0
    <2>1. n * count \in Nat
      BY <1>1
    <2>2. n >= 1 /\ count >= 1
      BY <1>1
    <2>3. n * count >= 1 * count
      BY <2>1, <2>2
    <2> QED BY <2>1, <2>2, <2>3
  <1>3. \A i \in 1 .. (n * count) : s[((i - 1) % n) + 1] \in Byte
    <2> TAKE i \in 1 .. (n * count)
    <2>1. (i - 1) % n \in 0 .. (n - 1)
      BY <1>1, <1>2
    <2>2. ((i - 1) % n) + 1 \in 1 .. Len(s)
      BY <1>1, <2>1
    <2> QED BY <2>2
  <1>4. [i \in 1 .. (n * count) |-> s[((i - 1) % n) + 1]] \in [1 .. (n * count) -> Byte]
    BY <1>3
  <1>5. /\ [i \in 1 .. (n * count) |-> s[((i - 1) % n) + 1]] \in Seq(Byte)
        /\ Len([i \in 1 .. (n * count) |-> s[((i - 1) % n) + 1]]) = n * count
    BY <1>2, <1>4, FunctionIsBuffer
  <1> QED BY <1>1, <1>2, <1>5

(* p. *)
LEMMA PutRegisterIs ==
    ASSUME InputInv, PutRegister
    PROVE  IInv' /\ Lands /\ vim' \in VimStates /\ active_pane' = active_pane /\ GoneIsKept
  <1>1. typing_mode' = typing_mode /\ active_pane' = active_pane
    BY DEF PutRegister
  <1>2. CASE vim.register = << >>
    <2>1. Nothing(clear_pending)
      BY <1>2 DEF PutRegister
    <2> QED BY <1>1, <2>1, Here, NothingIs, SameIsKept
  <1>3. CASE vim.register # << >>
    <2> DEFINE n == Len(vim.register)
               pasted == [i \in 1 .. (n * CountOrOne) |-> vim.register[((i - 1) % n) + 1]]
               put == IF view = << >> THEN 0 ELSE Lesser(cur0 + 1, Len(view))
    <2>1. /\ vim' = clear_pending
          /\ Spliced(put, 0, pasted, history_break)
          /\ selection' = Caret(Lesser(put + Len(pasted) - 1, LastOf(view')))
          /\ edit_high_nibble' = edit_high_nibble
      BY <1>3 DEF PutRegister
    <2>2. vim.register \in Seq(Byte)
      BY Here DEF VimStates
    <2>3. pasted \in Seq(Byte) /\ Len(pasted) \in Nat /\ Len(pasted) > 0
      BY <1>3, <2>2, Here, PayloadIs
    <2>4. put \in Nat
      BY Here DEF Lesser
    <2> HIDE DEF pasted, put
    <2>5. FlagsTyped
      BY <1>1, <2>1, Here DEF FlagsTyped
    <2>6. IInv /\ history_break \in BOOLEAN /\ Len(present) \in Nat
      BY Here DEF InputInv
    <2>7. /\ IInv'
          /\ present' = present \/ Len(present') = Len(present) - 0 + Len(pasted)
      BY <2>1, <2>3, <2>4, <2>5, <2>6, SplicedIs
    <2>8. ~(Len(present') < Len(present))
      BY <2>3, <2>6, <2>7
    <2>9. present' \in Seq(Byte) /\ view' = present'
      BY <2>7 DEF IInv, BufferTypes, PatchShows, view
    <2>10. LastOf(present') \in Nat /\ LastOf(present') <= Len(present')
      BY <2>9, LastIs
    <2>11. /\ Lesser(put + Len(pasted) - 1, LastOf(present')) \in Nat
           /\ Lesser(put + Len(pasted) - 1, LastOf(present')) <= Len(present')
      BY <2>3, <2>4, <2>9, <2>10 DEF Lesser
    <2>12. Lands
      BY <2>1, <2>9, <2>11, LandsAt
    <2> QED BY <1>1, <2>1, <2>7, <2>8, <2>12, Here DEF GoneIsKept
  <1> QED BY <1>2, <1>3

(* Every key of vim's Normal, Visual and VisualLine modes. *)
LEMMA VimKeeps ==
    ASSUME InputInv, VimNext
    PROVE  /\ IInv' /\ Lands /\ vim' \in VimStates /\ active_pane' \in {"Hex", "Ascii"}
           /\ GoneIsKept
  <1>1. active_pane \in {"Hex", "Ascii"}
    BY DEF InputInv, KeysTyped
  <1>2. VimEscape => active_pane' = active_pane
    BY DEF VimEscape, Quiet
  <1>3. CASE VimEscape
    BY <1>1, <1>2, <1>3, VimEscapeIs, SameIsKept
  <1>4. CASE FindChar \/ ResolveAtOnce
    BY <1>1, <1>4, ResolveIs, SameIsKept
  <1>5. CASE TextObject
    BY <1>1, <1>5, TextObjectKeeps, SameIsKept
  <1>6. CASE TogglePane
    BY <1>6, TogglePaneIs, SameIsKept
  <1>7. CASE EnterTyping \/ CountDigit \/ PressG
    BY <1>1, <1>7, EnterTypingIs, CountDigitIs, PressGIs, SameIsKept
  <1>8. CASE ArrowMotion \/ LineMotion \/ WordMotion
    BY <1>1, <1>8, ArrowMotionIs, LineMotionIs, WordMotionIs, SameIsKept
  <1>9. CASE EnterVisual \/ EnterVisualLine \/ Yank \/ WaitForChar
    BY <1>1, <1>9, EnterVisualIs, YankIs, WaitIs, SameIsKept
  <1>10. CASE Delete \/ DeleteByte \/ PutRegister
    BY <1>1, <1>10, DeleteIs, DeleteByteIs, PutRegisterIs
  <1> QED
    BY <1>3, <1>4, <1>5, <1>6, <1>7, <1>8, <1>9, <1>10 DEF VimNext

-----------------------------------------------------------------------------
(* The host. *)

(* What a step of the host leaves typed. *)
LEMMA StillTyped ==
    ASSUME InputInv, IInv', selection' = << >> \/ selection' \in Nat \X Nat,
           drag_anchor' = << >> \/ drag_anchor'[1] \in Nat, vim' \in VimStates,
           active_pane' \in {"Hex", "Ascii"}, input_mode' \in {"Default", "Vim"},
           \/ edit_high_nibble' = TRUE
           \/ UNCHANGED <<edit_high_nibble, last_cursor_offset, half>>
    PROVE  InputInv'
  <1>1. NibbleFollows'
    BY Zenon DEF InputInv, NibbleFollows
  <1>2. KeysTyped'
    BY DEF KeysTyped
  <1> QED BY <1>1, <1>2 DEF InputInv

(* The same, for a step that keeps the modes. *)
LEMMA HostTyped ==
    ASSUME InputInv, HostKeepsModes, IInv', Lands,
           \/ edit_high_nibble' = TRUE
           \/ UNCHANGED <<edit_high_nibble, last_cursor_offset>>
    PROVE  InputInv'
  <1>1. /\ drag_anchor' = << >> \/ drag_anchor'[1] \in Nat
        /\ vim' \in VimStates /\ active_pane' \in {"Hex", "Ascii"}
        /\ input_mode' \in {"Default", "Vim"} /\ half' = half
    BY DEF HostKeepsModes, InputInv, KeysTyped
  <1>2. selection' = << >> \/ selection' \in Nat \X Nat
    BY DEF Lands
  <1> QED BY <1>1, <1>2, StillTyped

(* Its flags. *)
LEMMA HostFlags ==
    ASSUME InputInv, typing_mode' = typing_mode,
           edit_high_nibble' = TRUE \/ edit_high_nibble' = edit_high_nibble
    PROVE  FlagsTyped
  <1>1. edit_high_nibble' \in BOOLEAN
    BY Here, Zenon
  <1> QED BY <1>1, Here DEF FlagsTyped

(* A press of the button. *)
LEMMA ClickIs ==
    ASSUME InputInv, Click
    PROVE  InputInv' /\ Lands
  <1>1. PICK o \in 0 .. Len(view), pane \in {"Hex", "Ascii"}, shift \in BOOLEAN :
           /\ selection' = To(sel0, o, shift /\ selection # << >>)
           /\ active_pane' = pane
           /\ edit_high_nibble' = (edit_high_nibble \/ pane # active_pane)
           /\ Kept(history_break \/ pane # active_pane)
    BY DEF Click
  <1>2. /\ drag_anchor' = <<selection'[1]>> /\ vim' = vim /\ input_mode' = input_mode
        /\ last_cursor_offset' = last_cursor_offset /\ half' = half /\ typing_mode' = typing_mode
    BY DEF Click
  <1>3. selection' \in Ranges(Len(present), cur0)
    <2>1. o \in Nat /\ o <= Len(present) /\ cur0 \in Nat /\ Len(present) \in Nat
      BY Here
    <2>2. sel0 \in Nat \X Nat
      BY Here DEF Ranges, Reach
    <2>3. sel0[1] \in Nat
      BY <2>2
    <2>4. selection' = <<sel0[1], o>> \/ selection' = <<o, o>>
      BY <1>1 DEF To, Caret
    <2> QED BY <2>1, <2>3, <2>4, RangeIs
  <1>4. edit_high_nibble' \in BOOLEAN /\ (history_break \/ pane # active_pane) \in BOOLEAN
    BY <1>1, Zenon
  <1>5. FlagsTyped
    BY <1>2, <1>4, Here DEF FlagsTyped
  <1>6. IInv' /\ Lands
    BY <1>1, <1>3, <1>4, <1>5, KeptLands
  <1>7. KeysTyped'
    <2>1. selection' \in Nat \X Nat
      BY <1>3 DEF Ranges, Reach
    <2>2. selection'[1] \in Nat
      BY <2>1
    <2> QED BY <1>1, <1>2, <2>1, <2>2 DEF InputInv, KeysTyped
  <1>8. NibbleFollows'
    <2>1. edit_high_nibble \/ half = last_cursor_offset
      BY DEF InputInv, NibbleFollows
    <2>2. edit_high_nibble => edit_high_nibble'
      BY <1>1, Zenon
    <2>3. half' = half /\ last_cursor_offset' = last_cursor_offset
      BY <1>2
    <2> QED BY <2>1, <2>2, <2>3, Zenon DEF NibbleFollows
  <1> QED BY <1>6, <1>7, <1>8 DEF InputInv

(* A move with the button held. *)
LEMMA DragIs ==
    ASSUME InputInv, Drag
    PROVE  InputInv' /\ Lands
  <1>1. PICK o \in 0 .. Len(view) : selection' = <<drag_anchor[1], o>>
    BY DEF Drag
  <1>2. drag_anchor[1] \in Nat
    BY DEF Drag, InputInv, KeysTyped
  <1>3. selection' \in Ranges(Len(present), cur0)
    <2>1. o \in Nat /\ o <= Len(present) /\ cur0 \in Nat /\ Len(present) \in Nat
      BY Here
    <2> QED BY <1>1, <1>2, <2>1, RangeIs
  <1>4. /\ HostKeepsModes /\ edit_high_nibble' = edit_high_nibble
        /\ last_cursor_offset' = last_cursor_offset
        /\ Kept(history_break) /\ history_break \in BOOLEAN
    BY Here DEF Drag
  <1>5. FlagsTyped
    BY <1>4, HostFlags DEF HostKeepsModes
  <1>6. IInv' /\ Lands
    BY <1>3, <1>4, <1>5, KeptLands
  <1> QED BY <1>4, <1>6, HostTyped

(* The button released. *)
LEMMA ReleaseIs ==
    ASSUME InputInv, Release
    PROVE  InputInv' /\ Lands
  <1>1. /\ drag_anchor' = << >> /\ Kept(history_break)
        /\ selection' = selection /\ edit_high_nibble' = edit_high_nibble
        /\ last_cursor_offset' = last_cursor_offset /\ half' = half
        /\ typing_mode' = typing_mode /\ active_pane' = active_pane
        /\ input_mode' = input_mode /\ vim' = vim
    BY DEF Release
  <1>2. FlagsTyped
    BY <1>1, HostFlags
  <1>3. history_break \in BOOLEAN
    BY Here
  <1>4. IInv' /\ Lands
    BY <1>1, <1>2, <1>3, KeptLands
  <1>5. /\ vim' \in VimStates /\ active_pane' \in {"Hex", "Ascii"}
        /\ input_mode' \in {"Default", "Vim"}
    BY <1>1 DEF InputInv, KeysTyped
  <1>6. selection' = << >> \/ selection' \in Nat \X Nat
    BY <1>4 DEF Lands
  <1> QED BY <1>1, <1>4, <1>5, <1>6, StillTyped

(* A jump of the palette. *)
LEMMA GoToIs ==
    ASSUME InputInv, GoTo
    PROVE  InputInv' /\ Lands
  <1>1. PICK first \in 0 .. LastOf(view), last \in 0 .. LastOf(view) :
           first <= last /\ set_selection(<<first, last>>)
    BY DEF GoTo
  <1>2. selection' = <<first, last>> /\ edit_high_nibble' = TRUE
    BY <1>1 DEF set_selection
  <1>3. selection' \in Ranges(Len(present), cur0)
    <2>1. LastOf(view) \in Nat /\ LastOf(view) <= Len(present) /\ Len(present) \in Nat /\ cur0 \in Nat
      BY Here, LastIs
    <2>2. first \in Nat /\ last \in Nat /\ last <= Len(present)
      BY <2>1
    <2> QED BY <1>2, <2>1, <2>2, RangeIs
  <1>4. HostKeepsModes /\ Kept(TRUE)
    BY DEF GoTo
  <1>5. FlagsTyped
    BY <1>2, <1>4, HostFlags DEF HostKeepsModes
  <1>6. IInv' /\ Lands
    BY <1>3, <1>4, <1>5, KeptLands
  <1> QED BY <1>2, <1>4, <1>6, HostTyped

(* The jump of undo and redo. *)
LEMMA JumpIs ==
    ASSUME InputInv, IInv', HostKeepsModes, NEW offset \in Nat, jump_cursor_to(offset)
    PROVE  InputInv' /\ Lands
  <1>1. present' \in Seq(Byte) /\ view' = present'
    BY DEF IInv, BufferTypes, PatchShows, view
  <1>2. selection' = Caret(Lesser(offset, LastOf(present'))) /\ edit_high_nibble' = TRUE
    BY <1>1 DEF jump_cursor_to, set_selection
  <1>3. /\ Lesser(offset, LastOf(present')) \in Nat
        /\ Lesser(offset, LastOf(present')) <= Len(present')
    <2>1. LastOf(present') \in Nat /\ LastOf(present') <= Len(present')
      BY <1>1, LastIs
    <2> QED BY <1>1, <2>1 DEF Lesser
  <1>4. Lands
    BY <1>2, <1>3, LandsAt
  <1> QED BY <1>2, <1>4, HostTyped

(* Where an entry begins. *)
LEMMA EntryOffset ==
    ASSUME NEW s \in Seq(EditEntry), NEW i \in 1 .. Len(s)
    PROVE  s[i].offset \in Nat
  <1>1. s[i] \in EditEntry
    OBVIOUS
  <1> QED BY <1>1 DEF EditEntry

(* Undo goes to the entry it took back. *)
LEMMA UndoIs ==
    ASSUME InputInv, Undo
    PROVE  InputInv' /\ Lands
  <1>1. undo_stack \in Seq(EditEntry) /\ Len(undo_stack) \in Nat /\ IInv
    BY DEF InputInv, IInv, EditorTypes
  <1>2. UndoStep /\ jump_cursor_to(undo_stack[Len(undo_stack)].offset) /\ HostKeepsModes
    BY DEF Undo
  <1>3. Len(undo_stack) > 0
    BY <1>2 DEF UndoStep, undo
  <1>4. Len(undo_stack) \in 1 .. Len(undo_stack)
    BY <1>1, <1>3
  <1>5. undo_stack[Len(undo_stack)].offset \in Nat
    BY <1>1, <1>4, EntryOffset
  <1> QED BY <1>1, <1>2, <1>5, UndoKeeps, JumpIs

(* Redo goes to the entry it put back. *)
LEMMA RedoIs ==
    ASSUME InputInv, Redo
    PROVE  InputInv' /\ Lands
  <1>1. redo_stack \in Seq(EditEntry) /\ Len(redo_stack) \in Nat /\ IInv
    BY DEF InputInv, IInv, EditorTypes
  <1>2. RedoStep /\ jump_cursor_to(redo_stack[Len(redo_stack)].offset) /\ HostKeepsModes
    BY DEF Redo
  <1>3. Len(redo_stack) > 0
    BY <1>2 DEF RedoStep, redo
  <1>4. Len(redo_stack) \in 1 .. Len(redo_stack)
    BY <1>1, <1>3
  <1>5. redo_stack[Len(redo_stack)].offset \in Nat
    BY <1>1, <1>4, EntryOffset
  <1> QED BY <1>1, <1>2, <1>5, RedoKeeps, JumpIs

(* A paste goes in at the caret, or at the end, and the caret behind it. *)
LEMMA PasteIs ==
    ASSUME InputInv, paste_bytes
    PROVE  InputInv' /\ Lands
  <1> DEFINE put == IF selection = << >> THEN Len(view) ELSE Lesser(cursor, Len(view))
  <1>1. PICK bytes \in Clipboard :
           IF mode = "Mutable"
           THEN /\ Requested(0, bytes)
                /\ splice_and_select(put, 0, bytes, TRUE)
                /\ Edit(put, 0, bytes, Joined)
                /\ set_selection(Caret(put + Len(bytes)))
           ELSE Kept(TRUE) /\ UNCHANGED <<selection, last_cursor_offset, edit_high_nibble>>
    BY DEF paste_bytes
  <1>2. HostKeepsModes
    BY DEF paste_bytes
  <1>3. CASE mode # "Mutable"
    <2>1. /\ Kept(TRUE) /\ selection' = selection /\ edit_high_nibble' = edit_high_nibble
          /\ last_cursor_offset' = last_cursor_offset
      BY <1>1, <1>3
    <2>2. FlagsTyped
      BY <1>2, <2>1, HostFlags DEF HostKeepsModes
    <2>3. IInv' /\ Lands
      BY <2>1, <2>2, KeptLands
    <2> QED BY <1>2, <2>1, <2>3, HostTyped
  <1>4. CASE mode = "Mutable"
    <2>1. put \in Nat /\ put <= Len(view) /\ Len(view) \in Nat
      BY Here DEF Lesser
    <2> HIDE DEF put
    <2>2. /\ Requested(0, bytes) /\ splice_and_select(put, 0, bytes, TRUE)
          /\ Edit(put, 0, bytes, Joined)
          /\ selection' = Caret(put + Len(bytes)) /\ edit_high_nibble' = TRUE
      BY <1>1, <1>4 DEF set_selection, put
    <2>3. bytes \in Seq(Byte) /\ Len(bytes) \in Nat
      BY InputConstants
    <2>4. view = present /\ present \in Seq(Byte) /\ IInv
      BY DEF InputInv, IInv, PatchShows, BufferTypes, view
    <2>5. FlagsTyped
      BY <1>2, <2>2, HostFlags DEF HostKeepsModes
    <2>6. /\ BelowCap /\ (0 > 0 \/ bytes # << >>)
          /\ put + 0 <= Len(view)
          /\ Recorded(Entry(put, 0, bytes), TRUE) /\ history_break' \in BOOLEAN
          /\ patch' = rebuild_patch_from_stack(undo_stack')
          /\ UNCHANGED <<base_source, mode>>
          /\ Change(Splice(present, put, 0, bytes), Joined)
      BY <2>2 DEF Requested, splice_and_select, CanRecord, Edit
    <2>7. IInv' /\ Len(present') = Len(present) - 0 + Len(bytes)
      <3>1. typing_mode' \in {"Replace", "Insert"} /\ edit_high_nibble' \in BOOLEAN
        BY <2>5 DEF FlagsTyped
      <3>2. IInv' /\ present' = Splice(present, put, 0, bytes)
        BY <2>1, <2>3, <2>4, <2>6, <3>1, EditRecorded
      <3> QED BY <2>1, <2>3, <2>4, <2>6, <3>2, SpliceType, SMTT(30)
    <2>8. put + Len(bytes) \in Nat /\ put + Len(bytes) <= Len(present')
      BY <2>1, <2>3, <2>7, Here
    <2>9. Lands
      BY <2>2, <2>8, LandsAt
    <2> QED BY <1>2, <2>2, <2>7, <2>9, HostTyped
  <1> QED BY <1>3, <1>4

(* A step that leaves the bytes, the caret and the keys alone. *)
LEMMA StandingStill ==
    ASSUME InputInv, IInv', present' = present, selection' = selection,
           drag_anchor' = drag_anchor, active_pane' = active_pane,
           vim' \in VimStates, input_mode' \in {"Default", "Vim"}, edit_high_nibble' = TRUE
    PROVE  InputInv' /\ Lands
  <1>1. Lands
    <2>1. Len(present') \in Nat /\ Len(present) <= Len(present')
      BY Here
    <2> QED BY <2>1, LandsStill
  <1>2. /\ active_pane' \in {"Hex", "Ascii"} /\ (drag_anchor' = << >> \/ drag_anchor'[1] \in Nat)
        /\ (selection' = << >> \/ selection' \in Nat \X Nat)
    BY DEF InputInv, KeysTyped
  <1> QED BY <1>1, <1>2, StillTyped

(* The lock of the tab. *)
LEMMA ToggleEditModeIs ==
    ASSUME InputInv, ToggleEditMode
    PROVE  InputInv' /\ Lands
  <1>1. PICK m \in {"Readonly", "Mutable"} : set_edit_mode(m)
    BY DEF ToggleEditMode
  <1>2. bufferVars' = bufferVars
    BY DEF ToggleEditMode
  <1>3. IInv'
    <2>1. ModeStep
      BY <1>1, <1>2 DEF ModeStep
    <2> QED BY <2>1, ModeKeeps DEF InputInv
  <1>4. edit_high_nibble' = TRUE /\ present' = present /\ selection' = selection
    BY <1>1, <1>2 DEF ToggleEditMode, set_edit_mode, bufferVars
  <1>5. /\ vim' \in VimStates /\ input_mode' \in {"Default", "Vim"}
        /\ drag_anchor' = drag_anchor /\ active_pane' = active_pane
    BY DEF ToggleEditMode, InputInv, KeysTyped
  <1> QED BY <1>3, <1>4, <1>5, StandingStill

(* vim mode on and off. *)
LEMMA SetInputModeIs ==
    ASSUME InputInv, set_input_mode
    PROVE  InputInv' /\ Lands
  <1>1. /\ Kept(TRUE) /\ typing_mode' = "Replace" /\ edit_high_nibble' = TRUE
        /\ selection' = selection /\ drag_anchor' = drag_anchor /\ active_pane' = active_pane
        /\ input_mode' \in {"Default", "Vim"}
    BY DEF set_input_mode, set_typing_mode
  <1>2. FlagsTyped
    <2>1. edit_high_nibble' \in BOOLEAN
      BY <1>1, Zenon
    <2> QED BY <1>1, <2>1 DEF FlagsTyped
  <1>3. vim' \in VimStates
    <2>1. vim' = vim \/ vim' = [clear_pending EXCEPT !.mode = "Normal"]
      BY DEF set_input_mode
    <2> QED BY <2>1, Here DEF VimStates
  <1>4. IInv' /\ present' = present
    BY <1>1, <1>2, KeptIs DEF InputInv
  <1> QED BY <1>1, <1>3, <1>4, StandingStill

(* A save leaves the bytes shown. *)
LEMMA SaveTabIs ==
    ASSUME InputInv, SaveTab
    PROVE  InputInv' /\ Lands
  <1>1. SaveStep /\ HostKeepsModes /\ selection' = selection
    BY DEF SaveTab
  <1>2. IInv'
    BY <1>1, SaveKeeps DEF InputInv
  <1>3. edit_high_nibble' = TRUE /\ present' = present
    BY <1>1 DEF SaveStep, swap_base, Reset
  <1>4. /\ vim' \in VimStates /\ input_mode' \in {"Default", "Vim"}
        /\ drag_anchor' = drag_anchor /\ active_pane' = active_pane
    BY <1>1 DEF HostKeepsModes, InputInv, KeysTyped
  <1> QED BY <1>1, <1>2, <1>3, <1>4, StandingStill

(* A reload leaves the caret where it was, whatever the new length. *)
LEMMA ReloadTabIs ==
    ASSUME InputInv, ReloadTab
    PROVE  InputInv'
  <1>1. ReloadStep /\ HostKeepsModes /\ selection' = selection
    BY DEF ReloadTab
  <1>2. IInv'
    BY <1>1, ReloadKeeps DEF InputInv
  <1>3. edit_high_nibble' = TRUE
    BY <1>1 DEF ReloadStep, swap_base
  <1>4. /\ vim' \in VimStates /\ input_mode' \in {"Default", "Vim"}
        /\ drag_anchor' = << >> \/ drag_anchor'[1] \in Nat
        /\ active_pane' \in {"Hex", "Ascii"}
        /\ selection' = << >> \/ selection' \in Nat \X Nat
    BY <1>1 DEF HostKeepsModes, InputInv, KeysTyped
  <1> QED BY <1>2, <1>3, <1>4, StillTyped

(* Every step of the host but a reload lands the caret. *)
LEMMA HostKeeps ==
    ASSUME InputInv, HostNext
    PROVE  InputInv' /\ (Lands \/ ReloadTab)
  BY ClickIs, DragIs, ReleaseIs, GoToIs, UndoIs, RedoIs, PasteIs, ToggleEditModeIs,
     SetInputModeIs, SaveTabIs, ReloadTabIs DEF HostNext

-----------------------------------------------------------------------------
(* The keys, with what they leave behind. *)

(* What a batch of keys leaves typed. *)
LEMMA BatchTyped ==
    ASSUME InputInv, IInv', Lands, Settled, drag_anchor' = drag_anchor, vim' \in VimStates,
           active_pane' \in {"Hex", "Ascii"}, input_mode' \in {"Default", "Vim"}
    PROVE  InputInv'
  <1>1. selection' = << >> \/ selection' \in Nat \X Nat
    BY DEF Lands
  <1>2. KeysTyped'
    BY <1>1 DEF InputInv, KeysTyped
  <1>3. NibbleFollows'
    BY DEF Settled, NibbleFollows, CursorOf
  <1> QED BY <1>2, <1>3 DEF InputInv

(* Every key. *)
LEMMA KeyKeeps ==
    ASSUME InputInv, DefaultNext \/ ExitInsert \/ VimNext, drag_anchor' = drag_anchor
    PROVE  InputInv' /\ Lands
  <1>1. /\ active_pane \in {"Hex", "Ascii"} /\ input_mode \in {"Default", "Vim"}
        /\ vim \in VimStates /\ (drag_anchor = << >> \/ drag_anchor[1] \in Nat)
    BY DEF InputInv, KeysTyped
  <1>2. CASE DefaultNext
    <2>1. Settled /\ vim' = vim /\ active_pane' = active_pane /\ input_mode' = input_mode
      BY <1>2 DEF DefaultNext
    <2>2. IInv' /\ Lands /\ vim' \in VimStates
      BY <1>1, <1>2, <2>1, DefaultKeeps
    <2> QED BY <1>1, <2>1, <2>2, BatchTyped
  <1>3. CASE ExitInsert
    <2>1. edit_high_nibble' = TRUE /\ active_pane' = active_pane /\ input_mode' = input_mode
      BY <1>3 DEF ExitInsert, set_typing_mode
    <2>2. IInv' /\ Lands /\ vim' \in VimStates
      BY <1>3, ExitInsertKeeps
    <2>3. selection' = << >> \/ selection' \in Nat \X Nat
      BY <2>2 DEF Lands
    <2> QED BY <1>1, <2>1, <2>2, <2>3, StillTyped
  <1>4. CASE VimNext
    <2>1. Settled /\ input_mode' = input_mode
      BY <1>4 DEF VimNext
    <2> QED BY <1>1, <1>4, <2>1, VimKeeps, BatchTyped
  <1> QED BY <1>2, <1>3, <1>4

(* A tab opened afresh, reopened or restored. *)
LEMMA InputStart ==
    ASSUME InputInit
    PROVE  InputInv
  <1>1. IInv
    BY InitIInv DEF InputInit
  <1>2. base_source \in Seq(Byte)
    BY <1>1 DEF IInv, EditorTypes
  <1>3. edit_high_nibble
    BY DEF InputInit, HistoryInit, Init
  <1>4. selection = << >> \/ selection \in Nat \X Nat
    <2>1. LastOf(base_source) \in Nat
      BY <1>2, LastIs
    <2> QED BY <2>1 DEF InputInit, Caret
  <1>5. vim \in VimStates
    <2>1. << >> \in Seq(Byte)
      OBVIOUS
    <2> QED BY <2>1 DEF InputInit, VimStates
  <1> QED BY <1>1, <1>3, <1>4, <1>5 DEF InputInit, InputInv, KeysTyped, NibbleFollows

(* A step of something else. *)
LEMMA InputStutter ==
    ASSUME InputInv, UNCHANGED inputVars
    PROVE  InputInv'
  <1>1. UNCHANGED historyAndBuffer /\ UNCHANGED keyVars
    BY DEF inputVars
  <1>2. IInv'
    BY <1>1, StutterKeeps DEF InputInv
  <1>3. /\ selection' = selection /\ active_pane' = active_pane
        /\ last_cursor_offset' = last_cursor_offset /\ drag_anchor' = drag_anchor
        /\ input_mode' = input_mode /\ vim' = vim /\ half' = half
    BY <1>1 DEF keyVars
  <1>4. edit_high_nibble' = edit_high_nibble
    BY <1>1 DEF historyAndBuffer, editVars, typingVars
  <1>5. KeysTyped'
    BY <1>3 DEF InputInv, KeysTyped
  <1>6. NibbleFollows'
    BY <1>3, <1>4 DEF InputInv, NibbleFollows
  <1> QED BY <1>2, <1>5, <1>6 DEF InputInv

(* Every step of the input. *)
LEMMA InputKeeps ==
    ASSUME InputInv, InputNext
    PROVE  InputInv' /\ (Lands \/ ReloadTab)
  <1>1. CASE (DefaultNext \/ ExitInsert \/ VimNext) /\ UNCHANGED drag_anchor
    BY <1>1, KeyKeeps
  <1>2. CASE HostNext
    BY <1>2, HostKeeps
  <1> QED BY <1>1, <1>2 DEF InputNext

-----------------------------------------------------------------------------

(* Whatever the keys, the mouse and the host do in whatever order, the      *)
(* bytes and the history keep the session's invariant, and a nibble pointer *)
(* left low is remembered where it was left (hxy-editor input.rs, vim.rs).  *)
THEOREM InputIsConsistent == InputSpec => []InputInv
  <1>1. InputInit => InputInv
    BY InputStart
  <1>2. InputInv /\ [InputNext]_inputVars => InputInv'
    BY InputKeeps, InputStutter
  <1> QED BY <1>1, <1>2, PTL DEF InputSpec

(* No key, click, drag, jump, undo, redo, paste or vim operator, with any   *)
(* count, moves the caret out of the bytes; only a reload of a shorter file *)
(* leaves it behind them.                                                  *)
THEOREM CaretAlwaysInside == InputSpec => CaretStaysInside
  <1>1. InputInv /\ [InputNext]_inputVars
        => [CaretInside => CaretInside' \/ ReloadTab]_inputVars
    <2> SUFFICES ASSUME InputInv, InputNext, CaretInside
                 PROVE  CaretInside' \/ ReloadTab
      OBVIOUS
    <2>1. InputInv' /\ (Lands \/ ReloadTab)
      BY InputKeeps
    <2>2. cur0 <= Len(present)
      BY Here DEF CaretInside, sel0, cur0, cursor, Caret
    <2>3. view' = present'
      BY <2>1 DEF InputInv, IInv, PatchShows, view
    <2>4. Lands => CaretInside'
      BY <2>2, <2>3 DEF Lands, CaretInside, cursor
    <2> QED BY <2>1, <2>4
  <1> QED BY <1>1, InputIsConsistent, PTL DEF InputSpec, CaretStaysInside

(* Between the two digits of a byte anything may happen: the second digit   *)
(* goes to the byte of the first, or starts a byte of its own.             *)
THEOREM DigitsAlwaysMeet == InputSpec => DigitsMeet
  <1>1. InputInv /\ [InputNext]_inputVars
        => [ /\ selection # << >> /\ active_pane = "Hex" /\ edit_high_nibble'
             /\ present' # present /\ Len(present') = Len(present) /\ cursor < Len(present)
             /\ present'[cursor + 1] \div NibbleBase = present[cursor + 1] \div NibbleBase
             /\ DefaultNext
             => half = <<cursor>> ]_inputVars
    <2> SUFFICES ASSUME InputInv, selection # << >>, active_pane = "Hex", edit_high_nibble',
                        present' # present, Len(present') = Len(present), DefaultNext
                 PROVE  half = <<cursor>>
      OBVIOUS
    <2>1. Len(present) \in Nat
      BY Here
    <2>2. HexDigit
      <3>1. ~TypeText
        BY DEF TypeText
      <3>2. ~Backspace
        BY <2>1, BackspaceIs
      <3> QED BY <3>1, <3>2, ArrowKeyIs, ClearSelectionIs, HostKeyIs DEF DefaultNext
    <2>3. ~NibbleAtStart
      BY <2>2, HexDigitIs
    <2>4. ~edit_high_nibble /\ CursorOf(selection) = last_cursor_offset
      BY <2>3 DEF NibbleAtStart, Moved
    <2>5. half = last_cursor_offset
      BY <2>4 DEF InputInv, NibbleFollows
    <2> QED BY <2>4, <2>5 DEF CursorOf, cursor
  <1> QED BY <1>1, InputIsConsistent, PTL DEF InputSpec, DigitsMeet

(* What d, dd and x take out of the bytes, at any count, is in the register *)
(* and gives the bytes back where they were.                               *)
THEOREM DeletedAlwaysKept == InputSpec => DeletedIsKept
  <1>1. InputInv /\ [InputNext]_inputVars
        => [ Len(present') < Len(present) /\ VimNext
             => \E o \in 0 .. Len(present') : present = Splice(present', o, 0, vim'.register)
           ]_inputVars
    BY VimKeeps DEF GoneIsKept
  <1> QED BY <1>1, InputIsConsistent, PTL DEF InputSpec, DeletedIsKept

(* Whatever the content: w, b and e, and their capitals, go to the nearest  *)
(* edge of a word in their direction, over any run of whitespace, and to    *)
(* the edge of the file where there is none (vim.rs word_forward,           *)
(* word_back, word_end_forward).                                           *)
THEOREM WordsAlwaysExact == TextSpec => []WordsOfText
  <1>1. TextInit => WordsOfText
    BY TextsAssumption, WordsExact DEF TextInit, WordsOfText
  <1>2. WordsOfText /\ [FALSE]_text => WordsOfText'
    BY DEF WordsOfText
  <1> QED BY <1>1, <1>2, PTL DEF TextSpec

(* Whatever the content, balanced or not, and wherever the caret is: the    *)
(* two counting walks of a bracket object find the innermost balanced pair  *)
(* around the caret, and nothing where there is none (vim.rs               *)
(* bracket_range).                                                         *)
THEOREM BracketsAlwaysExact == TextSpec => []BracketsOfText
  <1>1. TextInit => BracketsOfText
    BY TextsAssumption, BracketsExact DEF TextInit, BracketsOfText
  <1>2. BracketsOfText /\ [FALSE]_text => BracketsOfText'
    BY DEF BracketsOfText
  <1> QED BY <1>1, <1>2, PTL DEF TextSpec
=============================================================================
