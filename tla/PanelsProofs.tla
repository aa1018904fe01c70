---------------------------- MODULE PanelsProofs ----------------------------
(***************************************************************************)
(* The panels of a file tab, for any contents, queries, templates and      *)
(* bounds: the global search lists only matches of the query shown, the    *)
(* tab keeps every template the user wants, once, the find bar finds and    *)
(* replaces exactly the matches there are, the filler rows of the compare   *)
(* view keep equal bytes level up to the rounding of a row, and the search  *)
(* for strings reports the runs of characters there are.                   *)
(***************************************************************************)
EXTENDS Panels, TLAPS, FiniteSetTheorems, WellFoundedInduction

-----------------------------------------------------------------------------
(* Global search. *)

(* The inductive invariant: a scan whose serial is the present one was      *)
(* started for the query that is still in the box.                         *)
ScanOfSerial ==
    \A i \in 1 .. Len(scan) :
       /\ scan[i].serial \in Nat /\ scan[i].serial <= search_serial
       /\ scan[i].serial = search_serial => scan[i].pattern = query

SearchInv ==
    /\ search_serial \in Nat
    /\ scan = << >> \/ scan = <<scan[1]>>
    /\ ScanOfSerial
    /\ matches = << >> \/ matches = <<query>>

LEMMA SearchInitially == SearchInit => SearchInv
  BY DEF SearchInit, SearchInv, ScanOfSerial

LEMMA RefreshKeeps ==
    ASSUME SearchInv, Refresh
    PROVE  SearchInv'
  <1>1. search_serial' = search_serial + 1 /\ matches' = << >> /\ scan' = scan
    BY DEF Refresh
  <1>2. ScanOfSerial'
    BY <1>1 DEF SearchInv, ScanOfSerial
  <1> QED BY <1>1, <1>2 DEF SearchInv

LEMMA RunSearchKeeps ==
    ASSUME SearchInv, RunSearch
    PROVE  SearchInv'
  <1>1. search_serial' = search_serial + 1 /\ query' = query
    BY DEF RunSearch
  <1>2. CASE scan' = scan /\ matches' = << >>
    BY <1>1, <1>2 DEF SearchInv, ScanOfSerial
  <1>3. CASE /\ scan' = <<[serial |-> search_serial + 1, pattern |-> query]>>
             /\ matches' = matches
    <2>1. Len(scan') = 1 /\ scan'[1] = [serial |-> search_serial + 1, pattern |-> query]
      BY <1>3
    <2>2. ScanOfSerial'
      BY <1>1, <2>1 DEF SearchInv, ScanOfSerial
    <2> QED BY <1>1, <1>3, <2>1, <2>2 DEF SearchInv
  <1> QED BY <1>2, <1>3 DEF RunSearch

LEMMA FinishScanKeeps ==
    ASSUME SearchInv, FinishScan
    PROVE  SearchInv'
  <1>1. /\ scan # << >> /\ scan' = << >> /\ query' = query /\ search_serial' = search_serial
        /\ matches' = IF scan[1].serial = search_serial THEN <<scan[1].pattern>> ELSE matches
    BY DEF FinishScan
  <1>2. 1 \in 1 .. Len(scan)
    <2>1. scan = <<scan[1]>>
      BY <1>1 DEF SearchInv
    <2>2. Len(<<scan[1]>>) = 1
      OBVIOUS
    <2> QED BY <2>1, <2>2
  <1>3. ScanOfSerial'
    BY <1>1 DEF ScanOfSerial
  <1> QED BY <1>1, <1>2, <1>3 DEF SearchInv, ScanOfSerial

LEMMA SearchStepKeeps == SearchInv /\ [PanelsNext]_panelsVars => SearchInv'
  <1> SUFFICES ASSUME SearchInv, [PanelsNext]_panelsVars PROVE SearchInv'
    OBVIOUS
  <1>1. CASE UNCHANGED searchVars
    BY <1>1 DEF SearchInv, ScanOfSerial, searchVars
  <1>2. CASE SearchStep
    BY <1>2, RefreshKeeps, RunSearchKeeps, FinishScanKeeps DEF SearchStep
  <1>3. PanelsNext => UNCHANGED searchVars \/ SearchStep
    BY DEF PanelsNext, EditTab, SaveTab, ReloadTab, TemplateStep, AnalysisStep, CompareStep,
           FindStep, StringsStep, RowsStep
  <1> QED BY <1>1, <1>2, <1>3 DEF panelsVars

(* Whatever is typed while a scan runs, the matches listed were found for   *)
(* the query in the box (global_search.rs refresh, run, and the completion  *)
(* handler's look at search_serial).                                       *)
THEOREM MatchesAlwaysOfQuery == PanelsSpec => []MatchesAreOfQuery
  <1>1. PanelsInit => SearchInv
    BY SearchInitially DEF PanelsInit
  <1>2. SearchInv => MatchesAreOfQuery
    BY DEF SearchInv, MatchesAreOfQuery
  <1> QED BY <1>1, <1>2, SearchStepKeeps, PTL DEF PanelsSpec

-----------------------------------------------------------------------------
(* Loops, which the model writes as recursive functions on 0 .. n: what     *)
(* holds at 0, and at k if it holds at k - 1, holds up to n.               *)
LEMMA Upward ==
    ASSUME NEW n \in Nat, NEW I, 0 \in I, \A k \in 1 .. n : k - 1 \in I => k \in I
    PROVE  \A k \in 0 .. n : k \in I
  <1> DEFINE Bad == (0 .. n) \ I
  <1> SUFFICES ASSUME Bad # {} PROVE FALSE
    OBVIOUS
  <1>1. Bad \in SUBSET Nat
    OBVIOUS
  <1>2. IsWellFoundedOn(OpToRel(<, Nat), Nat)
    BY NatLessThanWellFounded
  <1>3. PICK m \in Bad : \A k \in Bad : ~ (<<k, m>> \in OpToRel(<, Nat))
    BY <1>1, <1>2, WFMin, Zenon
  <1>4. \A k \in Bad : ~ (k < m)
    BY <1>1, <1>3 DEF OpToRel
  <1>5. m \in 1 .. n /\ m - 1 \in 0 .. n /\ m - 1 < m
    <2>1. m \in 0 .. n /\ m \notin I
      BY <1>3
    <2>2. m # 0
      BY <2>1
    <2> QED BY <2>1, <2>2
  <1>6. m - 1 \in I
    BY <1>4, <1>5
  <1> QED BY <1>3, <1>5, <1>6

-----------------------------------------------------------------------------
(* Template runs. *)

Instances == [script : Scripts, end : Int, fresh : BOOLEAN]

(* The scripts of a list, each of them in one place. *)
ScriptsOf(list) == {list[i].script : i \in 1 .. Len(list)}
Single(list) == \A i, j \in 1 .. Len(list) : list[i].script = list[j].script => i = j

IsTab(t) ==
    /\ t = [templates |-> t.templates, running |-> t.running, pending |-> t.pending,
            armed |-> t.armed]
    /\ t.templates \in Seq(Instances)
    /\ t.running \in Seq(Instances)

(* The inductive invariant, of a tab t and the templates wanted: each of    *)
(* them is in one place of one of the two lists.                           *)
Keeps(t, want) ==
    /\ IsTab(t)
    /\ Single(t.templates) /\ Single(t.running)
    /\ ScriptsOf(t.templates) \cap ScriptsOf(t.running) = {}
    /\ ScriptsOf(t.templates) \cup ScriptsOf(t.running) = want

(* One more at the end of a list. *)
LEMMA OneMore ==
    ASSUME NEW list \in Seq(Instances), Single(list), NEW x \in Instances,
           x.script \notin ScriptsOf(list)
    PROVE  /\ Append(list, x) \in Seq(Instances)
           /\ Single(Append(list, x))
           /\ ScriptsOf(Append(list, x)) = ScriptsOf(list) \cup {x.script}
  <1>1. PICK n \in Nat : n = Len(list)
    OBVIOUS
  <1>2. PICK more : more = Append(list, x)
    OBVIOUS
  <1>3. /\ more \in Seq(Instances) /\ Len(more) = n + 1 /\ more[n + 1] = x
        /\ \A i \in 1 .. n : more[i] = list[i]
    BY <1>1, <1>2
  <1>4. \A i \in 1 .. n : list[i].script # x.script
    BY <1>1 DEF ScriptsOf
  <1>5. Single(more)
    <2> SUFFICES ASSUME NEW i \in 1 .. n + 1, NEW j \in 1 .. n + 1, more[i].script = more[j].script
                 PROVE  i = j
      BY <1>3 DEF Single
    <2>1. CASE i \in 1 .. n /\ j \in 1 .. n
      BY <1>1, <1>3, <2>1 DEF Single
    <2>2. CASE i = n + 1 \/ j = n + 1
      <3>1. i \in 1 .. n => FALSE
        BY <1>3, <1>4, <2>2
      <3>2. j \in 1 .. n => FALSE
        BY <1>3, <1>4, <2>2
      <3> QED BY <3>1, <3>2
    <2> QED BY <2>1, <2>2
  <1>6. ScriptsOf(more) = ScriptsOf(list) \cup {x.script}
    <2>1. \A i \in 1 .. n + 1 : i \in 1 .. n \/ i = n + 1
      OBVIOUS
    <2>2. \A i \in 1 .. n : i \in 1 .. n + 1
      OBVIOUS
    <2>3. n + 1 \in 1 .. n + 1
      OBVIOUS
    <2> QED BY <1>1, <1>3, <2>1, <2>2, <2>3 DEF ScriptsOf
  <1> QED BY <1>2, <1>3, <1>5, <1>6

(* One taken out of a list. *)
LEMMA OneLess ==
    ASSUME NEW list \in Seq(Instances), Single(list), NEW i \in 1 .. Len(list),
           NEW rest, rest = DropAt(list, i)
    PROVE  /\ rest \in Seq(Instances)
           /\ Single(rest)
           /\ ScriptsOf(rest) = ScriptsOf(list) \ {list[i].script}
  <1>0. Len(list) \in Nat /\ i \in Nat /\ 1 <= i /\ i <= Len(list)
    OBVIOUS
  <1>1. PICK n \in Nat : n = Len(list) - 1
    BY <1>0
  <1> DEFINE Old(k) == IF k < i THEN k ELSE k + 1
  <1>2. \A k \in 1 .. n : Old(k) \in 1 .. Len(list) /\ Old(k) # i
    BY <1>1
  <1>3. \A k, m \in 1 .. n : Old(k) = Old(m) => k = m
    BY <1>1
  <1>4. \A j \in 1 .. Len(list) : j # i => \E k \in 1 .. n : Old(k) = j
    <2> SUFFICES ASSUME NEW j \in 1 .. Len(list), j # i PROVE \E k \in 1 .. n : Old(k) = j
      OBVIOUS
    <2>1. CASE j < i
      <3>1. j \in 1 .. n /\ Old(j) = j
        BY <1>1, <2>1
      <3> QED BY <3>1
    <2>2. CASE j > i
      <3>1. j - 1 \in 1 .. n /\ Old(j - 1) = j
        BY <1>1, <2>2
      <3> QED BY <3>1
    <2> QED BY <2>1, <2>2
  <1>5. rest = [k \in 1 .. n |-> list[Old(k)]]
    BY <1>1 DEF DropAt
  <1> HIDE DEF Old
  <1>6. rest \in Seq(Instances) /\ Len(rest) = n /\ \A k \in 1 .. n : rest[k] = list[Old(k)]
    BY <1>2, <1>5
  <1>7. Single(rest)
    BY <1>2, <1>3, <1>6 DEF Single
  <1>8. ScriptsOf(rest) = ScriptsOf(list) \ {list[i].script}
    <2>1. ASSUME NEW s \in ScriptsOf(rest) PROVE s \in ScriptsOf(list) \ {list[i].script}
      <3>1. PICK k \in 1 .. n : s = list[Old(k)].script
        BY <1>6, <2>1 DEF ScriptsOf
      <3> QED BY <1>2, <3>1 DEF ScriptsOf, Single
    <2>2. ASSUME NEW s \in ScriptsOf(list) \ {list[i].script} PROVE s \in ScriptsOf(rest)
      <3>1. PICK j \in 1 .. Len(list) : s = list[j].script /\ j # i
        BY <2>2 DEF ScriptsOf
      <3>2. PICK k \in 1 .. n : Old(k) = j
        BY <1>4, <3>1
      <3> QED BY <1>6, <3>1, <3>2 DEF ScriptsOf
    <2> QED BY <2>1, <2>2
  <1> QED BY <1>6, <1>7, <1>8

(* Staleness does not move an instance. *)
LEMMA StaleIs ==
    ASSUME NEW list \in Seq(Instances), NEW old, old = Stale(list)
    PROVE  /\ old \in Seq(Instances) /\ Len(old) = Len(list)
           /\ \A i \in 1 .. Len(list) : old[i].script = list[i].script
  <1>1. PICK n \in Nat : n = Len(list)
    OBVIOUS
  <1>2. old = [i \in 1 .. n |-> [list[i] EXCEPT !.fresh = FALSE]]
    BY <1>1 DEF Stale
  <1>3. \A x \in Instances : /\ [x EXCEPT !.fresh = FALSE] \in Instances
                            /\ [x EXCEPT !.fresh = FALSE].script = x.script
    BY DEF Instances
  <1>4. \A i \in 1 .. n : list[i] \in Instances
    BY <1>1
  <1>5. \A i \in 1 .. n : old[i] \in Instances /\ old[i].script = list[i].script
    BY <1>2, <1>3, <1>4
  <1>6. old = [i \in 1 .. n |-> old[i]]
    BY <1>2
  <1>7. old \in Seq(Instances) /\ Len(old) = n
    BY <1>5, <1>6
  <1> QED BY <1>1, <1>5, <1>7

LEMMA StaleKeeps ==
    ASSUME NEW t, NEW want, Keeps(t, want), NEW u, u = BytesChanged(t)
    PROVE  Keeps(u, want)
  <1>1. PICK a \in Seq(Instances) : a = t.templates
    BY DEF Keeps, IsTab
  <1>2. PICK b \in Seq(Instances) : b = t.running
    BY DEF Keeps, IsTab
  <1>3. PICK c : c = Stale(a)
    OBVIOUS
  <1>4. PICK d : d = Stale(b)
    OBVIOUS
  <1>5. u = [templates |-> c, running |-> d, pending |-> t.pending, armed |-> t.armed]
    BY <1>1, <1>2, <1>3, <1>4 DEF BytesChanged, Keeps, IsTab
  <1>6. /\ c \in Seq(Instances) /\ Len(c) = Len(a)
        /\ \A i \in 1 .. Len(a) : c[i].script = a[i].script
    BY <1>3, StaleIs
  <1>7. /\ d \in Seq(Instances) /\ Len(d) = Len(b)
        /\ \A i \in 1 .. Len(b) : d[i].script = b[i].script
    BY <1>4, StaleIs
  <1>8. Single(a) /\ Single(b)
    BY <1>1, <1>2 DEF Keeps
  <1>9. Single(c) /\ Single(d)
    BY <1>6, <1>7, <1>8 DEF Single
  <1>10. ScriptsOf(c) = ScriptsOf(a) /\ ScriptsOf(d) = ScriptsOf(b)
    BY <1>6, <1>7 DEF ScriptsOf
  <1> QED BY <1>1, <1>2, <1>5, <1>6, <1>7, <1>9, <1>10 DEF Keeps, IsTab

(* A run that starts, or is refused, adds its template. *)
LEMMA RunKeeps ==
    ASSUME NEW t, NEW want, Keeps(t, want), NEW script \in Scripts \ want, NEW end \in Int,
           NEW bytes, NEW u, u = run_template(t, script, end, bytes)
    PROVE  Keeps(u, want \cup {script})
  <1>1. PICK a \in Seq(Instances) : a = t.templates
    BY DEF Keeps, IsTab
  <1>2. PICK b \in Seq(Instances) : b = t.running
    BY DEF Keeps, IsTab
  <1>3. PICK x \in Instances : x = Instance(script, end) /\ x.script = script
    <2>1. Instance(script, end) \in Instances /\ Instance(script, end).script = script
      BY DEF Instance, Instances
    <2> QED BY <2>1
  <1>4. script \notin ScriptsOf(a) /\ script \notin ScriptsOf(b)
    BY <1>1, <1>2 DEF Keeps
  <1>5. CASE end > Len(bytes)
    <2>1. PICK more : more = Append(a, x)
      OBVIOUS
    <2>2. u = [templates |-> more, running |-> b, pending |-> t.pending, armed |-> t.armed]
      BY <1>1, <1>2, <1>3, <1>5, <2>1 DEF run_template, Keeps, IsTab
    <2>3. more \in Seq(Instances) /\ Single(more) /\ ScriptsOf(more) = ScriptsOf(a) \cup {script}
      BY <1>1, <1>3, <1>4, <2>1, OneMore DEF Keeps
    <2> QED BY <1>1, <1>2, <1>4, <2>2, <2>3 DEF Keeps, IsTab
  <1>6. CASE ~(end > Len(bytes))
    <2>1. PICK more : more = Append(b, x)
      OBVIOUS
    <2>2. u = [templates |-> a, running |-> more, pending |-> t.pending, armed |-> t.armed]
      BY <1>1, <1>2, <1>3, <1>6, <2>1 DEF run_template, Keeps, IsTab
    <2>3. more \in Seq(Instances) /\ Single(more) /\ ScriptsOf(more) = ScriptsOf(b) \cup {script}
      BY <1>2, <1>3, <1>4, <2>1, OneMore DEF Keeps
    <2> QED BY <1>1, <1>2, <1>4, <2>2, <2>3 DEF Keeps, IsTab
  <1> QED BY <1>5, <1>6

(* The loop of rerun_templates, instance by instance. *)
Emptied(t) == [t EXCEPT !.templates = << >>]
Again(h, t, k, bytes) == run_template(h, t.templates[k].script, t.templates[k].end, bytes)

LEMMA RerunRuns ==
    ASSUME NEW t, NEW bytes, NEW n \in Nat, n = Len(t.templates), t.running = << >>
    PROVE  \E p : /\ p[0] = Emptied(t)
                  /\ \A k \in 1 .. n : p[k] = Again(p[k - 1], t, k, bytes)
                  /\ rerun_templates(t, bytes) = p[n]
  <1> DEFINE start == Emptied(t)
             Step(h, k) == Again(h, t, k, bytes)
             Eqn(f, m) == f = [k \in 0 .. m |-> IF k = 0 THEN start ELSE Step(f[k - 1], k)]
             I == {m \in 0 .. n : \E f : Eqn(f, m)}
             p == CHOOSE f : Eqn(f, n)
  <1>1. rerun_templates(t, bytes) = p[n]
    BY DEF rerun_templates, Emptied, Again
  <1> HIDE DEF start, Step
  <1>2. 0 \in I
    <2> DEFINE f == [k \in 0 .. 0 |-> start]
    <2>1. Eqn(f, 0)
      OBVIOUS
    <2> HIDE DEF f, Eqn
    <2> QED BY <2>1
  <1>3. ASSUME NEW m \in 1 .. n, m - 1 \in I PROVE m \in I
    <2>1. PICK f : Eqn(f, m - 1)
      BY <1>3
    <2> DEFINE g == [k \in 0 .. m |-> IF k < m THEN f[k] ELSE Step(f[m - 1], m)]
    <2>2. \A k \in 0 .. m - 1 : f[k] = IF k = 0 THEN start ELSE Step(f[k - 1], k)
      BY <2>1, Zenon
    <2>3. ASSUME NEW k \in 0 .. m PROVE g[k] = IF k = 0 THEN start ELSE Step(g[k - 1], k)
      <3>1. CASE k = 0
        BY <3>1, <2>2
      <3>2. CASE k # 0
        <4>1. k - 1 \in 0 .. m /\ k - 1 < m
          BY <3>2
        <4>2. g[k - 1] = f[k - 1]
          BY <4>1
        <4>3. CASE k = m
          <5>1. g[k] = Step(f[m - 1], m)
            BY <4>3
          <5> QED BY <3>2, <4>2, <4>3, <5>1
        <4>4. CASE k < m
          <5>1. k \in 0 .. m - 1 /\ g[k] = f[k]
            BY <4>4
          <5>2. f[k] = Step(f[k - 1], k)
            BY <5>1, <2>2, <3>2
          <5> HIDE DEF g
          <5> QED BY <3>2, <4>2, <5>1, <5>2
        <4> QED BY <4>3, <4>4
      <3> QED BY <3>1, <3>2
    <2>4. g = [k \in 0 .. m |-> g[k]]
      OBVIOUS
    <2> HIDE DEF g
    <2>5. Eqn(g, m)
      BY <2>3, <2>4
    <2>6. m \in 0 .. n
      OBVIOUS
    <2> HIDE DEF Eqn
    <2> QED BY <2>5, <2>6
  <1> HIDE DEF I
  <1>4. n \in I
    <2>1. \A k \in 0 .. n : k \in I
      BY <1>2, <1>3, Upward
    <2> QED BY <2>1
  <1>5. Eqn(p, n)
    <2> HIDE DEF Eqn
    <2>1. \E f : Eqn(f, n)
      BY <1>4 DEF I
    <2> QED BY <2>1
  <1> HIDE DEF p
  <1>6. \A k \in 0 .. n : p[k] = IF k = 0 THEN start ELSE Step(p[k - 1], k)
    BY <1>5, Zenon
  <1>7. p[0] = start
    BY <1>6
  <1>8. ASSUME NEW k \in 1 .. n PROVE p[k] = Step(p[k - 1], k)
    <2>1. k \in 0 .. n /\ k # 0
      OBVIOUS
    <2> QED BY <1>6, <2>1
  <1> QED BY <1>1, <1>7, <1>8 DEF start, Step

LEMMA RerunKeeps ==
    ASSUME NEW t, NEW want, Keeps(t, want), NEW bytes, NEW u, u = rerun_templates(t, bytes)
    PROVE  Keeps(u, want)
  <1>1. CASE t.running # << >>
    <2>1. u = [t EXCEPT !.pending = TRUE]
      BY <1>1 DEF rerun_templates
    <2>2. u = [templates |-> t.templates, running |-> t.running, pending |-> TRUE,
               armed |-> t.armed]
      BY <2>1 DEF Keeps, IsTab
    <2> QED BY <2>2 DEF Keeps, IsTab
  <1>2. CASE t.running = << >>
    <2>1. PICK a \in Seq(Instances) : a = t.templates
      BY DEF Keeps, IsTab
    <2>2. PICK n \in Nat : n = Len(a)
      OBVIOUS
    <2>0. n = Len(t.templates)
      BY <2>1, <2>2
    <2>3. PICK p : /\ p[0] = Emptied(t)
                   /\ \A k \in 1 .. n : p[k] = Again(p[k - 1], t, k, bytes)
                   /\ rerun_templates(t, bytes) = p[n]
      BY <1>2, <2>0, RerunRuns, ZenonT(60)
    <2> DEFINE First(k) == {a[i].script : i \in 1 .. k}
               I == {k \in 0 .. n : Keeps(p[k], First(k))}
    <2>4. 0 \in I
      <3>1. p[0] = [templates |-> << >>, running |-> << >>, pending |-> t.pending,
                    armed |-> t.armed]
        BY <1>2, <2>3 DEF Keeps, IsTab, Emptied
      <3>2. ScriptsOf(<< >>) = {} /\ Single(<< >>) /\ First(0) = {}
        BY DEF ScriptsOf, Single
      <3>3. PICK q : q = p[0]
        OBVIOUS
      <3>4. IsTab(q) /\ q.templates = << >> /\ q.running = << >>
        BY <3>1, <3>3 DEF IsTab
      <3>5. Keeps(q, {})
        BY <3>2, <3>4 DEF Keeps
      <3>6. Keeps(p[0], First(0))
        BY <3>2, <3>3, <3>5
      <3> HIDE DEF First
      <3> QED BY <3>6
    <2>5. ASSUME NEW k \in 1 .. n, k - 1 \in I PROVE k \in I
      <3>1. PICK x \in Instances : x = a[k]
        BY <2>2
      <3>2. x.script \in Scripts /\ x.end \in Int
        BY DEF Instances
      <3>3. PICK m \in 0 .. n : m = k - 1
        OBVIOUS
      <3>4. x.script \notin First(m)
        <4> SUFFICES ASSUME NEW i \in 1 .. m, a[i].script = x.script PROVE FALSE
          OBVIOUS
        <4>1. i \in 1 .. n /\ i # k
          BY <3>3
        <4> QED BY <2>1, <2>2, <3>1, <4>1 DEF Keeps, Single
      <3>5. First(k) = First(m) \cup {x.script}
        <4>1. \A i \in 1 .. k : i \in 1 .. m \/ i = k
          BY <3>3
        <4>2. (\A i \in 1 .. m : i \in 1 .. k) /\ k \in 1 .. k
          BY <3>3
        <4> QED BY <3>1, <4>1, <4>2
      <3>6. Keeps(p[m], First(m))
        BY <2>5, <3>3
      <3> HIDE DEF First
      <3>7. PICK q : q = p[m]
        OBVIOUS
      <3>8. PICK r : r = p[k]
        OBVIOUS
      <3>9. r = run_template(q, x.script, x.end, bytes)
        BY <2>1, <2>3, <3>1, <3>3, <3>7, <3>8 DEF Again
      <3>10. PICK done : done = First(m)
        OBVIOUS
      <3>11. Keeps(r, done \cup {x.script})
        BY <3>2, <3>4, <3>6, <3>7, <3>9, <3>10, RunKeeps
      <3>12. k \in 0 .. n
        OBVIOUS
      <3> QED BY <3>5, <3>8, <3>10, <3>11, <3>12
    <2> HIDE DEF I
    <2>6. n \in I
      <3>1. \A k \in 0 .. n : k \in I
        BY <2>4, <2>5, Upward
      <3> QED BY <3>1
    <2>7. Keeps(u, First(n))
      BY <2>3, <2>6 DEF I
    <2>8. First(n) = want
      <3>1. ScriptsOf(t.running) = {}
        BY <1>2 DEF ScriptsOf
      <3> QED BY <2>1, <2>2, <3>1 DEF Keeps, ScriptsOf
    <2> QED BY <2>7, <2>8
  <1> QED BY <1>1, <1>2

LEMMA ReplayKeeps ==
    ASSUME NEW t, NEW want, Keeps(t, want), NEW bytes, NEW u, u = ReplayPending(t, bytes)
    PROVE  Keeps(u, want)
  <1>1. PICK s : s = [t EXCEPT !.pending = FALSE]
    OBVIOUS
  <1>2. s = [templates |-> t.templates, running |-> t.running, pending |-> FALSE,
             armed |-> t.armed]
    BY <1>1 DEF Keeps, IsTab
  <1>3. Keeps(s, want)
    BY <1>2 DEF Keeps, IsTab
  <1>4. u = t \/ u = rerun_templates(s, bytes)
    BY <1>1 DEF ReplayPending
  <1> QED BY <1>3, <1>4, RerunKeeps

-----------------------------------------------------------------------------
(* The actions. *)

TabKept == Keeps(tpl, wanted)

LEMMA TabInitially == TemplatesInit => TabKept
  <1> SUFFICES ASSUME TemplatesInit PROVE TabKept
    OBVIOUS
  <1>1. ScriptsOf(<< >>) = {} /\ Single(<< >>)
    BY DEF ScriptsOf, Single
  <1> QED BY <1>1 DEF TemplatesInit, TabKept, Keeps, IsTab

LEMMA RunScriptKeeps ==
    ASSUME TabKept, RunScript
    PROVE  TabKept'
  <1>1. PICK script \in Scripts \ wanted, end \in 0 .. Len(present) :
          tpl' = run_template(tpl, script, end, present) /\ wanted' = wanted \cup {script}
    BY DEF RunScript
  <1>2. end \in Int
    BY <1>1
  <1>3. Keeps(tpl', wanted \cup {script})
    BY <1>1, <1>2, RunKeeps DEF TabKept
  <1> QED BY <1>1, <1>3 DEF TabKept

LEMMA RemoveKeeps ==
    ASSUME TabKept, RemoveInstance
    PROVE  TabKept'
  <1>1. PICK a \in Seq(Instances) : a = tpl.templates
    BY DEF TabKept, Keeps, IsTab
  <1>2. PICK b \in Seq(Instances) : b = tpl.running
    BY DEF TabKept, Keeps, IsTab
  <1>3. CASE \E i \in 1 .. Len(tpl.templates) :
               /\ tpl' = ReplayPending([tpl EXCEPT !.templates = DropAt(@, i)], present)
               /\ wanted' = wanted \ {tpl.templates[i].script}
    <2>1. PICK i \in 1 .. Len(a) :
             /\ tpl' = ReplayPending([tpl EXCEPT !.templates = DropAt(@, i)], present)
             /\ wanted' = wanted \ {a[i].script}
      BY <1>1, <1>3
    <2>2. PICK rest : rest = DropAt(a, i)
      OBVIOUS
    <2>3. PICK t : t = [tpl EXCEPT !.templates = DropAt(@, i)]
      OBVIOUS
    <2>4. t = [templates |-> rest, running |-> b, pending |-> tpl.pending, armed |-> tpl.armed]
      BY <1>1, <1>2, <2>2, <2>3 DEF TabKept, Keeps, IsTab
    <2>5. /\ rest \in Seq(Instances) /\ Single(rest)
          /\ ScriptsOf(rest) = ScriptsOf(a) \ {a[i].script}
      BY <1>1, <2>2, OneLess DEF TabKept, Keeps
    <2>6. a[i].script \in ScriptsOf(a)
      BY DEF ScriptsOf
    <2>7. Keeps(t, wanted')
      BY <1>1, <1>2, <2>1, <2>4, <2>5, <2>6 DEF TabKept, Keeps, IsTab
    <2> QED BY <2>1, <2>3, <2>7, ReplayKeeps DEF TabKept
  <1>4. CASE \E i \in 1 .. Len(tpl.running) :
               /\ tpl' = ReplayPending([tpl EXCEPT !.running = DropAt(@, i)], present)
               /\ wanted' = wanted \ {tpl.running[i].script}
    <2>1. PICK i \in 1 .. Len(b) :
             /\ tpl' = ReplayPending([tpl EXCEPT !.running = DropAt(@, i)], present)
             /\ wanted' = wanted \ {b[i].script}
      BY <1>2, <1>4
    <2>2. PICK rest : rest = DropAt(b, i)
      OBVIOUS
    <2>3. PICK t : t = [tpl EXCEPT !.running = DropAt(@, i)]
      OBVIOUS
    <2>4. t = [templates |-> a, running |-> rest, pending |-> tpl.pending, armed |-> tpl.armed]
      BY <1>1, <1>2, <2>2, <2>3 DEF TabKept, Keeps, IsTab
    <2>5. /\ rest \in Seq(Instances) /\ Single(rest)
          /\ ScriptsOf(rest) = ScriptsOf(b) \ {b[i].script}
      BY <1>2, <2>2, OneLess DEF TabKept, Keeps
    <2>6. b[i].script \in ScriptsOf(b)
      BY DEF ScriptsOf
    <2>7. Keeps(t, wanted')
      BY <1>1, <1>2, <2>1, <2>4, <2>5, <2>6 DEF TabKept, Keeps, IsTab
    <2> QED BY <2>1, <2>3, <2>7, ReplayKeeps DEF TabKept
  <1> QED BY <1>3, <1>4 DEF RemoveInstance

LEMMA CompleteKeeps ==
    ASSUME TabKept, NEW script \in Scripts, Complete(script)
    PROVE  TabKept'
  <1>1. PICK a \in Seq(Instances) : a = tpl.templates
    BY DEF TabKept, Keeps, IsTab
  <1>2. PICK b \in Seq(Instances) : b = tpl.running
    BY DEF TabKept, Keeps, IsTab
  <1>3. PICK i \in 1 .. Len(b) :
           tpl' = ReplayPending([tpl EXCEPT !.running = DropAt(@, i),
                                            !.templates = Append(@, tpl.running[i])], present)
    BY <1>2 DEF Complete
  <1>4. PICK rest : rest = DropAt(b, i)
    OBVIOUS
  <1>5. PICK x \in Instances : x = b[i]
    OBVIOUS
  <1>6. PICK more : more = Append(a, x)
    OBVIOUS
  <1>7. PICK t : t = [tpl EXCEPT !.running = DropAt(@, i), !.templates = Append(@, tpl.running[i])]
    OBVIOUS
  <1>8. t = [templates |-> more, running |-> rest, pending |-> tpl.pending, armed |-> tpl.armed]
    BY <1>1, <1>2, <1>4, <1>5, <1>6, <1>7 DEF TabKept, Keeps, IsTab
  <1>9. rest \in Seq(Instances) /\ Single(rest) /\ ScriptsOf(rest) = ScriptsOf(b) \ {x.script}
    BY <1>2, <1>4, <1>5, OneLess DEF TabKept, Keeps
  <1>10. x.script \in ScriptsOf(b) /\ x.script \notin ScriptsOf(a)
    <2>1. x.script \in ScriptsOf(b)
      BY <1>5 DEF ScriptsOf
    <2> QED BY <1>1, <1>2, <2>1 DEF TabKept, Keeps
  <1>11. more \in Seq(Instances) /\ Single(more) /\ ScriptsOf(more) = ScriptsOf(a) \cup {x.script}
    BY <1>1, <1>6, <1>10, OneMore DEF TabKept, Keeps
  <1>12. Keeps(t, wanted)
    BY <1>1, <1>2, <1>8, <1>9, <1>10, <1>11 DEF TabKept, Keeps, IsTab
  <1>13. wanted' = wanted
    BY DEF Complete
  <1> QED BY <1>3, <1>7, <1>12, <1>13, ReplayKeeps DEF TabKept

LEMMA DueKeeps ==
    ASSUME TabKept, RerunDue
    PROVE  TabKept'
  <1>1. PICK t : t = [tpl EXCEPT !.armed = FALSE]
    OBVIOUS
  <1>2. t = [templates |-> tpl.templates, running |-> tpl.running, pending |-> tpl.pending,
             armed |-> FALSE]
    BY <1>1 DEF TabKept, Keeps, IsTab
  <1>3. Keeps(t, wanted)
    BY <1>2 DEF TabKept, Keeps, IsTab
  <1>4. tpl' = rerun_templates(t, present) /\ wanted' = wanted
    BY <1>1 DEF RerunDue
  <1> QED BY <1>3, <1>4, RerunKeeps DEF TabKept

LEMMA EditSeenKeeps ==
    ASSUME TabKept, TemplatesSeeEdit
    PROVE  TabKept'
  <1>1. PICK t : t = BytesChanged(tpl)
    OBVIOUS
  <1>2. Keeps(t, wanted)
    BY <1>1, StaleKeeps DEF TabKept
  <1>3. PICK armed : tpl' = [t EXCEPT !.armed = armed]
    BY <1>1 DEF TemplatesSeeEdit
  <1>4. tpl' = [templates |-> t.templates, running |-> t.running, pending |-> t.pending,
                armed |-> armed]
    BY <1>2, <1>3 DEF Keeps, IsTab
  <1>5. wanted' = wanted
    BY DEF TemplatesSeeEdit
  <1> QED BY <1>2, <1>4, <1>5 DEF TabKept, Keeps, IsTab

LEMMA ReloadSeenKeeps ==
    ASSUME TabKept, TemplatesSeeReload
    PROVE  TabKept'
  <1>1. PICK t : t = BytesChanged(tpl)
    OBVIOUS
  <1>2. Keeps(t, wanted)
    BY <1>1, StaleKeeps DEF TabKept
  <1>3. PICK bytes : tpl' = rerun_templates(t, bytes)
    BY <1>1 DEF TemplatesSeeReload
  <1>4. wanted' = wanted
    BY DEF TemplatesSeeReload
  <1> QED BY <1>2, <1>3, <1>4, RerunKeeps DEF TabKept

LEMMA TabStepKeeps == TabKept /\ [PanelsNext]_panelsVars => TabKept'
  <1> SUFFICES ASSUME TabKept, [PanelsNext]_panelsVars PROVE TabKept'
    OBVIOUS
  <1>1. CASE UNCHANGED templateVars
    BY <1>1 DEF TabKept, templateVars
  <1>2. CASE TemplateStep
    BY <1>2, RunScriptKeeps, RemoveKeeps, DueKeeps, CompleteKeeps DEF TemplateStep
  <1>3. CASE EditTab
    BY <1>3, EditSeenKeeps DEF EditTab
  <1>4. CASE ReloadTab
    BY <1>4, ReloadSeenKeeps DEF ReloadTab
  <1>5. PanelsNext => UNCHANGED templateVars \/ TemplateStep \/ EditTab \/ ReloadTab
    BY DEF PanelsNext, SaveTab, AnalysisStep, CompareStep, SearchStep, FindStep, StringsStep,
           RowsStep
  <1> QED BY <1>1, <1>2, <1>3, <1>4, <1>5 DEF panelsVars

(* How often a script is in a list that has each of its scripts once. *)
LEMMA CountOne ==
    ASSUME NEW list \in Seq(Instances), Single(list), NEW script
    PROVE  Cardinality({i \in 1 .. Len(list) : list[i].script = script})
             = IF script \in ScriptsOf(list) THEN 1 ELSE 0
  <1> DEFINE places == {i \in 1 .. Len(list) : list[i].script = script}
  <1>1. CASE script \in ScriptsOf(list)
    <2>1. PICK i \in 1 .. Len(list) : list[i].script = script
      BY <1>1 DEF ScriptsOf
    <2>2. places = {i}
      BY <2>1 DEF Single
    <2> HIDE DEF places
    <2> QED BY <1>1, <2>2, FS_Singleton DEF places
  <1>2. CASE script \notin ScriptsOf(list)
    <2>1. places = {}
      BY <1>2 DEF ScriptsOf
    <2> QED BY <1>2, <2>1, FS_EmptySet
  <1> QED BY <1>1, <1>2

(* However runs, re-runs, removals, edits and reloads fall, a template the  *)
(* user ran and did not remove is in the tab exactly once (file.rs          *)
(* rerun_templates, RemoveInstance; templates.rs spawn_run).               *)
THEOREM InstancesAlwaysKept == PanelsSpec => []InstancesKept
  <1>1. PanelsInit => TabKept
    BY TabInitially DEF PanelsInit
  <1>2. TabKept => InstancesKept
    <2> SUFFICES ASSUME TabKept, NEW script \in Scripts
                 PROVE  Copies(script) = IF script \in wanted THEN 1 ELSE 0
      BY DEF InstancesKept
    <2>1. PICK a \in Seq(Instances) : a = tpl.templates
      BY DEF TabKept, Keeps, IsTab
    <2>2. PICK b \in Seq(Instances) : b = tpl.running
      BY DEF TabKept, Keeps, IsTab
    <2>3. Cardinality({i \in 1 .. Len(a) : a[i].script = script})
            = IF script \in ScriptsOf(a) THEN 1 ELSE 0
      BY <2>1, CountOne DEF TabKept, Keeps
    <2>4. Cardinality({i \in 1 .. Len(b) : b[i].script = script})
            = IF script \in ScriptsOf(b) THEN 1 ELSE 0
      BY <2>2, CountOne DEF TabKept, Keeps
    <2>5. /\ ScriptsOf(a) \cap ScriptsOf(b) = {}
          /\ ScriptsOf(a) \cup ScriptsOf(b) = wanted
      BY <2>1, <2>2 DEF TabKept, Keeps
    <2>6. Copies(script) = (IF script \in ScriptsOf(a) THEN 1 ELSE 0)
                           + (IF script \in ScriptsOf(b) THEN 1 ELSE 0)
      BY <2>1, <2>2, <2>3, <2>4 DEF Copies
    <2> QED BY <2>5, <2>6
  <1> QED BY <1>1, <1>2, TabStepKeeps, PTL DEF PanelsSpec

-----------------------------------------------------------------------------
(* The chunked byte search.  Between is where a pattern lies within lo and  *)
(* hi, byte by byte.                                                       *)

MatchAt(buf, pattern, o) == \A k \in 1 .. Len(pattern) : buf[o + k] = pattern[k]
Between(buf, pattern, lo, hi) == {o \in lo .. hi - Len(pattern) : MatchAt(buf, pattern, o)}

Texts == Seq(Nat)
Needles == {p \in Texts : Len(p) > 0}

(* The least and the greatest of a set of offsets. *)
LEMMA LowestExists ==
    ASSUME NEW S \in SUBSET Nat, S # {}
    PROVE  \E i \in S : Lowest(S) = {i} /\ \A j \in S : i <= j
  <1>1. IsWellFoundedOn(OpToRel(<, Nat), Nat)
    BY NatLessThanWellFounded
  <1>2. PICK m \in S : \A k \in S : ~ (<<k, m>> \in OpToRel(<, Nat))
    BY <1>1, WFMin, Zenon
  <1>3. \A k \in S : ~ (k < m)
    BY <1>2 DEF OpToRel
  <1>4. \A k \in S : m <= k
    BY <1>3
  <1>5. Lowest(S) = {m}
    <2>1. m \in Lowest(S)
      BY <1>4 DEF Lowest
    <2>2. ASSUME NEW k \in Lowest(S) PROVE k = m
      <3>1. k \in S /\ k <= m
        BY <2>2 DEF Lowest
      <3> QED BY <1>4, <3>1
    <2> QED BY <2>1, <2>2
  <1> QED BY <1>4, <1>5

LEMMA HighestExists ==
    ASSUME NEW n \in Nat, NEW S \in SUBSET (0 .. n), S # {}
    PROVE  \E i \in S : Highest(S) = {i} /\ \A j \in S : j <= i
  <1> DEFINE R == {n - i : i \in S}
  <1>1. R \in SUBSET Nat /\ R # {}
    <2>1. \A i \in S : n - i \in Nat
      OBVIOUS
    <2> QED BY <2>1
  <1>2. PICK r \in R : \A j \in R : r <= j
    BY <1>1, LowestExists
  <1>3. PICK i \in S : r = n - i
    BY <1>2
  <1>4. \A j \in S : j <= i
    <2> SUFFICES ASSUME NEW j \in S PROVE j <= i
      OBVIOUS
    <2>1. n - j \in R
      OBVIOUS
    <2> QED BY <1>2, <1>3, <2>1
  <1>5. Highest(S) = {i}
    <2>1. i \in Highest(S)
      BY <1>4 DEF Highest
    <2>2. ASSUME NEW k \in Highest(S) PROVE k = i
      <3>1. k \in S /\ k >= i
        BY <2>2 DEF Highest
      <3> QED BY <1>4, <3>1
    <2> QED BY <2>1, <2>2
  <1> QED BY <1>4, <1>5

LEMMA BetweenIs ==
    ASSUME NEW buf, NEW p \in Needles, NEW lo \in Nat, NEW hi \in Int
    PROVE  /\ Between(buf, p, lo, hi) \in SUBSET Nat
           /\ \A o \in Int : o \in Between(buf, p, lo, hi)
                              <=> lo <= o /\ o + Len(p) <= hi /\ MatchAt(buf, p, o)
           /\ Len(p) \in Nat /\ Len(p) > 0
  <1>1. PICK n \in Nat : n = Len(p) /\ n > 0
    BY DEF Needles, Texts
  <1> QED BY <1>1 DEF Between

LEMMA StartsAre ==
    ASSUME NEW buf \in Texts, NEW p \in Needles
    PROVE  Starts(buf, p) = Between(buf, p, 0, Len(buf))
  <1>1. PICK n \in Nat : n = Len(p) /\ p = [k \in 1 .. n |-> p[k]]
    BY DEF Needles, Texts
  <1>2. Len(buf) \in Nat
    BY DEF Texts
  <1>3. ASSUME NEW i \in 0 .. Len(buf) - n
        PROVE  Slice(buf, i, n) = p <=> MatchAt(buf, p, i)
    <2>1. Slice(buf, i, n) = [k \in 1 .. n |-> buf[i + k]]
      BY DEF Slice
    <2>2. ASSUME Slice(buf, i, n) = p PROVE MatchAt(buf, p, i)
      BY <1>1, <2>1, <2>2 DEF MatchAt
    <2>3. ASSUME MatchAt(buf, p, i) PROVE Slice(buf, i, n) = p
      BY <1>1, <2>1, <2>3 DEF MatchAt
    <2> QED BY <2>2, <2>3
  <1> QED BY <1>1, <1>2, <1>3 DEF Starts, Between

(* What a window of the source finds, in the source's offsets. *)
LEMMA WindowFinds ==
    ASSUME NEW source \in Texts, NEW p \in Needles, NEW pos \in Nat, NEW n \in Nat,
           pos + n <= Len(source), NEW w, w = Slice(source, pos, n)
    PROVE  /\ Starts(w, p) \in SUBSET Nat
           /\ \A i \in Int : i \in Starts(w, p) <=> pos + i \in Between(source, p, pos, pos + n)
  <1>1. w \in Texts /\ Len(w) = n /\ \A i \in 1 .. n : w[i] = source[pos + i]
    BY DEF Slice, Texts
  <1>2. Starts(w, p) = Between(w, p, 0, n)
    BY <1>1, StartsAre
  <1>3. PICK m \in Nat : m = Len(p)
    BY DEF Needles, Texts
  <1>4. ASSUME NEW i \in 0 .. n - m PROVE MatchAt(w, p, i) <=> MatchAt(source, p, pos + i)
    <2>1. \A k \in 1 .. m : w[i + k] = source[(pos + i) + k]
      BY <1>1
    <2> QED BY <1>3, <2>1 DEF MatchAt
  <1>5. ASSUME NEW i \in Int
        PROVE  i \in Between(w, p, 0, n) <=> pos + i \in Between(source, p, pos, pos + n)
    BY <1>3, <1>4 DEF Between
  <1>6. Between(w, p, 0, n) \in SUBSET Nat
    BY <1>3 DEF Between
  <1> QED BY <1>2, <1>5, <1>6

Shifted(pos, S) == {pos + i : i \in S}

LEMMA ShiftLowest ==
    ASSUME NEW A \in SUBSET Nat, NEW B \in SUBSET Nat, NEW pos \in Nat,
           \A i \in Int : i \in A <=> pos + i \in B
    PROVE  Shifted(pos, Lowest(A)) = Lowest(B)
  <1>1. ASSUME NEW i \in Lowest(A) PROVE pos + i \in Lowest(B)
    <2>1. i \in A /\ \A j \in A : i <= j
      BY <1>1 DEF Lowest
    <2>2. ASSUME NEW o \in B PROVE pos + i <= o
      <3>1. o - pos \in Int /\ pos + (o - pos) = o
        OBVIOUS
      <3>2. o - pos \in A
        BY <3>1
      <3> QED BY <2>1, <3>2
    <2> QED BY <2>1, <2>2 DEF Lowest
  <1>2. ASSUME NEW o \in Lowest(B) PROVE \E i \in Lowest(A) : o = pos + i
    <2>1. o \in B /\ \A j \in B : o <= j
      BY <1>2 DEF Lowest
    <2>2. o - pos \in Int /\ pos + (o - pos) = o
      BY <2>1
    <2>3. o - pos \in A
      BY <2>1, <2>2
    <2>4. \A j \in A : o - pos <= j
      BY <2>1
    <2> QED BY <2>2, <2>3, <2>4 DEF Lowest
  <1> QED BY <1>1, <1>2 DEF Shifted

LEMMA ShiftHighest ==
    ASSUME NEW A \in SUBSET Nat, NEW B \in SUBSET Nat, NEW pos \in Nat,
           \A i \in Int : i \in A <=> pos + i \in B
    PROVE  Shifted(pos, Highest(A)) = Highest(B)
  <1>1. ASSUME NEW i \in Highest(A) PROVE pos + i \in Highest(B)
    <2>1. i \in A /\ \A j \in A : i >= j
      BY <1>1 DEF Highest
    <2>2. ASSUME NEW o \in B PROVE pos + i >= o
      <3>1. o - pos \in Int /\ pos + (o - pos) = o
        OBVIOUS
      <3>2. o - pos \in A
        BY <3>1
      <3> QED BY <2>1, <3>2
    <2> QED BY <2>1, <2>2 DEF Highest
  <1>2. ASSUME NEW o \in Highest(B) PROVE \E i \in Highest(A) : o = pos + i
    <2>1. o \in B /\ \A j \in B : o >= j
      BY <1>2 DEF Highest
    <2>2. o - pos \in Int /\ pos + (o - pos) = o
      BY <2>1
    <2>3. o - pos \in A
      BY <2>1, <2>2
    <2>4. \A j \in A : o - pos >= j
      BY <2>1
    <2> QED BY <2>2, <2>3, <2>4 DEF Highest
  <1> QED BY <1>1, <1>2 DEF Shifted

(* One turn of scan_forward: up to where it goes, how far it reads, and     *)
(* what it finds.                                                          *)
ForwardTo(pos, end) == Lesser(pos + CHUNK, end)
ForwardRead(source, p, pos, end) ==
    Lesser(Lesser(ForwardTo(pos, end) + Len(p) - 1, end), Len(source))
ForwardHit(source, p, pos, end) ==
    find_in_slice(Slice(source, pos, ForwardRead(source, p, pos, end) - pos), p)
ForwardTurn(source, p, pos, end, rest) ==
    IF ForwardHit(source, p, pos, end) # {}
    THEN {pos + i : i \in ForwardHit(source, p, pos, end)}
    ELSE IF ForwardTo(pos, end) >= end THEN {} ELSE rest

LEMMA ForwardTurnIs ==
    ASSUME NEW source \in Texts, NEW p \in Needles, NEW end \in Nat, end <= Len(source),
           NEW pos \in 0 .. end, NEW rest,
           ForwardTo(pos, end) < end
             => rest = Lowest(Between(source, p, ForwardTo(pos, end), end))
    PROVE  ForwardTurn(source, p, pos, end, rest) = Lowest(Between(source, p, pos, end))
  <1>1. PICK m \in Nat : m = Len(p) /\ m > 0
    BY DEF Needles, Texts
  <1>2. PICK to : to = ForwardTo(pos, end)
    OBVIOUS
  <1>3. to \in 0 .. end /\ (to < end => to > pos) /\ pos <= to
    BY <1>2, ChunkAssumption DEF ForwardTo, Lesser
  <1>4. PICK read : read = ForwardRead(source, p, pos, end)
    OBVIOUS
  <1>5. Len(source) \in Nat
    BY DEF Texts
  <1>6. read = IF to + m - 1 <= end THEN to + m - 1 ELSE end
    BY <1>1, <1>2, <1>3, <1>4, <1>5 DEF ForwardRead, Lesser
  <1>7. read - pos \in Nat /\ pos + (read - pos) = read /\ read <= Len(source) /\ read \in Nat
    BY <1>1, <1>3, <1>5, <1>6
  <1>8. PICK w : w = Slice(source, pos, read - pos)
    OBVIOUS
  <1>9. /\ Starts(w, p) \in SUBSET Nat
        /\ \A i \in Int : i \in Starts(w, p) <=> pos + i \in Between(source, p, pos, read)
    <2>1. pos \in Nat
      OBVIOUS
    <2>2. PICK n \in Nat : n = read - pos
      BY <1>7
    <2>3. pos + n = read
      BY <1>7, <2>2
    <2>4. /\ Starts(w, p) \in SUBSET Nat
          /\ \A i \in Int : i \in Starts(w, p) <=> pos + i \in Between(source, p, pos, pos + n)
      <3>1. pos + n <= Len(source) /\ w = Slice(source, pos, n)
        BY <1>7, <1>8, <2>2, <2>3
      <3> QED BY <2>1, <3>1, WindowFinds
    <2> QED BY <2>3, <2>4
  <1>10. PICK near : near = Between(source, p, pos, read)
    OBVIOUS
  <1>11. PICK all : all = Between(source, p, pos, end)
    OBVIOUS
  <1>12. PICK far : far = Between(source, p, to, end)
    OBVIOUS
  <1>13. near \in SUBSET Nat /\ all \in SUBSET Nat /\ far \in SUBSET Nat
    <2>1. pos \in Nat /\ to \in Nat /\ read \in Int /\ end \in Int
      BY <1>3, <1>7
    <2> QED BY <1>10, <1>11, <1>12, <2>1, BetweenIs
  <1>14. \A o \in Int : /\ o \in near <=> pos <= o /\ o + m <= read /\ MatchAt(source, p, o)
                        /\ o \in all <=> pos <= o /\ o + m <= end /\ MatchAt(source, p, o)
                        /\ o \in far <=> to <= o /\ o + m <= end /\ MatchAt(source, p, o)
    <2>1. pos \in Nat /\ to \in Nat /\ read \in Int /\ end \in Int
      BY <1>3, <1>7
    <2> QED BY <1>1, <1>10, <1>11, <1>12, <2>1 DEF Between
  <1>15. \A o \in Int : o \in near <=> o \in all /\ (to < end => o < to)
    BY <1>1, <1>3, <1>6, <1>14
  <1>16. \A o \in Int : to < end => (o \in far <=> o \in all /\ o >= to)
    BY <1>3, <1>14
  <1>17. PICK hit : hit = ForwardHit(source, p, pos, end)
    OBVIOUS
  <1>18. hit = Lowest(Starts(w, p))
    BY <1>4, <1>8, <1>17 DEF ForwardHit, find_in_slice
  <1>19. Shifted(pos, hit) = Lowest(near)
    <2>1. PICK A \in SUBSET Nat : A = Starts(w, p)
      BY <1>9
    <2>2. pos \in Nat /\ \A i \in Int : i \in A <=> pos + i \in near
      BY <1>9, <1>10, <2>1
    <2>3. Shifted(pos, Lowest(A)) = Lowest(near)
      BY <1>13, <2>2, ShiftLowest
    <2> QED BY <1>18, <2>1, <2>3
  <1>20. ForwardTurn(source, p, pos, end, rest)
           = IF hit # {} THEN Lowest(near) ELSE IF to >= end THEN {} ELSE rest
    BY <1>2, <1>17, <1>19 DEF ForwardTurn, Shifted
  <1>21. CASE hit # {}
    <2>1. near # {}
      <3>1. PICK i \in hit : pos + i \in Lowest(near)
        BY <1>19, <1>21 DEF Shifted
      <3> QED BY <3>1 DEF Lowest
    <2>2. PICK i \in near : Lowest(near) = {i} /\ \A j \in near : i <= j
      BY <1>13, <2>1, LowestExists
    <2>3. i \in all /\ \A j \in all : i <= j
      BY <1>3, <1>13, <1>15, <2>2
    <2>4. PICK k \in all : Lowest(all) = {k} /\ \A j \in all : k <= j
      BY <1>13, <2>3, LowestExists
    <2>5. i = k
      BY <1>13, <2>3, <2>4
    <2> QED BY <1>11, <1>20, <1>21, <2>2, <2>4, <2>5
  <1>22. CASE hit = {}
    <2>1. near = {}
      <3> SUFFICES ASSUME near # {} PROVE FALSE
        OBVIOUS
      <3>1. PICK i \in near : Lowest(near) = {i}
        BY <1>13, LowestExists
      <3> QED BY <1>19, <1>22, <3>1 DEF Shifted
    <2>2. CASE to >= end
      <3>1. all = {}
        BY <1>3, <1>13, <1>15, <2>1, <2>2
      <3> QED BY <1>11, <1>20, <1>22, <2>2, <3>1 DEF Lowest
    <2>3. CASE to < end
      <3>1. all = far
        <4>1. \A o \in Nat : o \in all <=> o \in far
          BY <1>3, <1>15, <1>16, <2>1, <2>3
        <4> QED BY <1>13, <4>1
      <3>2. rest = Lowest(far)
        BY <1>2, <1>12, <2>3
      <3> QED BY <1>3, <1>11, <1>20, <1>22, <2>3, <3>1, <3>2
    <2> QED BY <1>3, <2>2, <2>3
  <1> QED BY <1>21, <1>22

(* The forward scan finds the first match there is. *)
LEMMA ScanForwardIs ==
    ASSUME NEW source \in Texts, NEW p \in Needles, NEW start \in Nat, NEW end \in Nat,
           end <= Len(source)
    PROVE  scan_forward(source, p, start, end) = Lowest(Between(source, p, start, end))
  <1>1. PICK m \in Nat : m = Len(p) /\ m > 0
    BY DEF Needles, Texts
  <1>2. CASE start + m > end
    <2>1. scan_forward(source, p, start, end) = {}
      BY <1>1, <1>2 DEF scan_forward
    <2>2. Between(source, p, start, end) = {}
      BY <1>1, <1>2 DEF Between
    <2> QED BY <2>1, <2>2 DEF Lowest
  <1>3. CASE start + m <= end
    <2> DEFINE Body(f, pos) == ForwardTurn(source, p, pos, end, f[ForwardTo(pos, end)])
               Eqn(f) == f = [pos \in start .. end |-> Body(f, pos)]
               Goal(pos) == Lowest(Between(source, p, pos, end))
               g == [pos \in start .. end |-> Goal(pos)]
    <2>0. ~ (start + Len(p) > end)
      BY <1>1, <1>3
    <2>1. scan_forward(source, p, start, end) = (CHOOSE f : Eqn(f))[start]
      BY <2>0, Zenon
      DEF scan_forward, ForwardTurn, ForwardTo, ForwardRead, ForwardHit
    <2>2. \A pos \in start .. end : /\ pos \in 0 .. end /\ ForwardTo(pos, end) \in start .. end
                                    /\ ForwardTo(pos, end) < end => ForwardTo(pos, end) > pos
      BY ChunkAssumption DEF ForwardTo, Lesser
    <2>3. ASSUME NEW pos \in start .. end PROVE g[pos] = Body(g, pos)
      <3>1. g[ForwardTo(pos, end)] = Lowest(Between(source, p, ForwardTo(pos, end), end))
        BY <2>2
      <3>2. g[pos] = Lowest(Between(source, p, pos, end))
        OBVIOUS
      <3> HIDE DEF g
      <3> QED BY <2>2, <3>1, <3>2, ForwardTurnIs
    <2>4. g = [pos \in start .. end |-> g[pos]]
      OBVIOUS
    <2> HIDE DEF g
    <2>5. Eqn(g)
      BY <2>3, <2>4
    <2>6. PICK f : f = (CHOOSE h : Eqn(h)) /\ Eqn(f)
      <3> HIDE DEF Eqn
      <3> QED BY <2>5
    <2>7. \A pos \in start .. end : f[pos] = Body(f, pos)
      BY <2>6, Zenon
    <2> HIDE DEF Body, Eqn
    <2> DEFINE Bad == {pos \in start .. end : f[pos] # Goal(pos)}
    <2>8. Bad = {}
      <3> SUFFICES ASSUME Bad # {} PROVE FALSE
        OBVIOUS
      <3>1. Bad \in SUBSET (0 .. end)
        OBVIOUS
      <3>2. PICK pos \in Bad : \A j \in Bad : j <= pos
        BY <3>1, HighestExists
      <3>3. pos \in start .. end /\ f[pos] # Goal(pos)
        BY <3>2
      <3>4. PICK to : to = ForwardTo(pos, end)
        OBVIOUS
      <3>5. to < end => f[to] = Goal(to)
        BY <2>2, <3>2, <3>3, <3>4
      <3> HIDE DEF Bad
      <3>6. f[pos] = ForwardTurn(source, p, pos, end, f[to])
        BY <2>7, <3>3, <3>4 DEF Body
      <3>7. f[pos] = Goal(pos)
        BY <2>2, <3>3, <3>4, <3>5, <3>6, ForwardTurnIs
      <3> QED BY <3>3, <3>7
    <2>9. f[start] = Goal(start)
      <3>1. start \in start .. end
        BY <1>1, <1>3
      <3> QED BY <2>8, <3>1
    <2> QED BY <2>1, <2>6, <2>9
  <1> QED BY <1>1, <1>2, <1>3

(* The same for a turn of scan_backward. *)
BackTo(pos, start) == Greater(pos - CHUNK, start)
BackRead(source, p, pos, end) == Lesser(Lesser(pos + Len(p) - 1, end), Len(source))
BackHit(source, p, pos, start, end) ==
    find_last_in_slice(Slice(source, BackTo(pos, start),
                             BackRead(source, p, pos, end) - BackTo(pos, start)), p)
BackTurn(source, p, pos, start, end, rest) ==
    IF BackHit(source, p, pos, start, end) # {}
    THEN {BackTo(pos, start) + i : i \in BackHit(source, p, pos, start, end)}
    ELSE IF BackTo(pos, start) = start THEN {} ELSE rest

Before(source, p, start, end, pos) == {o \in Between(source, p, start, end) : o < pos}

LEMMA BackTurnIs ==
    ASSUME NEW source \in Texts, NEW p \in Needles, NEW start \in Nat, NEW end \in Nat,
           end <= Len(source), NEW pos \in start .. end, NEW rest,
           BackTo(pos, start) > start
             => rest = Highest(Before(source, p, start, end, BackTo(pos, start)))
    PROVE  BackTurn(source, p, pos, start, end, rest)
             = Highest(Before(source, p, start, end, pos))
  <1>1. PICK m \in Nat : m = Len(p) /\ m > 0
    BY DEF Needles, Texts
  <1>2. PICK to : to = BackTo(pos, start)
    OBVIOUS
  <1>3. to \in Nat /\ start <= to /\ to <= pos
    BY <1>2, ChunkAssumption DEF BackTo, Greater
  <1>4. PICK read : read = BackRead(source, p, pos, end)
    OBVIOUS
  <1>5. Len(source) \in Nat
    BY DEF Texts
  <1>6. read = IF pos + m - 1 <= end THEN pos + m - 1 ELSE end
    BY <1>1, <1>4, <1>5 DEF BackRead, Lesser
  <1>7. read \in Nat /\ to <= read /\ read <= Len(source)
    BY <1>1, <1>3, <1>5, <1>6
  <1>8. PICK n \in Nat : n = read - to /\ to + n = read
    BY <1>3, <1>7
  <1>9. PICK w : w = Slice(source, to, n)
    OBVIOUS
  <1>10. PICK near : near = Between(source, p, to, read)
    OBVIOUS
  <1>11. /\ Starts(w, p) \in SUBSET Nat
         /\ \A i \in Int : i \in Starts(w, p) <=> to + i \in near
    <2>1. to + n <= Len(source)
      BY <1>7, <1>8
    <2>2. /\ Starts(w, p) \in SUBSET Nat
          /\ \A i \in Int : i \in Starts(w, p) <=> to + i \in Between(source, p, to, to + n)
      BY <1>3, <1>9, <2>1, WindowFinds
    <2> QED BY <1>8, <1>10, <2>2
  <1>12. PICK all : all = Before(source, p, start, end, pos)
    OBVIOUS
  <1>13. PICK far : far = Before(source, p, start, end, to)
    OBVIOUS
  <1>14. near \in SUBSET (0 .. read) /\ all \in SUBSET (0 .. end) /\ far \in SUBSET (0 .. end)
    <2>1. near \in SUBSET (0 .. read)
      BY <1>1, <1>3, <1>7, <1>10 DEF Between
    <2>2. Between(source, p, start, end) \in SUBSET (0 .. end)
      BY <1>1 DEF Between
    <2> QED BY <1>12, <1>13, <2>1, <2>2 DEF Before
  <1>15. \A o \in Int : o \in near <=> to <= o /\ o + m <= read /\ MatchAt(source, p, o)
    BY <1>1, <1>3, <1>7, <1>10 DEF Between
  <1>16. \A o \in Int : o \in all <=> start <= o /\ o + m <= end /\ MatchAt(source, p, o) /\ o < pos
    BY <1>1, <1>12 DEF Between, Before
  <1>17. \A o \in Int : o \in far <=> start <= o /\ o + m <= end /\ MatchAt(source, p, o) /\ o < to
    BY <1>1, <1>3, <1>13 DEF Between, Before
  <1>18. \A o \in Int : o \in near <=> o \in all /\ to <= o
    BY <1>1, <1>3, <1>6, <1>15, <1>16
  <1>19. \A o \in Int : o \in far <=> o \in all /\ o < to
    BY <1>3, <1>16, <1>17
  <1>20. PICK hit : hit = BackHit(source, p, pos, start, end)
    OBVIOUS
  <1>21. hit = Highest(Starts(w, p))
    BY <1>2, <1>4, <1>8, <1>9, <1>20 DEF BackHit, find_last_in_slice
  <1>22. Shifted(to, hit) = Highest(near)
    <2>1. PICK A \in SUBSET Nat : A = Starts(w, p)
      BY <1>11
    <2>2. \A i \in Int : i \in A <=> to + i \in near
      BY <1>11, <2>1
    <2>3. near \in SUBSET Nat
      BY <1>14
    <2>4. Shifted(to, Highest(A)) = Highest(near)
      BY <1>3, <2>2, <2>3, ShiftHighest
    <2> QED BY <1>21, <2>1, <2>4
  <1>23. BackTurn(source, p, pos, start, end, rest)
           = IF hit # {} THEN Highest(near) ELSE IF to = start THEN {} ELSE rest
    BY <1>2, <1>20, <1>22 DEF BackTurn, Shifted
  <1>24. CASE hit # {}
    <2>1. near # {}
      <3>1. PICK i \in hit : to + i \in Highest(near)
        BY <1>22, <1>24 DEF Shifted
      <3> QED BY <3>1 DEF Highest
    <2>2. PICK i \in near : Highest(near) = {i} /\ \A j \in near : j <= i
      BY <1>7, <1>14, <2>1, HighestExists
    <2>3. i \in all /\ i \in Nat /\ to <= i
      BY <1>14, <1>18, <2>2
    <2>4. \A j \in all : j <= i
      <3> SUFFICES ASSUME NEW j \in all PROVE j <= i
        OBVIOUS
      <3>1. j \in Nat
        BY <1>14
      <3>2. CASE to <= j
        BY <1>18, <2>2, <3>1, <3>2
      <3>3. CASE j < to
        BY <1>3, <2>3, <3>1, <3>3
      <3> QED BY <1>3, <3>1, <3>2, <3>3
    <2>5. PICK k \in all : Highest(all) = {k} /\ \A j \in all : j <= k
      BY <1>14, <2>3, HighestExists
    <2>6. i = k
      <3>1. i <= k /\ k <= i /\ k \in Nat
        BY <1>14, <2>3, <2>4, <2>5
      <3> QED BY <2>3, <3>1
    <2> QED BY <1>12, <1>23, <1>24, <2>2, <2>5, <2>6
  <1>25. CASE hit = {}
    <2>1. near = {}
      <3> SUFFICES ASSUME near # {} PROVE FALSE
        OBVIOUS
      <3>1. PICK i \in near : Highest(near) = {i}
        BY <1>7, <1>14, HighestExists
      <3> QED BY <1>22, <1>25, <3>1 DEF Shifted
    <2>2. \A o \in Nat : o \in all <=> o \in far
      BY <1>3, <1>18, <1>19, <2>1
    <2>3. all = far
      <3>1. all \subseteq Nat /\ far \subseteq Nat
        BY <1>14
      <3> QED BY <2>2, <3>1
    <2>4. CASE to = start
      <3>1. \A o \in Nat : o \notin far
        BY <1>3, <1>17, <2>4
      <3>2. all = {}
        BY <1>14, <2>3, <3>1
      <3> QED BY <1>12, <1>23, <1>25, <2>4, <3>2 DEF Highest
    <2>5. CASE to > start
      <3>1. rest = Highest(far)
        BY <1>2, <1>13, <2>5
      <3>2. ~ (to = start)
        BY <1>3, <2>5
      <3> QED BY <1>12, <1>23, <1>25, <2>3, <3>1, <3>2
    <2> QED BY <1>3, <2>4, <2>5
  <1> QED BY <1>24, <1>25

(* The backward scan finds the last match there is. *)
LEMMA ScanBackwardIs ==
    ASSUME NEW source \in Texts, NEW p \in Needles, NEW start \in Nat, NEW end \in Nat,
           end <= Len(source)
    PROVE  scan_backward(source, p, start, end) = Highest(Between(source, p, start, end))
  <1>1. PICK m \in Nat : m = Len(p) /\ m > 0
    BY DEF Needles, Texts
  <1>2. CASE start + m > end
    <2>1. scan_backward(source, p, start, end) = {}
      BY <1>1, <1>2 DEF scan_backward
    <2>2. Between(source, p, start, end) = {}
      BY <1>1, <1>2 DEF Between
    <2> QED BY <2>1, <2>2 DEF Highest
  <1>3. CASE start + m <= end
    <2> DEFINE Body(f, pos) == BackTurn(source, p, pos, start, end, f[BackTo(pos, start)])
               Eqn(f) == f = [pos \in start .. end |-> Body(f, pos)]
               Goal(pos) == Highest(Before(source, p, start, end, pos))
               g == [pos \in start .. end |-> Goal(pos)]
    <2>0. ~ (start + Len(p) > end)
      BY <1>1, <1>3
    <2>1. scan_backward(source, p, start, end) = (CHOOSE f : Eqn(f))[end]
      BY <2>0, Zenon
      DEF scan_backward, BackTurn, BackTo, BackRead, BackHit
    <2>2. \A pos \in start .. end : /\ BackTo(pos, start) \in start .. end
                                    /\ BackTo(pos, start) > start => BackTo(pos, start) < pos
      BY ChunkAssumption DEF BackTo, Greater
    <2>3. ASSUME NEW pos \in start .. end PROVE g[pos] = Body(g, pos)
      <3>1. g[BackTo(pos, start)] = Highest(Before(source, p, start, end, BackTo(pos, start)))
        BY <2>2
      <3>2. g[pos] = Highest(Before(source, p, start, end, pos))
        OBVIOUS
      <3> HIDE DEF g
      <3> QED BY <2>2, <3>1, <3>2, BackTurnIs
    <2>4. g = [pos \in start .. end |-> g[pos]]
      OBVIOUS
    <2> HIDE DEF g
    <2>5. Eqn(g)
      BY <2>3, <2>4
    <2>6. PICK f : f = (CHOOSE h : Eqn(h)) /\ Eqn(f)
      <3> HIDE DEF Eqn
      <3> QED BY <2>5
    <2>7. \A pos \in start .. end : f[pos] = Body(f, pos)
      BY <2>6, Zenon
    <2> HIDE DEF Body, Eqn
    <2> DEFINE Bad == {pos \in start .. end : f[pos] # Goal(pos)}
    <2>8. Bad = {}
      <3> SUFFICES ASSUME Bad # {} PROVE FALSE
        OBVIOUS
      <3>1. Bad \in SUBSET Nat
        OBVIOUS
      <3>2. PICK pos \in Bad : \A j \in Bad : pos <= j
        BY <3>1, LowestExists
      <3>3. pos \in start .. end /\ f[pos] # Goal(pos)
        BY <3>2
      <3>4. PICK to : to = BackTo(pos, start)
        OBVIOUS
      <3>5. to > start => f[to] = Goal(to)
        <4>1. to > start => to \in start .. end /\ to < pos /\ to \in Nat /\ pos \in Nat
          BY <2>2, <3>3, <3>4
        <4>2. to > start => to \notin Bad
          <5> HIDE DEF Bad
          <5> QED BY <3>2, <4>1
        <4> QED BY <4>1, <4>2
      <3> HIDE DEF Bad
      <3>6. f[pos] = BackTurn(source, p, pos, start, end, f[to])
        BY <2>7, <3>3, <3>4 DEF Body
      <3>7. f[pos] = Goal(pos)
        BY <3>3, <3>4, <3>5, <3>6, BackTurnIs
      <3> QED BY <3>3, <3>7
    <2>9. f[end] = Goal(end)
      <3>1. end \in start .. end
        BY <1>1, <1>3
      <3> QED BY <2>8, <3>1
    <2>10. Before(source, p, start, end, end) = Between(source, p, start, end)
      BY <1>1 DEF Before, Between
    <2> QED BY <2>1, <2>6, <2>9, <2>10
  <1> QED BY <1>1, <1>2, <1>3

(* Bounds as clip_bounds leaves them. *)
Clipped(source, bounds, lo, hi) ==
    lo <= hi /\ hi <= Len(source) /\ bounds = [lo |-> lo, hi |-> hi]

LEMMA ClipOnce ==
    ASSUME NEW source \in Texts, NEW lo \in Nat, NEW hi \in Nat, NEW bounds,
           Clipped(source, bounds, lo, hi)
    PROVE  clip_bounds(bounds, Len(source)) = bounds
  <1>1. Len(source) \in Nat
    BY DEF Texts
  <1> QED BY <1>1 DEF clip_bounds, Lesser, Clipped

LEMMA InsideIs ==
    ASSUME NEW source \in Texts, NEW p \in Needles, NEW lo \in Nat, NEW hi \in Nat, NEW bounds,
           Clipped(source, bounds, lo, hi)
    PROVE  Inside(source, p, bounds) = Between(source, p, lo, hi)
  <1>1. PICK m \in Nat : m = Len(p)
    BY DEF Needles, Texts
  <1>2. Len(source) \in Nat
    BY DEF Texts
  <1>3. Starts(source, p) = Between(source, p, 0, Len(source))
    BY StartsAre
  <1> QED BY <1>1, <1>2, <1>3 DEF Inside, Between, Clipped

(* find_next finds the first match from `from` on, or the first of all. *)
LEMMA NextFinds ==
    ASSUME NEW source \in Texts, NEW p \in Needles, NEW lo \in Nat, NEW hi \in Nat, NEW bounds,
           Clipped(source, bounds, lo, hi), NEW from \in Nat
    PROVE  NextIsNearest(source, p, from, bounds)
  <1>1. PICK m \in Nat : m = Len(p) /\ m > 0
    BY DEF Needles, Texts
  <1>2. lo <= hi /\ hi <= Len(source) /\ bounds.lo = lo /\ bounds.hi = hi
    BY DEF Clipped
  <1>3. PICK f : f = Clamp(from, lo, hi)
    OBVIOUS
  <1>4. f \in lo .. hi /\ f = IF from < lo THEN lo ELSE IF from > hi THEN hi ELSE from
    BY <1>2, <1>3 DEF Clamp, Greater, Lesser
  <1>5. PICK all : all = Between(source, p, lo, hi)
    OBVIOUS
  <1>6. PICK ahead : ahead = {o \in all : o >= from}
    OBVIOUS
  <1>7. PICK stop : stop = Lesser(f + Len(p) - 1, hi)
    OBVIOUS
  <1>8. stop \in Nat /\ stop <= hi /\ stop = IF f + m - 1 <= hi THEN f + m - 1 ELSE hi
    BY <1>1, <1>2, <1>4, <1>7 DEF Lesser
  <1>9. all \subseteq Nat /\ \A o \in Nat : o \in all <=> lo <= o /\ o + m <= hi /\ MatchAt(source, p, o)
    BY <1>1, <1>5 DEF Between
  <1>10. Between(source, p, f, hi) = ahead
    <2>1. PICK B : B = Between(source, p, f, hi)
      OBVIOUS
    <2>2. B \subseteq Nat /\ \A o \in Nat : o \in B <=> f <= o /\ o + m <= hi /\ MatchAt(source, p, o)
      BY <1>1, <1>4, <2>1 DEF Between
    <2>3. \A o \in Nat : o \in B <=> o \in ahead
      BY <1>1, <1>2, <1>4, <1>6, <1>9, <2>2
    <2>4. ahead \subseteq Nat
      BY <1>6, <1>9
    <2> QED BY <2>1, <2>2, <2>3, <2>4
  <1>11. scan_forward(source, p, f, hi) = Lowest(ahead)
    <2>1. f \in Nat
      BY <1>4
    <2> QED BY <1>2, <1>10, <2>1, ScanForwardIs
  <1>12. scan_forward(source, p, lo, stop) = Lowest(Between(source, p, lo, stop))
    <2>1. stop <= Len(source)
      <3>1. Len(source) \in Nat
        BY DEF Texts
      <3> QED BY <1>2, <1>8, <3>1
    <2> QED BY <1>8, <2>1, ScanForwardIs
  <1>13. ASSUME ahead = {} PROVE Between(source, p, lo, stop) = all
    <2>1. PICK B : B = Between(source, p, lo, stop)
      OBVIOUS
    <2>2. B \subseteq Nat /\ \A o \in Nat : o \in B <=> lo <= o /\ o + m <= stop /\ MatchAt(source, p, o)
      BY <1>1, <1>8, <2>1 DEF Between
    <2>3. \A o \in all : o < from
      BY <1>6, <1>9, <1>13
    <2>4. \A o \in Nat : o \in B <=> o \in all
      BY <1>1, <1>2, <1>4, <1>8, <1>9, <2>2, <2>3
    <2> QED BY <1>9, <2>1, <2>2, <2>4
  <1>14. clip_bounds(bounds, Len(source)) = bounds
    BY ClipOnce
  <1>15. PICK around : around = IF f > lo THEN scan_forward(source, p, lo, stop) ELSE {}
    OBVIOUS
  <1>16. find_next(source, p, from, TRUE, bounds)
           = IF hi - lo < m THEN {}
             ELSE IF Lowest(ahead) # {} THEN MatchHit(Lowest(ahead), FALSE) ELSE MatchHit(around, TRUE)
    BY <1>1, <1>2, <1>3, <1>7, <1>11, <1>14, <1>15 DEF find_next
  <1>17. Lowest({}) = {} /\ \A b : MatchHit({}, b) = {}
    BY DEF Lowest, MatchHit
  <1>18. ahead \in SUBSET Nat
    BY <1>6, <1>9
  <1>19. ahead # {} => Lowest(ahead) # {}
    BY <1>18, LowestExists
  <1>20. find_next(source, p, from, TRUE, bounds)
           = IF ahead # {} THEN MatchHit(Lowest(ahead), FALSE) ELSE MatchHit(Lowest(all), TRUE)
    <2>1. CASE hi - lo < m
      <3>1. \A o \in Nat : o \notin all
        BY <1>1, <1>9, <2>1
      <3>2. all = {} /\ ahead = {}
        BY <1>6, <1>9, <3>1
      <3> QED BY <1>16, <1>17, <2>1, <3>2
    <2>2. CASE ~ (hi - lo < m) /\ ahead # {}
      BY <1>16, <1>19, <2>2
    <2>3. CASE ~ (hi - lo < m) /\ ahead = {} /\ f > lo
      BY <1>12, <1>13, <1>15, <1>16, <1>17, <2>3
    <2>4. CASE ~ (hi - lo < m) /\ ahead = {} /\ ~ (f > lo)
      <3>1. f = lo
        BY <1>4, <2>4
      <3>2. all = {}
        BY <1>5, <1>10, <2>4, <3>1
      <3> QED BY <1>15, <1>16, <1>17, <2>4, <3>2
    <2> QED BY <2>1, <2>2, <2>3, <2>4
  <1>21. Inside(source, p, bounds) = all
    BY <1>5, InsideIs
  <1> QED BY <1>6, <1>20, <1>21 DEF NextIsNearest

(* find_prev finds the last match that ends by `from`, or the last of all. *)
LEMMA PrevFinds ==
    ASSUME NEW source \in Texts, NEW p \in Needles, NEW lo \in Nat, NEW hi \in Nat, NEW bounds,
           Clipped(source, bounds, lo, hi), NEW from \in Nat
    PROVE  PrevIsNearest(source, p, from, bounds)
  <1>1. PICK m \in Nat : m = Len(p) /\ m > 0
    BY DEF Needles, Texts
  <1>2. lo <= hi /\ hi <= Len(source) /\ bounds.lo = lo /\ bounds.hi = hi
    BY DEF Clipped
  <1>3. PICK f : f = Clamp(from, lo, hi)
    OBVIOUS
  <1>4. f \in lo .. hi /\ f = IF from < lo THEN lo ELSE IF from > hi THEN hi ELSE from
    BY <1>2, <1>3 DEF Clamp, Greater, Lesser
  <1>5. PICK all : all = Between(source, p, lo, hi)
    OBVIOUS
  <1>6. PICK behind : behind = {o \in all : o + Len(p) <= from}
    OBVIOUS
  <1>7. PICK first : first = Greater(f - (Len(p) - 1), lo)
    OBVIOUS
  <1>8. first \in Nat /\ lo <= first /\ first = IF f - (m - 1) >= lo THEN f - (m - 1) ELSE lo
    BY <1>1, <1>2, <1>4, <1>7 DEF Greater
  <1>9. all \subseteq Nat /\ \A o \in Nat : o \in all <=> lo <= o /\ o + m <= hi /\ MatchAt(source, p, o)
    BY <1>1, <1>5 DEF Between
  <1>10. Between(source, p, lo, f) = behind
    <2>1. PICK B : B = Between(source, p, lo, f)
      OBVIOUS
    <2>2. B \subseteq Nat /\ \A o \in Nat : o \in B <=> lo <= o /\ o + m <= f /\ MatchAt(source, p, o)
      BY <1>1, <1>4, <2>1 DEF Between
    <2>3. \A o \in Nat : o \in B <=> o \in behind
      BY <1>1, <1>2, <1>4, <1>6, <1>9, <2>2
    <2>4. behind \subseteq Nat
      BY <1>6, <1>9
    <2> QED BY <2>1, <2>2, <2>3, <2>4
  <1>11. scan_backward(source, p, lo, f) = Highest(behind)
    <2>1. f \in Nat /\ f <= Len(source)
      <3>1. Len(source) \in Nat
        BY DEF Texts
      <3> QED BY <1>2, <1>4, <3>1
    <2> QED BY <1>10, <2>1, ScanBackwardIs
  <1>12. scan_backward(source, p, first, hi) = Highest(Between(source, p, first, hi))
    BY <1>2, <1>8, ScanBackwardIs
  <1>13. ASSUME behind = {} PROVE Between(source, p, first, hi) = all
    <2>1. PICK B : B = Between(source, p, first, hi)
      OBVIOUS
    <2>2. B \subseteq Nat /\ \A o \in Nat : o \in B <=> first <= o /\ o + m <= hi /\ MatchAt(source, p, o)
      BY <1>1, <1>8, <2>1 DEF Between
    <2>3. \A o \in all : o + m > from
      BY <1>1, <1>6, <1>9, <1>13
    <2>4. \A o \in Nat : o \in B <=> o \in all
      BY <1>1, <1>2, <1>4, <1>8, <1>9, <2>2, <2>3
    <2> QED BY <1>9, <2>1, <2>2, <2>4
  <1>14. clip_bounds(bounds, Len(source)) = bounds
    BY ClipOnce
  <1>15. PICK around : around = scan_backward(source, p, first, hi)
    OBVIOUS
  <1>16. find_prev(source, p, from, TRUE, bounds)
           = IF hi - lo < m THEN {}
             ELSE IF Highest(behind) # {} THEN MatchHit(Highest(behind), FALSE)
             ELSE MatchHit(around, TRUE)
    BY <1>1, <1>2, <1>3, <1>7, <1>11, <1>14, <1>15 DEF find_prev
  <1>17. Highest({}) = {} /\ \A b : MatchHit({}, b) = {}
    BY DEF Highest, MatchHit
  <1>18. behind \in SUBSET (0 .. hi)
    <2>1. ASSUME NEW o \in behind PROVE o \in 0 .. hi
      <3>1. o \in all /\ o \in Nat
        BY <1>6, <1>9
      <3>2. o + m <= hi
        BY <1>9, <3>1
      <3> QED BY <1>1, <3>1, <3>2
    <2> QED BY <2>1
  <1>19. behind # {} => Highest(behind) # {}
    BY <1>18, HighestExists
  <1>20. find_prev(source, p, from, TRUE, bounds)
           = IF behind # {} THEN MatchHit(Highest(behind), FALSE) ELSE MatchHit(Highest(all), TRUE)
    <2>1. CASE hi - lo < m
      <3>1. \A o \in Nat : o \notin all
        BY <1>1, <1>9, <2>1
      <3>2. all = {} /\ behind = {}
        BY <1>6, <1>9, <3>1
      <3> QED BY <1>16, <1>17, <2>1, <3>2
    <2>2. CASE ~ (hi - lo < m) /\ behind # {}
      BY <1>16, <1>19, <2>2
    <2>3. CASE ~ (hi - lo < m) /\ behind = {}
      BY <1>12, <1>13, <1>15, <1>16, <1>17, <2>3
    <2> QED BY <2>1, <2>2, <2>3
  <1>21. Inside(source, p, bounds) = all
    BY <1>5, InsideIs
  <1> QED BY <1>6, <1>20, <1>21 DEF PrevIsNearest

-----------------------------------------------------------------------------
(* find_all.  One turn at `from`: the first match from there on, then the   *)
(* rest of the list, which f gives.                                        *)
AllTurn(source, p, from, hi, f) ==
    LET hit == scan_forward(source, p, from, hi)
    IN  IF hit = {} THEN << >>
        ELSE LET off == CHOOSE o \in hit : TRUE IN <<off>> \o f[off + 1]

(* A list of the offsets of a set, in ascending order. *)
Lists(list, S) ==
    /\ list \in Seq(Nat)
    /\ \A k \in 2 .. Len(list) : list[k - 1] < list[k]
    /\ \A k \in 1 .. Len(list) : list[k] \in S
    /\ \A o \in S : \E k \in 1 .. Len(list) : list[k] = o

LEMMA ListsOneMore ==
    ASSUME NEW S, NEW list, Lists(list, S), NEW off \in Nat, \A o \in S : off < o,
           NEW more, more = <<off>> \o list
    PROVE  Lists(more, S \cup {off})
  <1>1. PICK n \in Nat : n = Len(list) /\ list \in Seq(Nat)
    BY DEF Lists
  <1>2. /\ more \in Seq(Nat) /\ Len(more) = n + 1
        /\ more[1] = off /\ \A k \in 1 .. n : more[k + 1] = list[k]
    BY <1>1
  <1>3. \A k \in 2 .. n + 1 : more[k] = list[k - 1]
    <2> SUFFICES ASSUME NEW k \in 2 .. n + 1 PROVE more[k] = list[k - 1]
      OBVIOUS
    <2>1. k - 1 \in 1 .. n /\ (k - 1) + 1 = k
      OBVIOUS
    <2> QED BY <1>2, <2>1
  <1>4. ASSUME NEW k \in 2 .. n + 1 PROVE more[k - 1] < more[k]
    <2>1. CASE k = 2
      <3>1. n >= 1 /\ 1 \in 1 .. n
        BY <2>1
      <3>2. list[1] \in S
        BY <1>1, <3>1 DEF Lists
      <3> QED BY <1>2, <1>3, <2>1, <3>2
    <2>2. CASE k > 2
      <3>1. k - 1 \in 2 .. n + 1 /\ k - 1 \in 2 .. n /\ (k - 1) - 1 = k - 2
        BY <2>2
      <3>2. list[(k - 1) - 1] < list[k - 1]
        BY <1>1, <3>1 DEF Lists
      <3> QED BY <1>3, <3>1, <3>2
    <2>3. k = 2 \/ k > 2
      OBVIOUS
    <2> QED BY <2>1, <2>2, <2>3
  <1>5. ASSUME NEW k \in 1 .. n + 1 PROVE more[k] \in S \cup {off}
    <2>1. CASE k = 1
      BY <1>2, <2>1
    <2>2. CASE k # 1
      <3>1. k \in 2 .. n + 1 /\ k - 1 \in 1 .. n
        BY <2>2
      <3> QED BY <1>1, <1>3, <3>1 DEF Lists
    <2> QED BY <2>1, <2>2
  <1>6. ASSUME NEW o \in S \cup {off} PROVE \E k \in 1 .. n + 1 : more[k] = o
    <2>1. CASE o = off
      <3>1. 1 \in 1 .. n + 1
        OBVIOUS
      <3> QED BY <1>2, <2>1, <3>1
    <2>2. CASE o \in S
      <3>1. PICK k \in 1 .. n : list[k] = o
        BY <1>1, <2>2 DEF Lists
      <3>2. k + 1 \in 1 .. n + 1 /\ more[k + 1] = o
        BY <1>2, <3>1
      <3> QED BY <3>2
    <2> QED BY <2>1, <2>2
  <1> QED BY <1>2, <1>4, <1>5, <1>6 DEF Lists

LEMMA AllTurnIs ==
    ASSUME NEW source \in Texts, NEW p \in Needles, NEW hi \in Nat, hi <= Len(source),
           NEW from \in 0 .. hi + 1
    PROVE  \/ /\ Between(source, p, from, hi) = {}
              /\ \A f : AllTurn(source, p, from, hi, f) = << >>
           \/ \E off \in from .. hi :
                 /\ off \in Between(source, p, from, hi)
                 /\ \A o \in Between(source, p, off + 1, hi) : off < o
                 /\ Between(source, p, from, hi) = Between(source, p, off + 1, hi) \cup {off}
                 /\ \A f : AllTurn(source, p, from, hi, f) = <<off>> \o f[off + 1]
  <1>1. PICK m \in Nat : m = Len(p) /\ m > 0
    BY DEF Needles, Texts
  <1>2. PICK all : all = Between(source, p, from, hi)
    OBVIOUS
  <1>3. all \in SUBSET Nat
    BY <1>1, <1>2 DEF Between
  <1>4. scan_forward(source, p, from, hi) = Lowest(all)
    <2>1. from \in Nat
      OBVIOUS
    <2> QED BY <1>2, <2>1, ScanForwardIs
  <1>5. CASE all = {}
    <2>1. Lowest(all) = {}
      BY <1>5 DEF Lowest
    <2> QED BY <1>2, <1>4, <1>5, <2>1 DEF AllTurn
  <1>6. CASE all # {}
    <2>1. PICK off \in all : Lowest(all) = {off} /\ \A j \in all : off <= j
      BY <1>3, <1>6, LowestExists
    <2>2. off \in Nat /\ from <= off /\ off + m <= hi /\ MatchAt(source, p, off)
      BY <1>1, <1>2, <2>1 DEF Between
    <2>3. PICK rest : rest = Between(source, p, off + 1, hi)
      OBVIOUS
    <2>4. rest \in SUBSET Nat /\ \A o \in rest : off < o
      BY <1>1, <2>2, <2>3 DEF Between
    <2>5. \A o \in Nat : o \in all <=> o \in rest \/ o = off
      <3>1. \A o \in Nat : o \in all <=> from <= o /\ o + m <= hi /\ MatchAt(source, p, o)
        BY <1>1, <1>2 DEF Between
      <3>2. \A o \in Nat : o \in rest <=> off + 1 <= o /\ o + m <= hi /\ MatchAt(source, p, o)
        BY <1>1, <2>2, <2>3 DEF Between
      <3>3. \A o \in Nat : o \in all => o = off \/ off + 1 <= o
        BY <2>1, <2>2
      <3> QED BY <2>2, <3>1, <3>2, <3>3
    <2>6. all = rest \cup {off}
      BY <1>3, <2>2, <2>4, <2>5
    <2>7. ASSUME NEW f PROVE AllTurn(source, p, from, hi, f) = <<off>> \o f[off + 1]
      <3>1. scan_forward(source, p, from, hi) = {off}
        BY <1>4, <2>1
      <3>2. (CHOOSE o \in {off} : TRUE) = off
        OBVIOUS
      <3> QED BY <3>1, <3>2 DEF AllTurn
    <2>8. off \in from .. hi
      BY <1>1, <2>2
    <2> QED BY <1>2, <2>1, <2>3, <2>4, <2>6, <2>7, <2>8
  <1> QED BY <1>5, <1>6


LEMMA Ascends ==
    ASSUME NEW S, NEW list, Lists(list, S),
           NEW i \in 1 .. Len(list), NEW j \in 1 .. Len(list), i < j
    PROVE  list[i] < list[j]
  <1>1. PICK n \in Nat : n = Len(list) /\ list \in Seq(Nat)
    BY DEF Lists
  <1> DEFINE Bad == {k \in i + 1 .. n : ~ (list[i] < list[k])}
  <1>2. Bad = {}
    <2> SUFFICES ASSUME Bad # {} PROVE FALSE
      OBVIOUS
    <2>1. Bad \in SUBSET Nat
      BY <1>1
    <2>2. PICK k \in Bad : \A l \in Bad : k <= l
      BY <2>1, LowestExists
    <2>3. k \in i + 1 .. n /\ ~ (list[i] < list[k]) /\ i \in 1 .. n
      BY <1>1, <2>2
    <2>4. k \in 2 .. n /\ k - 1 \in 1 .. n /\ (k - 1 = i \/ k - 1 \in i + 1 .. n)
      BY <2>3
    <2>5. k - 1 = i \/ list[i] < list[k - 1]
      <3>1. k - 1 \notin Bad
        BY <2>2, <2>3
      <3> QED BY <2>4, <3>1
    <2>6. list[k - 1] < list[k]
      BY <1>1, <2>4 DEF Lists
    <2>7. list[i] \in Nat /\ list[k - 1] \in Nat /\ list[k] \in Nat
      <3>1. \A l \in 1 .. n : list[l] \in Nat
        BY <1>1
      <3>2. i \in 1 .. n /\ k - 1 \in 1 .. n /\ k \in 1 .. n
        BY <2>3, <2>4
      <3> HIDE DEF Bad
      <3> QED BY <3>1, <3>2
    <2> QED BY <2>3, <2>5, <2>6, <2>7
  <1>3. j \in i + 1 .. n
    BY <1>1
  <1> QED BY <1>2, <1>3

(* There is at most one list of a set. *)
LEMMA ListsUnique ==
    ASSUME NEW S, NEW a, NEW b, Lists(a, S), Lists(b, S)
    PROVE  a = b
  <1>1. PICK n \in Nat, m \in Nat : n = Len(a) /\ m = Len(b) /\ a \in Seq(Nat) /\ b \in Seq(Nat)
    BY DEF Lists
  <1> DEFINE Differ(k) == k > n \/ k > m \/ a[k] # b[k]
             Odd == {k \in 1 .. n + m : (k <= n \/ k <= m) /\ Differ(k)}
  <1>2. Odd = {}
    <2> SUFFICES ASSUME Odd # {} PROVE FALSE
      OBVIOUS
    <2>1. Odd \in SUBSET Nat
      BY <1>1
    <2>2. PICK k \in Odd : \A l \in Odd : k <= l
      BY <2>1, LowestExists
    <2>3. k \in 1 .. n + m /\ (k <= n \/ k <= m) /\ (k > n \/ k > m \/ a[k] # b[k])
      BY <2>2
    <2>4. \A l \in 1 .. k - 1 : l \in 1 .. n /\ l \in 1 .. m /\ a[l] = b[l]
      <3> SUFFICES ASSUME NEW l \in 1 .. k - 1 PROVE l \in 1 .. n /\ l \in 1 .. m /\ a[l] = b[l]
        OBVIOUS
      <3>1. l \in 1 .. n + m /\ l < k /\ (l <= n \/ l <= m)
        BY <2>3
      <3>2. l \notin Odd
        BY <2>2, <3>1
      <3> QED BY <3>1, <3>2
    <2> HIDE DEF Odd
    <2>5. ASSUME NEW c, NEW d, Lists(c, S), Lists(d, S), NEW q \in Nat, NEW r \in Nat,
                 q = Len(c), r = Len(d), c \in Seq(Nat), d \in Seq(Nat), k \in 1 .. q,
                 \A l \in 1 .. k - 1 : l \in 1 .. q /\ l \in 1 .. r /\ c[l] = d[l],
                 k \in 1 .. r => c[k] < d[k]
          PROVE  FALSE
      <3>1. c[k] \in S /\ c[k] \in Nat
        <4>1. k \in 1 .. Len(c) /\ c[k] \in Nat
          BY <2>5
        <4>2. \A l \in 1 .. Len(c) : c[l] \in S
          BY <2>5 DEF Lists
        <4> QED BY <4>1, <4>2
      <3>2. PICK j \in 1 .. r : d[j] = c[k]
        BY <2>5, <3>1 DEF Lists
      <3>3. ~ (j < k)
        <4> SUFFICES ASSUME j < k PROVE FALSE
          OBVIOUS
        <4>1. j \in 1 .. k - 1
          BY <2>5
        <4>2. c[j] = c[k] /\ j \in 1 .. q /\ c[j] \in Nat
          BY <2>5, <3>2, <4>1
        <4>3. c[j] < c[k]
          BY <2>5, <4>2, Ascends
        <4> QED BY <3>1, <4>2, <4>3
      <3>4. k \in 1 .. r /\ c[k] < d[k] /\ d[k] \in Nat /\ (j = k \/ k < j)
        BY <2>5, <3>3
      <3>5. k < j => d[k] < d[j]
        BY <2>5, <3>4, Ascends
      <3> QED BY <3>1, <3>2, <3>4, <3>5
    <2>6. CASE k <= n /\ (k > m \/ a[k] < b[k])
      <3>1. k \in 1 .. n /\ (k \in 1 .. m => a[k] < b[k])
        BY <2>3, <2>6
      <3> QED BY <1>1, <2>4, <2>5, <3>1
    <2>7. CASE k <= m /\ (k > n \/ b[k] < a[k])
      <3>1. k \in 1 .. m /\ (k \in 1 .. n => b[k] < a[k])
        BY <2>3, <2>7
      <3>2. \A l \in 1 .. k - 1 : l \in 1 .. m /\ l \in 1 .. n /\ b[l] = a[l]
        BY <2>4
      <3> QED BY <1>1, <2>5, <3>1, <3>2
    <2>8. k <= n /\ k <= m => a[k] \in Nat /\ b[k] \in Nat
      BY <1>1, <2>3
    <2> QED BY <2>3, <2>6, <2>7, <2>8
  <1>3. \A k \in 1 .. n + m : (k <= n \/ k <= m) => k <= n /\ k <= m /\ a[k] = b[k]
    <2> SUFFICES ASSUME NEW k \in 1 .. n + m, k <= n \/ k <= m
                 PROVE  k <= n /\ k <= m /\ a[k] = b[k]
      OBVIOUS
    <2>1. k \notin Odd
      BY <1>2
    <2> QED BY <2>1
  <1>4. n = m
    <2>1. n > 0 => n <= m
      BY <1>3
    <2>2. m > 0 => m <= n
      BY <1>3
    <2> QED BY <2>1, <2>2
  <1>5. \A k \in 1 .. n : a[k] = b[k]
    BY <1>3, <1>4
  <1>6. a = [k \in 1 .. n |-> a[k]] /\ b = [k \in 1 .. m |-> b[k]]
    BY <1>1
  <1> QED BY <1>4, <1>5, <1>6

LEMMA ListsExist ==
    ASSUME NEW source \in Texts, NEW p \in Needles, NEW hi \in Nat, hi <= Len(source)
    PROVE  \A from \in 0 .. hi + 1 : \E list : Lists(list, Between(source, p, from, hi))
  <1> DEFINE Bad == {from \in 0 .. hi + 1 : ~ \E list : Lists(list, Between(source, p, from, hi))}
  <1> SUFFICES ASSUME Bad # {} PROVE FALSE
    OBVIOUS
  <1>1. Bad \in SUBSET (0 .. hi + 1) /\ hi + 1 \in Nat
    OBVIOUS
  <1>2. PICK from \in Bad : \A j \in Bad : j <= from
    BY <1>1, HighestExists
  <1>3. from \in 0 .. hi + 1 /\ ~ \E list : Lists(list, Between(source, p, from, hi))
    BY <1>2
  <1>4. CASE Between(source, p, from, hi) = {}
    <2>1. Lists(<< >>, {})
      BY DEF Lists
    <2> QED BY <1>3, <1>4, <2>1
  <1>5. ASSUME NEW off \in from .. hi,
               \A o \in Between(source, p, off + 1, hi) : off < o,
               Between(source, p, from, hi) = Between(source, p, off + 1, hi) \cup {off}
        PROVE  FALSE
    <2>1. off \in Nat /\ off + 1 \in 0 .. hi + 1 /\ off + 1 > from
      BY <1>3, <1>5
    <2>2. off + 1 \notin Bad
      BY <1>2, <1>3, <2>1
    <2>3. PICK list : Lists(list, Between(source, p, off + 1, hi))
      BY <2>1, <2>2
    <2>4. Lists(<<off>> \o list, Between(source, p, off + 1, hi) \cup {off})
      BY <1>5, <2>1, <2>3, ListsOneMore
    <2> QED BY <1>3, <1>5, <2>4
  <1> HIDE DEF Bad
  <1> QED BY <1>3, <1>4, <1>5, AllTurnIs

(* All matches, in order. *)
FoundAll(source, p, lo, hi) ==
    (CHOOSE f : f = [from \in 0 .. hi + 1 |-> AllTurn(source, p, from, hi, f)])[lo]

LEMMA FindAllIs ==
    ASSUME NEW source \in Texts, NEW p \in Needles, NEW lo \in Nat, NEW hi \in Nat,
           hi <= Len(source), lo <= hi, NEW bounds, bounds = [lo |-> lo, hi |-> hi]
    PROVE  Lists(find_all(source, p, bounds), Between(source, p, lo, hi))
  <1>1. PICK m \in Nat : m = Len(p) /\ m > 0
    BY DEF Needles, Texts
  <1>2. clip_bounds(bounds, Len(source)) = bounds
    BY ClipOnce DEF Clipped
  <1>3. bounds.lo = lo /\ bounds.hi = hi
    OBVIOUS
  <1>4. CASE hi - lo < m
    <2>1. find_all(source, p, bounds) = << >>
      BY <1>1, <1>2, <1>3, <1>4 DEF find_all
    <2>2. Between(source, p, lo, hi) = {}
      BY <1>1, <1>4 DEF Between
    <2>3. Lists(<< >>, {})
      BY DEF Lists
    <2> QED BY <2>1, <2>2, <2>3
  <1>5. CASE ~ (hi - lo < m)
    <2> DEFINE Body(f, from) == AllTurn(source, p, from, hi, f)
               Eqn(f) == f = [from \in 0 .. hi + 1 |-> Body(f, from)]
               Goal(from) == CHOOSE list : Lists(list, Between(source, p, from, hi))
               g == [from \in 0 .. hi + 1 |-> Goal(from)]
    <2>0. ~ (bounds.hi - bounds.lo < Len(p))
      BY <1>1, <1>3, <1>5
    <2>1. find_all(source, p, bounds) = (CHOOSE f : Eqn(f))[lo]
      <3>1. find_all(source, p, bounds) = FoundAll(source, p, bounds.lo, bounds.hi)
        <4>1. find_all(source, p, bounds)
                = IF clip_bounds(bounds, Len(source)).hi - clip_bounds(bounds, Len(source)).lo < Len(p)
                  THEN << >>
                  ELSE FoundAll(source, p, clip_bounds(bounds, Len(source)).lo,
                                clip_bounds(bounds, Len(source)).hi)
          BY Zenon DEF find_all, FoundAll, AllTurn
        <4> QED BY <1>2, <2>0, <4>1
      <3>2. FoundAll(source, p, lo, hi) = (CHOOSE f : Eqn(f))[lo]
        BY Zenon DEF FoundAll
      <3> QED BY <1>3, <3>1, <3>2
    <2>2. \A from \in 0 .. hi + 1 : Lists(Goal(from), Between(source, p, from, hi))
      BY ListsExist
    <2>3. ASSUME NEW from \in 0 .. hi + 1, NEW f,
                 \A k \in 0 .. hi + 1 : k > from => Lists(f[k], Between(source, p, k, hi))
          PROVE  Lists(Body(f, from), Between(source, p, from, hi))
      <3>1. CASE /\ Between(source, p, from, hi) = {}
                 /\ \A h : AllTurn(source, p, from, hi, h) = << >>
        <4>1. Lists(<< >>, {})
          BY DEF Lists
        <4> QED BY <3>1, <4>1
      <3>2. ASSUME NEW off \in from .. hi,
                   \A o \in Between(source, p, off + 1, hi) : off < o,
                   Between(source, p, from, hi) = Between(source, p, off + 1, hi) \cup {off},
                   \A h : AllTurn(source, p, from, hi, h) = <<off>> \o h[off + 1]
            PROVE  Lists(Body(f, from), Between(source, p, from, hi))
        <4>1. off \in Nat /\ off + 1 \in 0 .. hi + 1 /\ off + 1 > from
          BY <3>2
        <4>2. Lists(f[off + 1], Between(source, p, off + 1, hi))
          BY <2>3, <4>1
        <4>3. Lists(<<off>> \o f[off + 1], Between(source, p, off + 1, hi) \cup {off})
          BY <3>2, <4>1, <4>2, ListsOneMore
        <4>4. Body(f, from) = <<off>> \o f[off + 1]
          BY <3>2
        <4> QED BY <3>2, <4>3, <4>4
      <3> HIDE DEF Body
      <3> QED BY <3>1, <3>2, AllTurnIs
    <2>4. g = [from \in 0 .. hi + 1 |-> g[from]] /\ \A from \in 0 .. hi + 1 : g[from] = Goal(from)
      OBVIOUS
    <2> HIDE DEF g, Goal, Body
    <2>5. ASSUME NEW from \in 0 .. hi + 1 PROVE g[from] = Body(g, from)
      <3>1. \A k \in 0 .. hi + 1 : Lists(g[k], Between(source, p, k, hi))
        BY <2>2, <2>4
      <3>2. Lists(Body(g, from), Between(source, p, from, hi))
        BY <2>3, <3>1
      <3> QED BY <3>1, <3>2, ListsUnique
    <2>6. Eqn(g)
      BY <2>4, <2>5
    <2>7. PICK f : f = (CHOOSE h : Eqn(h)) /\ Eqn(f)
      <3> HIDE DEF Eqn
      <3> QED BY <2>6
    <2>8. \A from \in 0 .. hi + 1 : f[from] = Body(f, from)
      BY <2>7, Zenon
    <2> HIDE DEF Eqn
    <2> DEFINE Bad == {from \in 0 .. hi + 1 : ~ Lists(f[from], Between(source, p, from, hi))}
    <2>9. Bad = {}
      <3> SUFFICES ASSUME Bad # {} PROVE FALSE
        OBVIOUS
      <3>1. Bad \in SUBSET (0 .. hi + 1) /\ hi + 1 \in Nat
        OBVIOUS
      <3>2. PICK from \in Bad : \A j \in Bad : j <= from
        BY <3>1, HighestExists
      <3>3. from \in 0 .. hi + 1 /\ ~ Lists(f[from], Between(source, p, from, hi))
        BY <3>2
      <3>4. \A k \in 0 .. hi + 1 : k > from => Lists(f[k], Between(source, p, k, hi))
        <4> SUFFICES ASSUME NEW k \in 0 .. hi + 1, k > from
                     PROVE  Lists(f[k], Between(source, p, k, hi))
          OBVIOUS
        <4>1. k \notin Bad
          BY <3>2, <3>3
        <4> QED BY <4>1
      <3> HIDE DEF Bad
      <3>5. Lists(Body(f, from), Between(source, p, from, hi))
        BY <2>3, <3>3, <3>4
      <3> QED BY <2>8, <3>3, <3>5
    <2>10. Lists(f[lo], Between(source, p, lo, hi))
      <3>1. lo \in 0 .. hi + 1
        OBVIOUS
      <3>2. lo \notin Bad
        BY <2>9
      <3> QED BY <3>1, <3>2
    <2> QED BY <2>1, <2>7, <2>10
  <1> QED BY <1>4, <1>5

-----------------------------------------------------------------------------
(* Replacing bytes. *)

LEMMA TextLength == \A t \in Texts : Len(t) \in Nat
  BY DEF Texts

LEMMA SpliceIs ==
    ASSUME NEW buf \in Texts, NEW off \in Nat, NEW rem \in Nat, NEW ins \in Texts,
           off + rem <= Len(buf)
    PROVE  /\ Splice(buf, off, rem, ins) \in Texts
           /\ Len(Splice(buf, off, rem, ins)) = Len(buf) - rem + Len(ins)
  <1>1. PICK n \in Nat, m \in Nat : n = Len(buf) /\ m = Len(ins)
    BY DEF Texts
  <1>2. n - rem + m \in Nat
    BY <1>1
  <1>3. ASSUME NEW i \in 1 .. n - rem + m
        PROVE  (IF i <= off THEN buf[i]
                ELSE IF i <= off + m THEN ins[i - off] ELSE buf[i - m + rem]) \in Nat
    <2>1. CASE i <= off
      <3>1. i \in 1 .. Len(buf)
        BY <1>1, <2>1
      <3> QED BY <2>1, <3>1 DEF Texts
    <2>2. CASE ~ (i <= off) /\ i <= off + m
      <3>1. i - off \in 1 .. Len(ins)
        BY <1>1, <2>2
      <3> QED BY <2>2, <3>1 DEF Texts
    <2>3. CASE ~ (i <= off) /\ ~ (i <= off + m)
      <3>1. i - m + rem \in 1 .. Len(buf)
        BY <1>1, <2>3
      <3> QED BY <2>3, <3>1 DEF Texts
    <2> QED BY <2>1, <2>2, <2>3
  <1>4. Splice(buf, off, rem, ins) \in [1 .. n - rem + m -> Nat]
    BY <1>1, <1>3 DEF Splice
  <1>5. PICK len \in Nat : len = n - rem + m
    BY <1>2
  <1>6. ASSUME NEW f \in [1 .. len -> Nat] PROVE f \in Seq(Nat) /\ Len(f) = len
    OBVIOUS
  <1> QED BY <1>1, <1>4, <1>5, <1>6 DEF Texts

(* The operations of a Replace All. *)
OpsAt(offs, rem, ins) ==
    [k \in 1 .. Len(offs) |-> [offset |-> offs[k], remove |-> rem, insert |-> ins]]

(* Where splice_many takes a batch. *)
Fit(offs, rem, buf) ==
    /\ \A k \in 1 .. Len(offs) : offs[k] + rem <= Len(buf)
    /\ \A k \in 2 .. Len(offs) : offs[k] >= offs[k - 1] + rem

LEMMA OpsAre ==
    ASSUME NEW offs \in Seq(Nat), NEW rem \in Nat, NEW ins \in Texts
    PROVE  /\ Len(OpsAt(offs, rem, ins)) = Len(offs)
           /\ \A k \in 1 .. Len(offs) : /\ OpsAt(offs, rem, ins)[k].offset = offs[k]
                                        /\ OpsAt(offs, rem, ins)[k].remove = rem
                                        /\ OpsAt(offs, rem, ins)[k].insert = ins
  <1>1. PICK n \in Nat : n = Len(offs)
    OBVIOUS
  <1> DEFINE Op == [offset : Nat, remove : Nat, insert : Texts]
  <1>2. OpsAt(offs, rem, ins) \in [1 .. n -> Op]
    BY <1>1 DEF OpsAt
  <1>3. Len(OpsAt(offs, rem, ins)) = n
    <2> HIDE DEF Op
    <2> QED BY <1>2
  <1>4. \A k \in 1 .. n : /\ OpsAt(offs, rem, ins)[k].offset = offs[k]
                          /\ OpsAt(offs, rem, ins)[k].remove = rem
                          /\ OpsAt(offs, rem, ins)[k].insert = ins
    BY <1>1 DEF OpsAt
  <1> QED BY <1>1, <1>3, <1>4

(* A batch that fits gives bytes, and as many as there were if each         *)
(* replacement is as long as what it replaces.  Back to front: the bytes in *)
(* front of an operation are still there when its turn comes.              *)
LEMMA BatchIs ==
    ASSUME NEW buf \in Texts, NEW offs \in Seq(Nat), NEW rem \in Nat, NEW ins \in Texts,
           Fit(offs, rem, buf)
    PROVE  /\ Batch(buf, OpsAt(offs, rem, ins)) \in Texts
           /\ rem = Len(ins) => Len(Batch(buf, OpsAt(offs, rem, ins))) = Len(buf)
  <1>0. ASSUME NEW x \in Texts, NEW off \in Nat, off + rem <= Len(x)
        PROVE  /\ Splice(x, off, rem, ins) \in Texts
               /\ Len(Splice(x, off, rem, ins)) = Len(x) - rem + Len(ins)
    BY <1>0, SpliceIs
  <1>1. PICK n \in Nat, ops \in {OpsAt(offs, rem, ins)} :
             n = Len(offs) /\ ops = OpsAt(offs, rem, ins)
    OBVIOUS
  <1>2. /\ Len(ops) = n
        /\ \A k \in 1 .. n : ops[k].offset = offs[k] /\ ops[k].remove = rem /\ ops[k].insert = ins
    BY <1>1, OpsAre
  <1>3. /\ \A k \in 1 .. n : offs[k] \in Nat /\ offs[k] + rem <= Len(buf)
        /\ \A k \in 2 .. n : offs[k] >= offs[k - 1] + rem
    BY <1>1 DEF Fit
  <1> DEFINE Step(x, k) == Splice(x, ops[k].offset, ops[k].remove, ops[k].insert)
             Good(k, x) == /\ x \in Texts
                           /\ rem = Len(ins) => Len(x) = Len(buf)
                           /\ k <= n => Len(x) >= offs[k]
                           /\ k > n => x = buf
             Body(f, k) == IF k > Len(ops) THEN buf ELSE Step(f[k + 1], k)
             Eqn(f) == f = [k \in 1 .. Len(ops) + 1 |-> Body(f, k)]
             Chain(f, i) == /\ f = [k \in i .. n + 1 |-> f[k]]
                            /\ \A k \in i .. n + 1 : f[k] = Body(f, k)
  <1>4. ASSUME NEW k \in 1 .. n, NEW x, Good(k + 1, x) PROVE Good(k, Step(x, k))
    <2>1. PICK off \in Nat, len \in Nat : off = offs[k] /\ len = Len(x) /\ x \in Texts
      BY <1>3, <1>4 DEF Texts
    <2>2. off + rem <= len
      <3>1. CASE k = n
        <4>1. x = buf
          BY <1>4, <3>1
        <4> QED BY <1>3, <2>1, <4>1
      <3>2. CASE k # n
        <4>1. k + 1 \in 2 .. n /\ (k + 1) - 1 = k /\ k + 1 <= n /\ k + 1 \in 1 .. n
          BY <3>2
        <4>2. offs[k + 1] >= offs[k] + rem /\ offs[k + 1] \in Nat
          BY <1>3, <4>1
        <4>3. Len(x) >= offs[k + 1]
          BY <1>4, <4>1
        <4> QED BY <2>1, <4>2, <4>3
      <3> QED BY <3>1, <3>2
    <2>3. PICK y : y = Splice(x, off, rem, ins) /\ y = Step(x, k)
      BY <1>2, <2>1
    <2>4. y \in Texts /\ Len(y) = len - rem + Len(ins) /\ Len(ins) \in Nat
      <3>1. Len(ins) \in Nat
        BY DEF Texts
      <3>2. off + rem <= Len(x)
        BY <2>1, <2>2
      <3>3. /\ Splice(x, off, rem, ins) \in Texts
            /\ Len(Splice(x, off, rem, ins)) = Len(x) - rem + Len(ins)
        BY <1>0, <2>1, <3>2
      <3> QED BY <2>1, <2>3, <3>1, <3>3
    <2>5. Len(y) >= off
      BY <2>1, <2>2, <2>4
    <2>6. rem = Len(ins) => Len(y) = Len(buf)
      BY <1>4, <2>1, <2>4
    <2> QED BY <2>1, <2>3, <2>4, <2>5, <2>6
  <1> HIDE DEF Step
  <1>5. \E f : Chain(f, 1)
    <2> DEFINE Bad == {i \in 1 .. n + 1 : ~ \E f : Chain(f, i)}
    <2>1. Bad = {}
      <3> SUFFICES ASSUME Bad # {} PROVE FALSE
        OBVIOUS
      <3>1. Bad \in SUBSET (0 .. n + 1) /\ n + 1 \in Nat
        OBVIOUS
      <3>2. PICK i \in Bad : \A j \in Bad : j <= i
        BY <3>1, HighestExists
      <3>3. i \in 1 .. n + 1 /\ ~ \E f : Chain(f, i)
        BY <3>2
      <3>4. i # n + 1
        <4> SUFFICES ASSUME i = n + 1 PROVE FALSE
          OBVIOUS
        <4> DEFINE h == [k \in i .. n + 1 |-> buf]
        <4>1. \A k \in i .. n + 1 : k > Len(ops)
          BY <1>2
        <4>2. ASSUME NEW k \in i .. n + 1 PROVE h[k] = Body(h, k)
          <5>1. h[k] = buf
            OBVIOUS
          <5>2. k > Len(ops)
            BY <4>1
          <5> HIDE DEF h
          <5> QED BY <5>1, <5>2
        <4>3. h = [k \in i .. n + 1 |-> h[k]]
          OBVIOUS
        <4> HIDE DEF h, Body
        <4>4. Chain(h, i)
          BY <4>2, <4>3
        <4> QED BY <3>3, <4>4
      <3>5. i + 1 \in 1 .. n + 1 /\ i + 1 \notin Bad
        <4>1. i \in 1 .. n + 1 /\ i # n + 1
          BY <3>3, <3>4
        <4> HIDE DEF Bad, Chain
        <4>2. i + 1 \in 1 .. n + 1 /\ ~ (i + 1 <= i)
          BY <4>1
        <4> QED BY <3>2, <4>2
      <3>6. PICK f : Chain(f, i + 1)
        BY <3>5
      <3> HIDE DEF Bad
      <3> DEFINE h == [k \in i .. n + 1 |-> IF k = i THEN Step(f[i + 1], i) ELSE f[k]]
      <3>7. h = [k \in i .. n + 1 |-> h[k]]
        OBVIOUS
      <3>8. ASSUME NEW k \in i .. n + 1 PROVE h[k] = Body(h, k)
        <4>1. CASE k = i
          <5>1. h[i] = Step(f[i + 1], i) /\ h[i + 1] = f[i + 1] /\ ~ (i > Len(ops))
            BY <1>2, <3>3, <3>4, <3>5
          <5> HIDE DEF h
          <5> QED BY <4>1, <5>1
        <4>2. CASE k # i
          <5>1. k \in i + 1 .. n + 1 /\ k # i /\ (k <= n => k + 1 \in i .. n + 1 /\ k + 1 # i)
            BY <3>3, <4>2
          <5>2. h[k] = f[k] /\ (k <= n => h[k + 1] = f[k + 1])
            BY <5>1
          <5>3. f[k] = Body(f, k)
            BY <3>6, <5>1
          <5>4. k > Len(ops) \/ k <= n
            BY <1>2, <3>3
          <5> HIDE DEF h
          <5> QED BY <5>2, <5>3, <5>4
        <4> QED BY <4>1, <4>2
      <3> HIDE DEF h, Body
      <3>9. Chain(h, i)
        BY <3>7, <3>8
      <3> QED BY <3>3, <3>9
    <2>2. 1 \in 1 .. n + 1
      OBVIOUS
    <2> HIDE DEF Chain
    <2> QED BY <2>1, <2>2
  <1>6. \E f : Eqn(f)
    <2>1. PICK f : Chain(f, 1)
      BY <1>5
    <2>2. Eqn(f)
      <3> HIDE DEF Body
      <3> QED BY <1>2, <2>1
    <2> QED BY <2>2
  <1>7. PICK f : f = (CHOOSE h : Eqn(h)) /\ Eqn(f)
    <2> HIDE DEF Eqn
    <2> QED BY <1>6
  <1>8. Batch(buf, ops) = f[1]
    BY <1>7, Zenon DEF Batch, Step
  <1>9. \A k \in 1 .. n + 1 : f[k] = Body(f, k)
    <2> HIDE DEF Body
    <2> QED BY <1>2, <1>7
  <1> HIDE DEF Eqn
  <1> DEFINE Bad == {k \in 1 .. n + 1 : ~ Good(k, f[k])}
  <1>10. Bad = {}
    <2> SUFFICES ASSUME Bad # {} PROVE FALSE
      OBVIOUS
    <2>1. Bad \in SUBSET (0 .. n + 1) /\ n + 1 \in Nat
      OBVIOUS
    <2>2. PICK k \in Bad : \A j \in Bad : j <= k
      BY <2>1, HighestExists
    <2>3. k \in 1 .. n + 1 /\ ~ Good(k, f[k])
      BY <2>2
    <2>4. CASE k = n + 1
      <3>1. f[k] = buf /\ ~ (k <= n)
        BY <1>2, <1>9, <2>3, <2>4
      <3> QED BY <2>3, <3>1
    <2>5. CASE k # n + 1
      <3>1. k \in 1 .. n /\ k + 1 \in 1 .. n + 1 /\ k + 1 \notin Bad
        BY <2>2, <2>3, <2>5
      <3>2. Good(k + 1, f[k + 1])
        BY <3>1
      <3>3. f[k] = Step(f[k + 1], k)
        BY <1>2, <1>9, <2>3, <3>1
      <3> HIDE DEF Good, Bad
      <3> QED BY <1>4, <2>3, <3>1, <3>2, <3>3
    <2> QED BY <2>4, <2>5
  <1>11. Good(1, f[1])
    <2>1. 1 \in 1 .. n + 1 /\ 1 \notin Bad
      BY <1>10
    <2> QED BY <2>1
  <1> QED BY <1>1, <1>8, <1>11

-----------------------------------------------------------------------------
(* The find bar. *)

Scopes == {File} \cup [lo : Nat, hi : Nat]
BoundsIn(scope, total) == IF scope = File THEN [lo |-> 0, hi |-> total]
                          ELSE clip_bounds(scope, total)

LEMMA ClipIs ==
    ASSUME NEW source \in Texts, NEW b \in [lo : Nat, hi : Nat]
    PROVE  \E lo, hi \in Nat : Clipped(source, clip_bounds(b, Len(source)), lo, hi)
  <1>1. PICK n \in Nat : n = Len(source)
    BY DEF Texts
  <1>2. b.lo \in Nat /\ b.hi \in Nat
    OBVIOUS
  <1>3. PICK hi \in Nat : hi = Lesser(b.hi, n) /\ hi <= n
    BY <1>1, <1>2 DEF Lesser
  <1>4. PICK lo \in Nat : lo = Lesser(Lesser(b.lo, n), hi) /\ lo <= hi
    BY <1>1, <1>2, <1>3 DEF Lesser
  <1>5. clip_bounds(b, Len(source)) = [lo |-> lo, hi |-> hi]
    BY <1>1, <1>3, <1>4 DEF clip_bounds
  <1> QED BY <1>1, <1>3, <1>4, <1>5 DEF Clipped

LEMMA BoundsAre ==
    ASSUME NEW source \in Texts, NEW scope \in Scopes
    PROVE  \E lo, hi \in Nat : Clipped(source, BoundsIn(scope, Len(source)), lo, hi)
  <1>1. PICK n \in Nat : n = Len(source)
    BY DEF Texts
  <1>2. CASE scope = File
    <2>1. Clipped(source, BoundsIn(scope, Len(source)), 0, n)
      BY <1>1, <1>2 DEF BoundsIn, Clipped
    <2> QED BY <2>1
  <1>3. CASE scope # File
    <2>1. scope \in [lo : Nat, hi : Nat] /\ BoundsIn(scope, Len(source)) = clip_bounds(scope, Len(source))
      BY <1>3 DEF Scopes, BoundsIn
    <2> QED BY <2>1, ClipIs
  <1> QED BY <1>2, <1>3

(* Bounds that are not clipped yet find the same. *)
LEMMA FindAllClips ==
    ASSUME NEW source \in Texts, NEW p, NEW b \in [lo : Nat, hi : Nat]
    PROVE  find_all(source, p, b) = find_all(source, p, clip_bounds(b, Len(source)))
  <1>1. PICK c : c = clip_bounds(b, Len(source))
    OBVIOUS
  <1>2. clip_bounds(c, Len(source)) = c
    <2>1. PICK lo \in Nat, hi \in Nat : Clipped(source, c, lo, hi)
      BY <1>1, ClipIs
    <2> QED BY <2>1, ClipOnce
  <1>3. ASSUME NEW bounds
        PROVE  find_all(source, p, bounds)
                = IF clip_bounds(bounds, Len(source)).hi - clip_bounds(bounds, Len(source)).lo < Len(p)
                  THEN << >>
                  ELSE FoundAll(source, p, clip_bounds(bounds, Len(source)).lo,
                                clip_bounds(bounds, Len(source)).hi)
    BY Zenon DEF find_all, FoundAll, AllTurn
  <1>4. find_all(source, p, b) = IF c.hi - c.lo < Len(p) THEN << >> ELSE FoundAll(source, p, c.lo, c.hi)
    BY <1>1, <1>3
  <1>5. find_all(source, p, c) = IF c.hi - c.lo < Len(p) THEN << >> ELSE FoundAll(source, p, c.lo, c.hi)
    BY <1>2, <1>3
  <1> QED BY <1>1, <1>4, <1>5

(* What the bar lists. *)
ListFor(p, scope, bytes) ==
    IF p = << >> THEN << >>
    ELSE find_all(bytes, p, IF scope = File THEN [lo |-> 0, hi |-> Len(bytes)] ELSE scope)

LEMMA FoundIs ==
    ASSUME NEW p \in Needles, NEW scope \in Scopes, NEW bytes \in Texts
    PROVE  Lists(find_all(bytes, p, BoundsIn(scope, Len(bytes))),
                 Inside(bytes, p, BoundsIn(scope, Len(bytes))))
  <1>1. PICK b : b = BoundsIn(scope, Len(bytes))
    OBVIOUS
  <1>2. PICK lo \in Nat, hi \in Nat : Clipped(bytes, b, lo, hi)
    BY <1>1, BoundsAre
  <1>3. Lists(find_all(bytes, p, b), Between(bytes, p, lo, hi))
    BY <1>2, FindAllIs DEF Clipped
  <1>4. Inside(bytes, p, b) = Between(bytes, p, lo, hi)
    BY <1>2, InsideIs
  <1> QED BY <1>1, <1>3, <1>4

LEMMA NeedleIs ==
    ASSUME NEW p \in Texts, p # << >>
    PROVE  p \in Needles
  BY DEF Texts, Needles

LEMMA ListForIs ==
    ASSUME NEW p \in Texts, NEW scope \in Scopes, NEW bytes \in Texts
    PROVE  ListFor(p, scope, bytes) \in Seq(Nat)
  <1>1. CASE p = << >>
    BY <1>1 DEF ListFor
  <1>2. CASE p # << >>
    <2>1. p \in Needles
      BY <1>2, NeedleIs
    <2>2. ListFor(p, scope, bytes) = find_all(bytes, p, BoundsIn(scope, Len(bytes)))
      <3>1. CASE scope = File
        BY <1>2, <3>1 DEF ListFor, BoundsIn
      <3>2. CASE scope # File
        <4>1. scope \in [lo : Nat, hi : Nat]
          BY <3>2 DEF Scopes
        <4>2. find_all(bytes, p, scope) = find_all(bytes, p, clip_bounds(scope, Len(bytes)))
          BY <4>1, FindAllClips
        <4> QED BY <1>2, <3>2, <4>2 DEF ListFor, BoundsIn
      <3> QED BY <3>1, <3>2
    <2> QED BY <2>1, <2>2, FoundIs DEF Lists
  <1> QED BY <1>1, <1>2

LEMMA NearestIs ==
    ASSUME NEW list \in Seq(Nat), NEW caret
    PROVE  nearest_match_idx(list, caret) \in 0 .. Len(list)
  <1>1. PICK n \in Nat : n = Len(list)
    OBVIOUS
  <1>2. PICK ahead : ahead = Lowest({k \in 1 .. n : list[k] >= caret})
    OBVIOUS
  <1>3. ahead \subseteq 1 .. n
    BY <1>2 DEF Lowest
  <1>4. nearest_match_idx(list, caret)
          = IF list = << >> THEN 0 ELSE IF ahead = {} THEN n ELSE CHOOSE k \in ahead : TRUE
    BY <1>1, <1>2 DEF nearest_match_idx
  <1>5. PICK c : c = (CHOOSE k \in ahead : TRUE)
    OBVIOUS
  <1>6. ahead # {} => c \in ahead
    BY <1>5
  <1>7. 0 \in 0 .. n /\ n \in 0 .. n /\ (ahead # {} => c \in 0 .. n)
    <2>1. 0 \in 0 .. n /\ n \in 0 .. n /\ \A k \in 1 .. n : k \in 0 .. n
      OBVIOUS
    <2> QED BY <1>3, <1>6, <2>1, Zenon
  <1> QED BY <1>1, <1>4, <1>5, <1>7, Zenon

Bars == [pattern : Texts, replace_pattern : Texts, all_results : BOOLEAN, matches : Seq(Nat),
         active_idx : Nat, acked : BOOLEAN, scope : Scopes]

(* A bar with its query changed and its list cleared. *)
Cleared(b, p, r, scope, ack) ==
    [b EXCEPT !.pattern = p, !.replace_pattern = r, !.scope = scope,
              !.matches = << >>, !.active_idx = 0, !.acked = ack]

LEMMA ClearedIs ==
    ASSUME NEW b \in Bars, NEW p \in Texts, NEW r \in Texts, NEW scope \in Scopes,
           NEW ack \in BOOLEAN, NEW c,
           c = Cleared(b, p, r, scope, ack)
    PROVE  /\ c \in Bars /\ c.matches = << >> /\ c.active_idx = 0 /\ c.acked = ack
           /\ c.pattern = p /\ c.replace_pattern = r /\ c.scope = scope
  <1>1. << >> \in Seq(Nat) /\ 0 \in Nat
    OBVIOUS
  <1>2. c = [pattern |-> p, replace_pattern |-> r, all_results |-> b.all_results,
             matches |-> << >>, active_idx |-> 0, acked |-> ack, scope |-> scope]
    BY DEF Bars, Cleared
  <1>3. b.all_results \in BOOLEAN
    BY DEF Bars
  <1> QED BY <1>1, <1>2, <1>3 DEF Bars

(* The active index is one of the list, and the list that of the query in   *)
(* `bytes`, or empty.                                                      *)
BarOK(b, bytes) ==
    /\ b \in Bars
    /\ bytes \in Texts
    /\ b.active_idx \in 0 .. Len(b.matches)
    /\ b.matches # << >> => b.matches = ListFor(b.pattern, b.scope, bytes)

(* Two bars with the same query. *)
SameQuery(b, c) ==
    /\ b.pattern = c.pattern /\ b.replace_pattern = c.replace_pattern
    /\ b.acked = c.acked /\ b.scope = c.scope

LEMMA RecomputeIs ==
    ASSUME NEW b \in Bars, NEW bytes \in Texts, NEW caret,
           NEW c, c = recompute_all_results(b, bytes, caret)
    PROVE  /\ BarOK(c, bytes) /\ SameQuery(c, b) /\ c.all_results = b.all_results
           /\ c.matches = ListFor(b.pattern, b.scope, bytes)
  <1>1. PICK list : list = ListFor(b.pattern, b.scope, bytes)
    OBVIOUS
  <1>2. list \in Seq(Nat) /\ b.pattern \in Texts /\ b.scope \in Scopes
    <2>1. b.pattern \in Texts /\ b.scope \in Scopes
      BY DEF Bars
    <2> QED BY <1>1, <2>1, ListForIs
  <1>3. PICK idx : idx = nearest_match_idx(list, caret)
    OBVIOUS
  <1>4. idx \in 0 .. Len(list) /\ idx \in Nat
    BY <1>2, <1>3, NearestIs
  <1>5. c = [b EXCEPT !.matches = list, !.active_idx = idx]
    BY <1>1, <1>3 DEF recompute_all_results, ListFor
  <1>6. c \in Bars /\ SameQuery(c, b) /\ c.all_results = b.all_results
        /\ c.matches = list /\ c.active_idx = idx
    BY <1>2, <1>4, <1>5 DEF Bars, SameQuery
  <1> QED BY <1>1, <1>4, <1>6 DEF BarOK, SameQuery

(* Installing a bar c, over the bytes f, that stands for b without a list. *)
Installed(b, bytes, caret, c, f) ==
    /\ c = IF b.all_results THEN recompute_all_results(b, bytes, caret) ELSE b
    /\ f = IF b.all_results THEN bytes ELSE << >>

LEMMA InstalledIs ==
    ASSUME NEW b \in Bars, b.matches = << >>, b.active_idx = 0, NEW bytes \in Texts, NEW caret,
           NEW c, NEW f, Installed(b, bytes, caret, c, f)
    PROVE  BarOK(c, f) /\ SameQuery(c, b)
  <1>1. b.all_results \in BOOLEAN
    BY DEF Bars
  <1>2. CASE b.all_results
    <2>1. c = recompute_all_results(b, bytes, caret) /\ f = bytes
      BY <1>2 DEF Installed
    <2> QED BY <2>1, RecomputeIs
  <1>3. CASE ~ b.all_results
    <2>1. c = b /\ f = << >>
      BY <1>3 DEF Installed
    <2>2. << >> \in Texts /\ Len(b.matches) = 0
      BY DEF Texts
    <2> QED BY <2>1, <2>2 DEF BarOK, SameQuery
  <1> QED BY <1>2, <1>3

-----------------------------------------------------------------------------
(* The tab's bytes. *)

BufferTyped ==
    saved \in Texts /\ present \in Texts /\ past \in Seq(Texts) /\ future \in Seq(Texts)

LEMMA ChangeKeeps ==
    ASSUME BufferTyped, NEW content \in Texts, NEW joins \in BOOLEAN, Change(content, joins)
    PROVE  BufferTyped' /\ Len(past') <= Len(past) + 1
  <1>1. past' = past \/ past' = Append(past, present)
    BY DEF Change
  <1>2. past' \in Seq(Texts) /\ Len(past') <= Len(past) + 1
    BY <1>1 DEF BufferTyped
  <1> QED BY <1>2 DEF BufferTyped, Change

LEMMA HistoryKeeps ==
    ASSUME BufferTyped, GoBack \/ GoForward
    PROVE  BufferTyped'
  <1>1. ASSUME NEW s \in Seq(Texts), s # << >>
        PROVE  s[Len(s)] \in Texts /\ SubSeq(s, 1, Len(s) - 1) \in Seq(Texts)
    <2>1. PICK n \in Nat : n = Len(s) /\ n > 0
      BY <1>1
    <2>2. \A i \in 1 .. n - 1 : s[i] \in Texts
      BY <2>1
    <2> QED BY <2>1, <2>2
  <1>2. ASSUME NEW s \in Seq(Texts), NEW t \in Texts PROVE Append(s, t) \in Seq(Texts)
    OBVIOUS
  <1>3. CASE GoBack
    BY <1>1, <1>2, <1>3 DEF GoBack, BufferTyped
  <1>4. CASE GoForward
    BY <1>1, <1>2, <1>4 DEF GoForward, BufferTyped
  <1> QED BY <1>3, <1>4

LEMMA ResetKeeps ==
    ASSUME NEW content \in Texts, Reset(content)
    PROVE  BufferTyped'
  BY DEF Reset, BufferTyped

-----------------------------------------------------------------------------
(* The inductive invariant of the bar. *)

Selections == {<< >>} \cup (Nat \X Nat)

(* A dialog that is up: for the pattern in the bar; its offsets are all the *)
(* matches in the bytes it was asked for, unless it is about one.          *)
DialogOK(d, b) ==
    /\ d = [kind |-> d.kind, offsets |-> d.offsets, find_len |-> d.find_len, bytes |-> d.bytes]
    /\ d.kind \in {"resize current", "confirm all", "resize all"}
    /\ b.pattern \in Needles
    /\ d.find_len = Len(b.pattern)
    /\ d.bytes \in Texts
    /\ d.offsets \in Seq(Nat)
    /\ IF d.kind = "resize current" THEN Len(d.offsets) = 1
       ELSE Lists(d.offsets, Inside(d.bytes, b.pattern, BoundsIn(b.scope, Len(d.bytes))))

DialogUp == dialog = << >> \/ (dialog = <<dialog[1]>> /\ DialogOK(dialog[1], bar))

(* Where the prompt is not asked again, the user agreed to this pair, or    *)
(* there is nothing to agree to.                                           *)
AckOK(b, pair) ==
    b.acked => Len(b.pattern) = Len(b.replace_pattern) \/ pair = <<b.pattern, b.replace_pattern>>

FindInv ==
    /\ BufferTyped
    /\ BarOK(bar, found_in)
    /\ selection \in Selections
    /\ DialogUp
    /\ AckOK(bar, agreed)

LEMMA CaretIs ==
    ASSUME FindInv
    PROVE  current_caret \in Nat
  BY DEF FindInv, current_caret, Selections

LEMMA CoveredIs ==
    ASSUME NEW sel \in Nat \X Nat
    PROVE  /\ Covered(sel) \in [lo : Nat, hi : Nat]
           /\ Covered(sel).lo \in Nat
  BY DEF Covered, Lesser, Greater

(* With no dialog up, a step that leaves the bytes alone. *)
LEMMA QuietKeeps ==
    ASSUME FindInv, dialog = << >>, dialog' = << >>, UNCHANGED bufferVars,
           selection' \in Selections, BarOK(bar', found_in'), AckOK(bar', agreed')
    PROVE  FindInv'
  BY DEF FindInv, BufferTyped, DialogUp, bufferVars

LEMMA OpenBarKeeps ==
    ASSUME FindInv, dialog = << >>, OpenBar
    PROVE  FindInv'
  <1>1. bar \in Bars /\ selection \in Selections
    BY DEF FindInv, BarOK
  <1>2. PICK scope \in Scopes : bar' = refresh_pattern([bar EXCEPT !.scope = scope])
    <2>1. CASE selection # << >> /\ selection[1] # selection[2]
      <3>1. Covered(selection) \in [lo : Nat, hi : Nat]
        BY <1>1, <2>1, CoveredIs DEF Selections
      <3>2. bar' = refresh_pattern([bar EXCEPT !.scope = Covered(selection)])
        BY <2>1 DEF OpenBar
      <3> QED BY <3>1, <3>2 DEF Scopes
    <2>2. CASE ~ (selection # << >> /\ selection[1] # selection[2])
      <3>1. bar' = refresh_pattern([bar EXCEPT !.scope = File])
        BY <2>2 DEF OpenBar
      <3> QED BY <3>1 DEF Scopes
    <2> QED BY <2>1, <2>2
  <1>3. /\ bar' \in Bars /\ bar'.matches = << >> /\ bar'.active_idx = 0 /\ ~ bar'.acked
    <2>1. PICK b \in Bars : b = bar
      BY <1>1
    <2>2. b.pattern \in Texts /\ b.replace_pattern \in Texts
      BY DEF Bars
    <2>3. PICK ack \in BOOLEAN : ack = FALSE
      OBVIOUS
    <2>4. bar' = Cleared(b, b.pattern, b.replace_pattern, scope, ack)
      BY <1>2, <2>1, <2>3 DEF refresh_pattern, Bars, Cleared
    <2>5. /\ bar' \in Bars /\ bar'.matches = << >> /\ bar'.active_idx = 0 /\ bar'.acked = ack
      BY <2>2, <2>4, ClearedIs
    <2> QED BY <2>3, <2>5, Zenon
  <1>4. found_in' = << >> /\ << >> \in Texts /\ Len(<< >>) = 0
    BY DEF OpenBar, Texts
  <1>5. BarOK(bar', found_in') /\ AckOK(bar', agreed')
    BY <1>3, <1>4 DEF BarOK, AckOK
  <1> QED BY <1>1, <1>5, QuietKeeps DEF OpenBar

LEMMA ClearScopeKeeps ==
    ASSUME FindInv, dialog = << >>, clear_scope
    PROVE  FindInv'
  <1>1. bar \in Bars /\ present \in Texts /\ AckOK(bar, agreed)
    BY DEF FindInv, BarOK, BufferTyped
  <1>2. PICK b : b = [bar EXCEPT !.scope = File, !.matches = << >>, !.active_idx = 0]
    OBVIOUS
  <1>3. /\ b \in Bars /\ b.matches = << >> /\ b.active_idx = 0
        /\ b.acked = bar.acked /\ b.pattern = bar.pattern
        /\ b.replace_pattern = bar.replace_pattern
    <2>1. PICK a \in Bars : a = bar
      BY <1>1
    <2>2. a.pattern \in Texts /\ a.replace_pattern \in Texts /\ a.acked \in BOOLEAN
      BY DEF Bars
    <2>3. b = Cleared(a, a.pattern, a.replace_pattern, File, a.acked)
      BY <1>2, <2>1 DEF Bars, Cleared
    <2>4. File \in Scopes
      BY DEF Scopes
    <2> QED BY <2>1, <2>2, <2>3, <2>4, ClearedIs
  <1>4. PICK bytes \in Texts, caret \in {current_caret} : bytes = present /\ caret = current_caret
    BY <1>1
  <1>5. Installed(b, bytes, caret, bar', found_in')
    BY <1>2, <1>4 DEF clear_scope, Shown, Installed
  <1>6. BarOK(bar', found_in') /\ SameQuery(bar', b)
    BY <1>3, <1>5, InstalledIs
  <1>7. AckOK(bar', agreed')
    BY <1>1, <1>3, <1>6 DEF AckOK, SameQuery, clear_scope
  <1>8. selection' \in Selections
    BY DEF FindInv, clear_scope
  <1> QED BY <1>6, <1>7, <1>8, QuietKeeps DEF clear_scope

LEMMA PatternsAre == Patterns \cup {<< >>} \subseteq Texts
  <1>1. << >> \in Texts
    BY DEF Texts
  <1> QED BY <1>1, PatternsAssumption DEF Texts

LEMMA RequeryKeeps ==
    ASSUME FindInv, dialog = << >>, Requery
    PROVE  FindInv'
  <1>1. bar \in Bars /\ present \in Texts
    BY DEF FindInv, BarOK, BufferTyped
  <1>2. PICK p \in Patterns \cup {<< >>}, r \in Patterns \cup {<< >>} :
           Shown(refresh_pattern([bar EXCEPT !.pattern = p, !.replace_pattern = r]),
                 present, current_caret)
    BY DEF Requery
  <1>3. p \in Texts /\ r \in Texts
    BY PatternsAre
  <1>4. PICK b : b = refresh_pattern([bar EXCEPT !.pattern = p, !.replace_pattern = r])
    OBVIOUS
  <1>5. b \in Bars /\ b.matches = << >> /\ b.active_idx = 0 /\ ~ b.acked
    <2>1. PICK a \in Bars : a = bar
      BY <1>1
    <2>2. a.scope \in Scopes
      BY DEF Bars
    <2>3. PICK ack \in BOOLEAN : ack = FALSE
      OBVIOUS
    <2>4. b = Cleared(a, p, r, a.scope, ack)
      BY <1>4, <2>1, <2>3 DEF Bars, refresh_pattern, Cleared
    <2>5. /\ b \in Bars /\ b.matches = << >> /\ b.active_idx = 0 /\ b.acked = ack
      BY <1>3, <2>2, <2>4, ClearedIs
    <2> QED BY <2>3, <2>5, Zenon
  <1>6. PICK bytes \in Texts, caret \in {current_caret} : bytes = present /\ caret = current_caret
    BY <1>1
  <1>7. Installed(b, bytes, caret, bar', found_in')
    BY <1>2, <1>4, <1>6 DEF Shown, Installed
  <1>8. BarOK(bar', found_in') /\ SameQuery(bar', b)
    BY <1>5, <1>7, InstalledIs
  <1>9. AckOK(bar', agreed')
    BY <1>5, <1>8 DEF AckOK, SameQuery
  <1>10. selection' \in Selections
    BY DEF FindInv, Requery
  <1> QED BY <1>8, <1>9, <1>10, QuietKeeps DEF Requery

LEMMA ReplaceEventKeeps ==
    ASSUME FindInv, dialog = << >>, on_replace_event
    PROVE  FindInv'
  <1>1. bar \in Bars /\ BarOK(bar, found_in)
    BY DEF FindInv, BarOK
  <1>2. PICK r \in Patterns \cup {<< >>} : bar' = [bar EXCEPT !.replace_pattern = r, !.acked = FALSE]
    BY DEF on_replace_event
  <1>3. r \in Texts
    BY PatternsAre
  <1>4. /\ bar' \in Bars /\ ~ bar'.acked /\ bar'.matches = bar.matches
        /\ bar'.active_idx = bar.active_idx
        /\ bar'.pattern = bar.pattern /\ bar'.scope = bar.scope
    BY <1>1, <1>2, <1>3 DEF Bars
  <1>5. found_in' = found_in
    BY DEF on_replace_event
  <1>6. BarOK(bar', found_in') /\ AckOK(bar', agreed')
    BY <1>1, <1>4, <1>5 DEF BarOK, AckOK
  <1>7. selection' \in Selections
    BY DEF FindInv, on_replace_event
  <1> QED BY <1>6, <1>7, QuietKeeps DEF on_replace_event

(* What next and previous find are offsets. *)
LEMMA HitsAre ==
    ASSUME NEW p \in Needles, NEW scope \in Scopes, NEW bytes \in Texts, NEW from \in Nat,
           NEW bounds, bounds = BoundsIn(scope, Len(bytes))
    PROVE  /\ NextIsNearest(bytes, p, from, bounds) /\ PrevIsNearest(bytes, p, from, bounds)
           /\ \A h \in find_next(bytes, p, from, TRUE, bounds) : h.offset \in Nat
           /\ \A h \in find_prev(bytes, p, from, TRUE, bounds) : h.offset \in Nat
  <1>1. PICK lo \in Nat, hi \in Nat : Clipped(bytes, bounds, lo, hi)
    BY BoundsAre
  <1>2. PICK all : all = Inside(bytes, p, bounds)
    OBVIOUS
  <1>3. all \in SUBSET Nat
    <2>1. all = Between(bytes, p, lo, hi)
      BY <1>1, <1>2, InsideIs
    <2>2. Len(p) \in Nat
      BY DEF Needles, Texts
    <2> QED BY <2>1, <2>2 DEF Between
  <1>4. NextIsNearest(bytes, p, from, bounds)
    BY <1>1, NextFinds
  <1>5. PrevIsNearest(bytes, p, from, bounds)
    BY <1>1, PrevFinds
  <1>6. ASSUME NEW S \in SUBSET Nat, NEW w
        PROVE  /\ \A h \in MatchHit(Lowest(S), w) : h.offset \in Nat
               /\ \A h \in MatchHit(Highest(S), w) : h.offset \in Nat
    BY DEF MatchHit, Lowest, Highest
  <1>7. PICK ahead \in SUBSET Nat : ahead = {o \in all : o >= from}
    BY <1>3
  <1>8. PICK behind \in SUBSET Nat : behind = {o \in all : o + Len(p) <= from}
    BY <1>3
  <1>9. find_next(bytes, p, from, TRUE, bounds)
          = IF ahead # {} THEN MatchHit(Lowest(ahead), FALSE) ELSE MatchHit(Lowest(all), TRUE)
    BY <1>2, <1>4, <1>7 DEF NextIsNearest
  <1>10. find_prev(bytes, p, from, TRUE, bounds)
          = IF behind # {} THEN MatchHit(Highest(behind), FALSE) ELSE MatchHit(Highest(all), TRUE)
    BY <1>2, <1>5, <1>8 DEF PrevIsNearest
  <1>11. \A h \in find_next(bytes, p, from, TRUE, bounds) : h.offset \in Nat
    BY <1>3, <1>6, <1>9
  <1>12. \A h \in find_prev(bytes, p, from, TRUE, bounds) : h.offset \in Nat
    BY <1>3, <1>6, <1>10
  <1> QED BY <1>4, <1>5, <1>11, <1>12

LEMMA ActiveIs ==
    ASSUME NEW b \in Bars, b.active_idx \in 0 .. Len(b.matches), NEW off
    PROVE  ActiveAt(b, off) \in 0 .. Len(b.matches)
  <1>1. PICK n \in Nat : n = Len(b.matches)
    BY DEF Bars
  <1>2. PICK here : here = {k \in 1 .. n : b.matches[k] = off}
    OBVIOUS
  <1>3. PICK c : c = (CHOOSE k \in here : TRUE)
    OBVIOUS
  <1>4. ActiveAt(b, off) = IF here = {} THEN b.active_idx ELSE c
    BY <1>1, <1>2, <1>3 DEF ActiveAt
  <1>5. here # {} => c \in here
    BY <1>3
  <1>6. here # {} => c \in 0 .. n
    <2>1. \A k \in 1 .. n : k \in 0 .. n
      OBVIOUS
    <2> QED BY <1>2, <1>5, <2>1
  <1> QED BY <1>1, <1>4, <1>6

LEMMA JumpedIs ==
    ASSUME NEW off \in Nat, bar.pattern \in Needles
    PROVE  Jumped(off) \in Selections
  <1>1. PICK n \in Nat : n = Len(bar.pattern) /\ n > 0
    BY DEF Needles, Texts
  <1>2. off + n - 1 \in Nat
    BY <1>1
  <1> QED BY <1>1, <1>2 DEF Jumped, Selections

LEMMA JumpKeeps ==
    ASSUME FindInv, dialog = << >>, NEW hits, \A h \in hits : h.offset \in Nat, JumpTo(hits)
    PROVE  FindInv'
  <1>1. BarOK(bar, found_in) /\ bar \in Bars /\ AckOK(bar, agreed)
    BY DEF FindInv, BarOK
  <1>2. PICK off \in Nat : /\ selection' = Jumped(off)
                           /\ bar' = [bar EXCEPT !.active_idx = ActiveAt(bar, off)]
    BY DEF JumpTo
  <1>3. bar.pattern \in Needles
    BY <1>1, NeedleIs DEF JumpTo, Bars
  <1>4. selection' \in Selections
    BY <1>2, <1>3, JumpedIs
  <1>5. PICK b \in Bars : b = bar
    BY <1>1
  <1>6. PICK idx : idx = ActiveAt(b, off) /\ idx \in 0 .. Len(b.matches) /\ idx \in Nat
    <2>1. ActiveAt(b, off) \in 0 .. Len(b.matches)
      BY <1>1, <1>5, ActiveIs DEF BarOK
    <2> QED BY <2>1
  <1>7. bar' = [b EXCEPT !.active_idx = idx]
    BY <1>2, <1>5, <1>6
  <1>8. /\ bar' \in Bars /\ bar'.active_idx = idx /\ bar'.matches = b.matches
        /\ bar'.pattern = b.pattern /\ bar'.scope = b.scope
        /\ bar'.replace_pattern = b.replace_pattern /\ bar'.acked = b.acked
    BY <1>6, <1>7 DEF Bars
  <1>9. found_in' = found_in /\ agreed' = agreed
    BY DEF JumpTo
  <1>10. BarOK(bar', found_in')
    BY <1>1, <1>5, <1>6, <1>8, <1>9 DEF BarOK
  <1>11. AckOK(bar', agreed')
    BY <1>1, <1>5, <1>8, <1>9 DEF AckOK
  <1> QED BY <1>4, <1>10, <1>11, QuietKeeps DEF JumpTo

LEMMA MatchKeeps ==
    ASSUME FindInv, dialog = << >>, next_match \/ prev_match
    PROVE  FindInv'
  <1>1. bar \in Bars /\ present \in Texts /\ current_caret \in Nat
    BY CaretIs DEF FindInv, BarOK, BufferTyped
  <1>2. bar.pattern \in Needles /\ bar.scope \in Scopes
    <2>1. bar.pattern # << >>
      BY DEF next_match, prev_match, JumpTo
    <2> QED BY <1>1, <2>1, NeedleIs DEF Bars
  <1>3. PICK p \in Needles, scope \in Scopes, bytes \in Texts, from \in Nat :
           p = bar.pattern /\ scope = bar.scope /\ bytes = present /\ from = current_caret
    BY <1>1, <1>2
  <1>4. PICK bounds : bounds = BoundsIn(scope, Len(bytes))
    OBVIOUS
  <1>5. Bounds(bar.scope) = bounds
    BY <1>3, <1>4 DEF Bounds, BoundsIn
  <1>6. CASE next_match
    <2>1. PICK hits : hits = find_next(bytes, p, from + 1, TRUE, bounds)
      OBVIOUS
    <2>2. \A h \in hits : h.offset \in Nat
      <3>1. from + 1 \in Nat
        OBVIOUS
      <3> QED BY <1>4, <2>1, <3>1, HitsAre
    <2>3. JumpTo(hits)
      BY <1>3, <1>5, <1>6, <2>1 DEF next_match
    <2> QED BY <2>2, <2>3, JumpKeeps
  <1>7. CASE prev_match
    <2>1. PICK hits : hits = find_prev(bytes, p, from, TRUE, bounds)
      OBVIOUS
    <2>2. \A h \in hits : h.offset \in Nat
      BY <1>4, <2>1, HitsAre
    <2>3. JumpTo(hits)
      BY <1>3, <1>5, <1>7, <2>1 DEF prev_match
    <2> QED BY <2>2, <2>3, JumpKeeps
  <1> QED BY <1>6, <1>7

LEMMA AllResultsKeeps ==
    ASSUME FindInv, dialog = << >>, set_all_results
    PROVE  FindInv'
  <1>1. /\ BarOK(bar, found_in) /\ bar \in Bars /\ AckOK(bar, agreed) /\ present \in Texts
        /\ selection \in Selections
    BY DEF FindInv, BarOK, BufferTyped
  <1>2. agreed' = agreed /\ dialog' = dialog /\ UNCHANGED bufferVars
    BY DEF set_all_results
  <1>3. PICK b \in Bars, bytes \in Texts, caret \in {current_caret} :
             b = bar /\ bytes = present /\ caret = current_caret
    BY <1>1
  <1>4. CASE bar.all_results
    <2>1. /\ bar' = [b EXCEPT !.all_results = FALSE, !.matches = << >>, !.active_idx = 0]
          /\ found_in' = << >> /\ selection' = selection
      BY <1>3, <1>4 DEF set_all_results
    <2>2. << >> \in Seq(Nat) /\ 0 \in Nat /\ << >> \in Texts /\ Len(<< >>) = 0
      BY DEF Texts
    <2>3. /\ bar' \in Bars /\ bar'.matches = << >> /\ bar'.active_idx = 0
          /\ bar'.pattern = b.pattern /\ bar'.replace_pattern = b.replace_pattern
          /\ bar'.acked = b.acked
      BY <2>1, <2>2 DEF Bars
    <2>4. BarOK(bar', found_in')
      BY <2>1, <2>2, <2>3 DEF BarOK
    <2>5. AckOK(bar', agreed')
      BY <1>1, <1>2, <1>3, <2>3 DEF AckOK
    <2> QED BY <1>1, <1>2, <2>1, <2>4, <2>5, QuietKeeps
  <1>5. CASE ~ bar.all_results
    <2>1. PICK r : r = recompute_all_results(b, bytes, caret)
      OBVIOUS
    <2>2. /\ BarOK(r, bytes) /\ SameQuery(r, b) /\ r \in Bars
          /\ r.matches = ListFor(b.pattern, b.scope, bytes)
      BY <2>1, RecomputeIs DEF BarOK
    <2>3. PICK c : c = [r EXCEPT !.all_results = TRUE]
      OBVIOUS
    <2>4. /\ c \in Bars /\ c.matches = r.matches /\ c.active_idx = r.active_idx
          /\ c.pattern = r.pattern /\ c.scope = r.scope
          /\ c.replace_pattern = r.replace_pattern /\ c.acked = r.acked
      BY <2>2, <2>3 DEF Bars
    <2>5. /\ bar' = c /\ found_in' = bytes
          /\ selection' = IF c.active_idx > 0 THEN Jumped(c.matches[c.active_idx]) ELSE selection
      BY <1>3, <1>5, <2>1, <2>3 DEF set_all_results
    <2>6. BarOK(bar', found_in')
      BY <2>2, <2>4, <2>5 DEF BarOK
    <2>7. AckOK(bar', agreed')
      BY <1>1, <1>2, <1>3, <2>2, <2>4, <2>5 DEF AckOK, SameQuery
    <2>8. selection' \in Selections
      <3>1. CASE c.active_idx > 0
        <4>1. c.matches \in Seq(Nat) /\ c.active_idx \in 1 .. Len(c.matches)
          BY <2>2, <2>4, <3>1 DEF BarOK, Bars
        <4>2. c.matches[c.active_idx] \in Nat /\ c.matches # << >>
          BY <4>1
        <4>3. b.pattern # << >>
          BY <2>2, <2>4, <4>2 DEF ListFor
        <4>4. bar.pattern \in Needles
          BY <1>3, <4>3, NeedleIs DEF Bars
        <4>5. Jumped(c.matches[c.active_idx]) \in Selections
          BY <4>2, <4>4, JumpedIs
        <4> QED BY <2>5, <3>1, <4>5
      <3>2. CASE ~ (c.active_idx > 0)
        BY <1>1, <2>5, <3>2
      <3> QED BY <3>1, <3>2
    <2> QED BY <1>2, <2>6, <2>7, <2>8, QuietKeeps
  <1> QED BY <1>4, <1>5

LEMMA SelectKeeps ==
    ASSUME FindInv, dialog = << >>, SelectBytes
    PROVE  FindInv'
  <1>1. present \in Texts /\ BarOK(bar, found_in) /\ AckOK(bar, agreed)
    BY DEF FindInv, BufferTyped
  <1>2. PICK n \in Nat : n = Len(present)
    BY <1>1 DEF Texts
  <1>3. PICK a \in 0 .. n - 1, c \in 0 .. n - 1 : selection' = <<a, c>>
    BY <1>2 DEF SelectBytes
  <1>4. a \in Nat /\ c \in Nat
    BY <1>3
  <1>5. selection' \in Selections
    BY <1>3, <1>4 DEF Selections
  <1>6. bar' = bar /\ found_in' = found_in /\ agreed' = agreed /\ dialog' = dialog
    BY DEF SelectBytes
  <1> QED BY <1>1, <1>5, <1>6, QuietKeeps DEF SelectBytes

(* Replacing.  A replacement that may go in: its length needs no agreement, *)
(* or has it.                                                              *)
Allowed == Len(bar.pattern) = Len(bar.replace_pattern)
           \/ agreed' = <<bar.pattern, bar.replace_pattern>>

LEMMA ReplacedKeeps ==
    ASSUME FindInv, Allowed, BufferTyped', dialog' = << >>, NEW sel \in Selections, Replaced(sel)
    PROVE  FindInv'
  <1>1. bar \in Bars /\ present' \in Texts
    BY DEF FindInv, BarOK, BufferTyped
  <1>2. PICK a \in Bars, bytes \in Texts : a = bar /\ bytes = present'
    BY <1>1
  <1>3. PICK ack \in BOOLEAN, b \in {[refresh_pattern(a) EXCEPT !.acked = TRUE]} :
             ack = TRUE /\ b = [refresh_pattern(a) EXCEPT !.acked = ack]
    OBVIOUS
  <1>4. a.pattern \in Texts /\ a.replace_pattern \in Texts /\ a.scope \in Scopes
    BY DEF Bars
  <1>5. b = Cleared(a, a.pattern, a.replace_pattern, a.scope, ack)
    BY <1>3 DEF Bars, refresh_pattern, Cleared
  <1>6. /\ b \in Bars /\ b.matches = << >> /\ b.active_idx = 0
        /\ b.pattern = a.pattern /\ b.replace_pattern = a.replace_pattern
    BY <1>4, <1>5, ClearedIs
  <1>7. PICK caret : caret = IF sel = << >> THEN 0 ELSE sel[2]
    OBVIOUS
  <1>8. Installed(b, bytes, caret, bar', found_in')
    BY <1>2, <1>3, <1>7 DEF Replaced, Shown, Installed
  <1>9. BarOK(bar', found_in') /\ SameQuery(bar', b)
    BY <1>6, <1>8, InstalledIs
  <1>10. AckOK(bar', agreed')
    BY <1>2, <1>6, <1>9 DEF AckOK, SameQuery, Allowed
  <1>11. selection' \in Selections
    BY DEF Replaced
  <1>12. DialogUp'
    BY DEF DialogUp
  <1> QED BY <1>9, <1>10, <1>11, <1>12 DEF FindInv

LEMMA RefusedKeeps ==
    ASSUME FindInv, Allowed, dialog' = << >>, NEW ack \in BOOLEAN, Refused(ack)
    PROVE  FindInv'
  <1>1. bar \in Bars /\ BarOK(bar, found_in) /\ BufferTyped /\ selection \in Selections
    BY DEF FindInv, BarOK
  <1>2. PICK b \in Bars : b = bar
    BY <1>1
  <1>3. bar' = [b EXCEPT !.acked = ack]
    BY <1>2 DEF Refused
  <1>4. /\ bar' \in Bars /\ bar'.matches = b.matches /\ bar'.active_idx = b.active_idx
        /\ bar'.pattern = b.pattern /\ bar'.scope = b.scope
        /\ bar'.replace_pattern = b.replace_pattern
    BY <1>3 DEF Bars
  <1>5. found_in' = found_in /\ selection' = selection /\ UNCHANGED bufferVars
    BY DEF Refused
  <1>6. BarOK(bar', found_in')
    BY <1>1, <1>2, <1>4, <1>5 DEF BarOK
  <1>7. AckOK(bar', agreed')
    BY <1>2, <1>4 DEF AckOK, Allowed
  <1>8. BufferTyped' /\ selection' \in Selections
    BY <1>1, <1>5 DEF BufferTyped, bufferVars
  <1>9. DialogUp'
    BY DEF DialogUp
  <1> QED BY <1>6, <1>7, <1>8, <1>9 DEF FindInv

LEMMA JoinsAre == JoinChoices \subseteq BOOLEAN
  BY DEF JoinChoices

LEMMA ReplaceCurrentKeeps ==
    ASSUME FindInv, Allowed, NEW offset \in Nat, NEW ack \in BOOLEAN,
           perform_replace_current(offset, ack)
    PROVE  /\ dialog' = << >> => FindInv'
           /\ Len(present') # Len(present) => Len(bar.pattern) # Len(bar.replace_pattern)
  <1>1. /\ bar.pattern \in Texts /\ bar.replace_pattern \in Texts /\ present \in Texts
        /\ BufferTyped
    BY DEF FindInv, BarOK, BufferTyped, Bars
  <1>2. PICK p \in Texts, r \in Texts, bytes \in Texts :
           p = bar.pattern /\ r = bar.replace_pattern /\ bytes = present
    BY <1>1
  <1>3. PICK m \in Nat, n \in Nat : m = Len(p) /\ n = Len(r)
    BY DEF Texts
  <1>4. CASE offset + m > Len(bytes)
    <2>1. Refused(ack)
      BY <1>2, <1>3, <1>4 DEF perform_replace_current
    <2>2. present' = present
      BY <2>1 DEF Refused, bufferVars
    <2> QED BY <2>1, <2>2, RefusedKeeps
  <1>5. CASE ~ (offset + m > Len(bytes))
    <2>1. PICK joins \in JoinChoices : Edit(offset, m, r, joins)
      BY <1>2, <1>3, <1>5 DEF perform_replace_current
    <2>2. joins \in BOOLEAN
      BY JoinsAre
    <2>3. PICK after : after = Splice(bytes, offset, m, r)
      OBVIOUS
    <2>4. after \in Texts /\ Len(after) = Len(bytes) - m + n
      <3>1. Len(bytes) \in Nat
        BY DEF Texts
      <3>2. offset + m <= Len(bytes)
        BY <1>5, <3>1
      <3> QED BY <1>3, <2>3, <3>2, SpliceIs
    <2>5. Change(after, joins)
      BY <1>2, <2>1, <2>3 DEF Edit
    <2>6. BufferTyped' /\ present' = after
      BY <1>1, <2>2, <2>4, <2>5, ChangeKeeps DEF Change
    <2>7. PICK sel : sel = <<offset + n, offset + n>>
      OBVIOUS
    <2>8. sel \in Selections
      BY <2>7 DEF Selections
    <2>9. Replaced(sel)
      BY <1>2, <1>3, <1>5, <2>7 DEF perform_replace_current
    <2>10. dialog' = << >> => FindInv'
      BY <2>6, <2>8, <2>9, ReplacedKeeps
    <2>11. Len(present') # Len(present) => m # n
      <3>1. Len(bytes) \in Nat
        BY DEF Texts
      <3> QED BY <1>2, <2>4, <2>6, <3>1
    <2> QED BY <1>2, <1>3, <2>10, <2>11
  <1> QED BY <1>4, <1>5

(* Where perform_replace_all takes its batch, and what it does then. *)
LEMMA ReplaceAllDoes ==
    ASSUME FindInv, NEW offs \in Seq(Nat), NEW m \in Nat, NEW ack \in BOOLEAN,
           perform_replace_all(offs, m, ack)
    PROVE  IF Fit(offs, m, present)
           THEN /\ \E joins \in BOOLEAN :
                      Change(Batch(present, OpsAt(offs, m, bar.replace_pattern)), joins)
                /\ Replaced(selection)
           ELSE Refused(ack)
  <1>1. bar.replace_pattern \in Texts
    BY DEF FindInv, BarOK, Bars
  <1>2. PICK r \in Texts, ops \in {OpsAt(offs, m, bar.replace_pattern)} :
             r = bar.replace_pattern /\ ops = OpsAt(offs, m, r)
    BY <1>1
  <1>3. PICK n \in Nat : n = Len(offs)
    OBVIOUS
  <1>4. /\ Len(ops) = n
        /\ \A k \in 1 .. n : ops[k].offset = offs[k] /\ ops[k].remove = m
    BY <1>2, <1>3, OpsAre
  <1> DEFINE fits == /\ \A k \in 1 .. Len(ops) : ops[k].offset + ops[k].remove <= Len(present)
                     /\ \A k \in 2 .. Len(ops) :
                           ops[k].offset >= ops[k - 1].offset + ops[k - 1].remove
  <1>5. fits <=> Fit(offs, m, present)
    <2>1. (\A k \in 1 .. Len(ops) : ops[k].offset + ops[k].remove <= Len(present))
            <=> (\A k \in 1 .. n : offs[k] + m <= Len(present))
      BY <1>4
    <2>2. \A k \in 2 .. n : k \in 1 .. n /\ k - 1 \in 1 .. n
      OBVIOUS
    <2>3. (\A k \in 2 .. Len(ops) : ops[k].offset >= ops[k - 1].offset + ops[k - 1].remove)
            <=> (\A k \in 2 .. n : offs[k] >= offs[k - 1] + m)
      BY <1>4, <2>2
    <2> QED BY <1>3, <2>1, <2>3 DEF Fit
  <1>6. IF fits THEN (\E joins \in JoinChoices : EditBatch(ops, joins)) /\ Replaced(selection)
        ELSE Refused(ack)
    <2>1. ops = [k \in 1 .. Len(offs) |-> [offset |-> offs[k], remove |-> m,
                                           insert |-> bar.replace_pattern]]
      BY <1>2 DEF OpsAt
    <2> QED BY <2>1 DEF perform_replace_all
  <1> HIDE DEF fits
  <1>7. CASE fits
    <2>1. PICK joins \in JoinChoices : EditBatch(ops, joins)
      BY <1>6, <1>7
    <2>2. joins \in BOOLEAN /\ Change(Batch(present, ops), joins)
      BY <2>1, JoinsAre DEF EditBatch
    <2>3. Change(Batch(present, OpsAt(offs, m, bar.replace_pattern)), joins)
      BY <1>2, <2>2
    <2> QED BY <1>5, <1>6, <1>7, <2>2, <2>3
  <1>8. CASE ~ fits
    BY <1>5, <1>6, <1>8
  <1> QED BY <1>7, <1>8

LEMMA ReplaceAllKeeps ==
    ASSUME FindInv, Allowed, NEW offs \in Seq(Nat), NEW ack \in BOOLEAN,
           NEW m \in Nat, m = Len(bar.pattern), perform_replace_all(offs, m, ack)
    PROVE  /\ dialog' = << >> => FindInv'
           /\ Len(present') # Len(present) => Len(bar.pattern) # Len(bar.replace_pattern)
  <1>1. /\ bar.replace_pattern \in Texts /\ present \in Texts /\ BufferTyped
        /\ selection \in Selections
    BY DEF FindInv, BarOK, BufferTyped, Bars
  <1>2. PICK r \in Texts, bytes \in Texts, sel \in Selections :
           r = bar.replace_pattern /\ bytes = present /\ sel = selection
    BY <1>1
  <1>3. CASE ~ Fit(offs, m, bytes)
    <2>1. Refused(ack)
      BY <1>2, <1>3, ReplaceAllDoes
    <2>2. present' = present
      BY <2>1 DEF Refused, bufferVars
    <2> QED BY <2>1, <2>2, RefusedKeeps
  <1>4. CASE Fit(offs, m, bytes)
    <2>1. PICK after : after = Batch(bytes, OpsAt(offs, m, r))
      OBVIOUS
    <2>2. after \in Texts /\ (m = Len(r) => Len(after) = Len(bytes))
      BY <1>4, <2>1, BatchIs
    <2>3. PICK joins \in BOOLEAN : Change(after, joins) /\ Replaced(selection)
      BY <1>2, <1>4, <2>1, ReplaceAllDoes
    <2>4. BufferTyped' /\ present' = after
      BY <1>1, <2>2, <2>3, ChangeKeeps DEF Change
    <2>5. Replaced(sel)
      BY <1>2, <2>3
    <2>6. dialog' = << >> => FindInv'
      BY <2>4, <2>5, ReplacedKeeps
    <2> QED BY <1>2, <2>2, <2>4, <2>6
  <1> QED BY <1>3, <1>4

(* The lengths differ only where the user agreed. *)
Agreed == Len(present') # Len(present) => agreed' = <<bar.pattern, bar.replace_pattern>>

LEMMA QueueCurrentKeeps ==
    ASSUME FindInv, queue_replace_current
    PROVE  (dialog = << >> => FindInv') /\ Agreed
  <1>1. /\ bar \in Bars /\ present \in Texts /\ BufferTyped /\ AckOK(bar, agreed)
        /\ BarOK(bar, found_in) /\ selection \in Selections
    BY DEF FindInv, BarOK, BufferTyped
  <1>2. agreed' = agreed /\ bar.pattern # << >> /\ selection # << >>
    BY DEF queue_replace_current, BothSet
  <1>3. PICK offset \in Nat : offset = Covered(selection).lo
    BY <1>1, <1>2, CoveredIs DEF Selections
  <1>4. bar.pattern \in Needles
    BY <1>1, <1>2, NeedleIs DEF Bars
  <1>5. CASE Resizes /\ ~ bar.acked
    <2>1. /\ dialog' = <<Dialog("resize current", <<offset>>)>>
          /\ UNCHANGED <<bar, selection, found_in, bufferVars>>
      BY <1>3, <1>5 DEF queue_replace_current
    <2>2. PICK d : d = Dialog("resize current", <<offset>>)
      OBVIOUS
    <2>3. /\ d.kind = "resize current" /\ d.offsets = <<offset>>
          /\ d.find_len = Len(bar.pattern) /\ d.bytes = present
          /\ d = [kind |-> d.kind, offsets |-> d.offsets, find_len |-> d.find_len, bytes |-> d.bytes]
      BY <2>2 DEF Dialog
    <2>4. <<offset>> \in Seq(Nat) /\ Len(<<offset>>) = 1
      OBVIOUS
    <2>5. DialogOK(d, bar)
      BY <1>1, <1>4, <2>3, <2>4 DEF DialogOK
    <2>6. dialog' = <<d>> /\ dialog'[1] = d /\ bar' = bar
      BY <2>1, <2>2
    <2>7. DialogUp'
      BY <2>5, <2>6 DEF DialogUp
    <2>8. BufferTyped' /\ Len(present') = Len(present)
      BY <1>1, <2>1 DEF BufferTyped, bufferVars
    <2>9. BarOK(bar', found_in') /\ AckOK(bar', agreed') /\ selection' \in Selections
      BY <1>1, <1>2, <2>1
    <2> QED BY <2>7, <2>8, <2>9 DEF FindInv, Agreed
  <1>6. CASE ~ (Resizes /\ ~ bar.acked)
    <2>1. perform_replace_current(offset, bar.acked) /\ dialog' = dialog
      BY <1>3, <1>6 DEF queue_replace_current
    <2>2. Allowed
      BY <1>1, <1>2, <1>6 DEF Resizes, AckOK, Allowed
    <2>3. PICK ack \in BOOLEAN : ack = bar.acked
      BY <1>1 DEF Bars
    <2>4. /\ dialog' = << >> => FindInv'
          /\ Len(present') # Len(present) => Len(bar.pattern) # Len(bar.replace_pattern)
      BY <2>1, <2>2, <2>3, ReplaceCurrentKeeps
    <2> QED BY <2>1, <2>2, <2>4 DEF Agreed, Allowed
  <1> QED BY <1>5, <1>6

LEMMA ContinueKeeps ==
    ASSUME FindInv, NEW d, DialogOK(d, bar), d.kind # "resize current", agreed' = agreed,
           continue_replace_all(d)
    PROVE  FindInv' /\ Agreed
  <1>1. /\ bar \in Bars /\ present \in Texts /\ BufferTyped /\ AckOK(bar, agreed)
        /\ BarOK(bar, found_in) /\ selection \in Selections
    BY DEF FindInv, BarOK, BufferTyped
  <1>2. PICK m \in Nat : m = d.find_len /\ m = Len(bar.pattern)
    <2>1. Len(bar.pattern) \in Nat
      <3>1. bar.pattern \in Texts
        BY <1>1 DEF Bars
      <3> QED BY <3>1, TextLength, Zenon
    <2> QED BY <2>1 DEF DialogOK
  <1>3. CASE d.find_len # Len(bar.replace_pattern) /\ ~ bar.acked
    <2>1. PICK e : e = [d EXCEPT !.kind = "resize all"]
      OBVIOUS
    <2>2. /\ dialog' = <<e>>
          /\ UNCHANGED <<bar, selection, found_in, bufferVars>>
      BY <1>3, <2>1 DEF continue_replace_all
    <2>3. /\ e.kind = "resize all" /\ e.offsets = d.offsets
          /\ e.find_len = d.find_len /\ e.bytes = d.bytes
          /\ e = [kind |-> e.kind, offsets |-> e.offsets, find_len |-> e.find_len, bytes |-> e.bytes]
      <3>1. d = [kind |-> d.kind, offsets |-> d.offsets, find_len |-> d.find_len, bytes |-> d.bytes]
        BY DEF DialogOK
      <3>2. e = [kind |-> "resize all", offsets |-> d.offsets, find_len |-> d.find_len,
                 bytes |-> d.bytes]
        BY <2>1, <3>1
      <3> QED BY <3>2
    <2>4. DialogOK(e, bar)
      BY <2>3 DEF DialogOK
    <2>5. dialog'[1] = e /\ bar' = bar
      BY <2>2
    <2>6. DialogUp'
      BY <2>2, <2>4, <2>5 DEF DialogUp
    <2>7. BufferTyped' /\ Len(present') = Len(present)
      BY <1>1, <2>2 DEF BufferTyped, bufferVars
    <2>8. BarOK(bar', found_in') /\ AckOK(bar', agreed') /\ selection' \in Selections
      BY <1>1, <2>2
    <2> QED BY <2>6, <2>7, <2>8 DEF FindInv, Agreed
  <1>4. CASE ~ (d.find_len # Len(bar.replace_pattern) /\ ~ bar.acked)
    <2>1. perform_replace_all(d.offsets, m, bar.acked) /\ dialog' = << >>
      BY <1>2, <1>4 DEF continue_replace_all
    <2>2. Allowed
      BY <1>1, <1>2, <1>4 DEF AckOK, Allowed
    <2>3. PICK ack \in BOOLEAN, offs \in Seq(Nat) : ack = bar.acked /\ offs = d.offsets
      BY <1>1 DEF Bars, DialogOK
    <2>4. perform_replace_all(offs, m, ack)
      BY <2>1, <2>3
    <2>5. /\ FindInv'
          /\ Len(present') # Len(present) => Len(bar.pattern) # Len(bar.replace_pattern)
      BY <1>2, <2>1, <2>2, <2>4, ReplaceAllKeeps
    <2> QED BY <2>2, <2>5 DEF Agreed, Allowed
  <1> QED BY <1>3, <1>4

LEMMA QueueAllKeeps ==
    ASSUME FindInv, queue_replace_all
    PROVE  FindInv' /\ Agreed
  <1>1. /\ bar \in Bars /\ present \in Texts /\ BufferTyped /\ AckOK(bar, agreed)
        /\ BarOK(bar, found_in) /\ selection \in Selections
    BY DEF FindInv, BarOK, BufferTyped
  <1>2. agreed' = agreed /\ bar.pattern # << >>
    BY DEF queue_replace_all, BothSet
  <1>3. bar.pattern \in Needles /\ bar.scope \in Scopes
    BY <1>1, <1>2, NeedleIs DEF Bars
  <1>4. PICK p \in Needles, scope \in Scopes, bytes \in Texts :
           p = bar.pattern /\ scope = bar.scope /\ bytes = present
    BY <1>1, <1>3
  <1>5. PICK bounds : bounds = BoundsIn(scope, Len(bytes)) /\ bounds = Bounds(bar.scope)
    BY <1>4 DEF BoundsIn, Bounds
  <1>6. PICK offs : offs = find_all(bytes, p, bounds)
    OBVIOUS
  <1>7. Lists(offs, Inside(bytes, p, bounds)) /\ offs \in Seq(Nat)
    <2>1. Lists(offs, Inside(bytes, p, bounds))
      BY <1>5, <1>6, FoundIs
    <2> QED BY <2>1 DEF Lists
  <1>8. PICK d : d = Dialog("confirm all", offs)
    OBVIOUS
  <1>9. /\ d.kind = "confirm all" /\ d.offsets = offs
        /\ d.find_len = Len(bar.pattern) /\ d.bytes = present
        /\ d = [kind |-> d.kind, offsets |-> d.offsets, find_len |-> d.find_len, bytes |-> d.bytes]
    BY <1>8 DEF Dialog
  <1>10. DialogOK(d, bar)
    BY <1>4, <1>5, <1>7, <1>9 DEF DialogOK
  <1>11. CASE Len(offs) > 1
    <2>1. /\ dialog' = <<d>>
          /\ UNCHANGED <<bar, selection, found_in, bufferVars>>
      BY <1>4, <1>5, <1>6, <1>8, <1>11 DEF queue_replace_all
    <2>2. dialog'[1] = d /\ bar' = bar
      BY <2>1
    <2>3. DialogUp'
      BY <1>10, <2>1, <2>2 DEF DialogUp
    <2>4. BufferTyped' /\ Len(present') = Len(present)
      BY <1>1, <2>1 DEF BufferTyped, bufferVars
    <2>5. BarOK(bar', found_in') /\ AckOK(bar', agreed') /\ selection' \in Selections
      BY <1>1, <1>2, <2>1
    <2> QED BY <2>3, <2>4, <2>5 DEF FindInv, Agreed
  <1>12. CASE ~ (Len(offs) > 1)
    <2>1. continue_replace_all(d)
      BY <1>4, <1>5, <1>6, <1>8, <1>12 DEF queue_replace_all
    <2> QED BY <1>2, <1>9, <1>10, <2>1, ContinueKeeps
  <1> QED BY <1>11, <1>12

LEMMA AnswerOkKeeps ==
    ASSUME FindInv, AnswerOk
    PROVE  FindInv' /\ Agreed
  <1>1. dialog # << >> /\ dialog = <<dialog[1]>> /\ DialogOK(dialog[1], bar)
    BY DEF FindInv, DialogUp, AnswerOk
  <1>2. PICK d : d = dialog[1] /\ DialogOK(d, bar)
    BY <1>1
  <1>3. PICK m \in Nat, offs \in Seq(Nat) : m = d.find_len /\ m = Len(bar.pattern) /\ offs = d.offsets
    <2>1. Len(bar.pattern) \in Nat
      <3>1. bar.pattern \in Needles
        BY <1>2 DEF DialogOK
      <3> QED BY <3>1 DEF Needles, Texts
    <2> QED BY <1>2, <2>1 DEF DialogOK
  <1>4. PICK ack \in BOOLEAN : ack = TRUE
    OBVIOUS
  <1>5. CASE /\ d.kind = "resize current"
             /\ agreed' = <<bar.pattern, bar.replace_pattern>>
             /\ perform_replace_current(d.offsets[1], TRUE)
             /\ dialog' = << >>
    <2>1. PICK offset \in Nat : offset = d.offsets[1]
      <3>1. Len(offs) = 1
        BY <1>2, <1>3, <1>5 DEF DialogOK
      <3> QED BY <1>3, <3>1
    <2>2. Allowed /\ perform_replace_current(offset, ack)
      BY <1>4, <1>5, <2>1 DEF Allowed
    <2>3. FindInv'
      BY <1>5, <2>2, ReplaceCurrentKeeps
    <2> QED BY <1>5, <2>3 DEF Agreed
  <1>6. CASE d.kind = "confirm all" /\ continue_replace_all(d) /\ agreed' = agreed
    <2>1. d.kind # "resize current"
      BY <1>6
    <2> QED BY <1>2, <1>6, <2>1, ContinueKeeps
  <1>7. CASE /\ d.kind = "resize all"
             /\ agreed' = <<bar.pattern, bar.replace_pattern>>
             /\ perform_replace_all(d.offsets, d.find_len, TRUE)
             /\ dialog' = << >>
    <2>1. Allowed /\ perform_replace_all(offs, m, ack)
      BY <1>3, <1>4, <1>7 DEF Allowed
    <2>2. FindInv'
      BY <1>3, <1>7, <2>1, ReplaceAllKeeps
    <2> QED BY <1>7, <2>2 DEF Agreed
  <1> QED BY <1>2, <1>5, <1>6, <1>7 DEF AnswerOk

LEMMA AnswerCancelKeeps ==
    ASSUME FindInv, AnswerCancel
    PROVE  FindInv'
  BY DEF FindInv, AnswerCancel, BufferTyped, DialogUp, bufferVars

LEMMA BarNextKeeps ==
    ASSUME FindInv, BarNext
    PROVE  FindInv'
  <1>1. CASE AnswerOk
    BY <1>1, AnswerOkKeeps
  <1>2. CASE AnswerCancel
    BY <1>2, AnswerCancelKeeps
  <1>3. CASE /\ dialog = << >>
             /\ \/ OpenBar \/ clear_scope \/ Requery \/ on_replace_event \/ set_all_results
                \/ next_match \/ prev_match \/ SelectBytes \/ Replaces
    BY <1>3, OpenBarKeeps, ClearScopeKeeps, RequeryKeeps, ReplaceEventKeeps, AllResultsKeeps,
       MatchKeeps, SelectKeeps, QueueCurrentKeeps, QueueAllKeeps DEF Replaces
  <1> QED BY <1>1, <1>2, <1>3 DEF BarNext

LEMMA ContentsAre ==
    ASSUME open \in DOMAIN Contents, NEW content \in Contents[open]
    PROVE  content \in Texts
  BY PanelsConstants DEF Texts

LEMMA FindInitially == PanelsInit => FindInv
  <1> SUFFICES ASSUME PanelsInit PROVE FindInv
    OBVIOUS
  <1>1. PICK content \in Contents[open] : Blank(content)
    BY DEF PanelsInit
  <1>2. content \in Texts /\ << >> \in Texts /\ << >> \in Seq(Texts) /\ << >> \in Seq(Nat)
    <2>1. content \in Texts
      BY ContentsAre DEF PanelsInit
    <2> QED BY <2>1 DEF Texts
  <1>3. BufferTyped
    BY <1>1, <1>2 DEF Blank, BufferTyped
  <1>4. /\ selection = << >> /\ dialog = << >> /\ found_in = << >>
    BY DEF PanelsInit, Queried, BarInit
  <1>5. PICK p \in Texts, scope \in Scopes :
           bar = [pattern |-> p, replace_pattern |-> << >>, all_results |-> FALSE,
                  matches |-> << >>, active_idx |-> 0, acked |-> FALSE, scope |-> scope]
    <2>1. CASE BarInit
      <3>1. File \in Scopes
        BY DEF Scopes
      <3> QED BY <1>2, <2>1, <3>1 DEF BarInit
    <2>2. CASE ~ BarInit
      <3>1. PICK p \in ScanPatterns, lo \in 0 .. Len(present), hi \in 0 .. Len(present) :
               bar = [pattern |-> p, replace_pattern |-> << >>, all_results |-> FALSE,
                      matches |-> << >>, active_idx |-> 0, acked |-> FALSE,
                      scope |-> [lo |-> lo, hi |-> hi]]
        BY <2>2 DEF PanelsInit, Queried
      <3>2. p \in Texts
        BY PanelsConstants DEF Texts
      <3>3. lo \in Nat /\ hi \in Nat
        OBVIOUS
      <3>4. [lo |-> lo, hi |-> hi] \in Scopes
        BY <3>3 DEF Scopes
      <3> QED BY <3>1, <3>2, <3>4
    <2> QED BY <2>1, <2>2
  <1>6. /\ bar \in Bars /\ bar.matches = << >> /\ bar.active_idx = 0 /\ ~ bar.acked
    BY <1>2, <1>5 DEF Bars
  <1>7. BarOK(bar, found_in)
    BY <1>2, <1>4, <1>6 DEF BarOK
  <1>8. AckOK(bar, agreed)
    BY <1>6 DEF AckOK
  <1> QED BY <1>3, <1>4, <1>7, <1>8 DEF FindInv, DialogUp, Selections

(* Steps of the tab and of the other panels. *)
LEMMA ElsewhereKeeps ==
    ASSUME FindInv, BufferTyped', UNCHANGED barVars
    PROVE  FindInv'
  <1>1. /\ bar' = bar /\ selection' = selection /\ dialog' = dialog /\ found_in' = found_in
        /\ agreed' = agreed
    BY DEF barVars
  <1> QED BY <1>1 DEF FindInv, DialogUp

LEMMA OpenStays ==
    ASSUME open \in DOMAIN Contents, [PanelsNext]_panelsVars
    PROVE  open' \in DOMAIN Contents
  BY DEF PanelsNext, EditTab, SaveTab, ReloadTab, TemplateStep, AnalysisStep, CompareStep,
         SearchStep, FindStep, StringsStep, RowsStep, boundVars, panelsVars

FindStepInv == FindInv /\ open \in DOMAIN Contents

LEMMA FindStepKeeps == FindStepInv /\ [PanelsNext]_panelsVars => FindStepInv'
  <1> SUFFICES ASSUME FindInv, open \in DOMAIN Contents, [PanelsNext]_panelsVars
               PROVE  FindInv'
    BY OpenStays DEF FindStepInv
  <1>1. BufferTyped /\ present \in Texts /\ saved \in Texts
    BY DEF FindInv, BufferTyped
  <1>2. CASE EditTab
    <2>1. UNCHANGED barVars
      BY <1>2 DEF EditTab
    <2>2. CASE \E content \in Contents[open], joins \in {FALSE, past # << >>} : Change(content, joins)
      <3>1. PICK content \in Contents[open], joins \in {FALSE, past # << >>} : Change(content, joins)
        BY <2>2
      <3>2. content \in Texts /\ joins \in BOOLEAN
        BY <3>1, ContentsAre
      <3>3. BufferTyped'
        BY <1>1, <3>1, <3>2, ChangeKeeps
      <3> QED BY <2>1, <3>3, ElsewhereKeeps
    <2>3. CASE GoBack \/ GoForward
      <3>1. BufferTyped'
        BY <1>1, <2>3, HistoryKeeps
      <3> QED BY <2>1, <3>1, ElsewhereKeeps
    <2>4. CASE Reset(saved)
      <3>1. PICK content \in Texts : content = saved /\ Reset(content)
        BY <1>1, <2>4
      <3>2. BufferTyped'
        BY <3>1, ResetKeeps
      <3> QED BY <2>1, <3>2, ElsewhereKeeps
    <2> QED BY <1>2, <2>2, <2>3, <2>4 DEF EditTab
  <1>3. CASE SaveTab
    <2>1. PICK content \in Texts : content = present /\ Reset(content)
      BY <1>1, <1>3 DEF SaveTab
    <2>2. BufferTyped'
      BY <2>1, ResetKeeps
    <2> QED BY <1>3, <2>2, ElsewhereKeeps DEF SaveTab
  <1>4. CASE ReloadTab
    <2>1. PICK content \in Contents[open] : Reset(content)
      BY <1>4 DEF ReloadTab
    <2>2. BufferTyped'
      BY <2>1, ContentsAre, ResetKeeps
    <2> QED BY <1>4, <2>2, ElsewhereKeeps DEF ReloadTab
  <1>5. CASE UNCHANGED bufferVars /\ UNCHANGED barVars
    <2>1. BufferTyped'
      BY <1>1, <1>5 DEF BufferTyped, bufferVars
    <2> QED BY <1>5, <2>1, ElsewhereKeeps
  <1>6. CASE TemplateStep
    <2>1. UNCHANGED bufferVars /\ UNCHANGED barVars
      BY <1>6 DEF TemplateStep, RunScript, RemoveInstance, RerunDue, Complete
    <2> QED BY <1>5, <2>1
  <1>7. CASE AnalysisStep
    <2>1. UNCHANGED bufferVars /\ UNCHANGED barVars
      BY <1>7 DEF AnalysisStep, on_run_clicked, toggle_algorithm, FinishRun
    <2> QED BY <1>5, <2>1
  <1>8. CASE CompareStep
    <2>1. UNCHANGED bufferVars /\ UNCHANGED barVars
      BY <1>8 DEF CompareStep, RecomputeDue, RecomputeNow, ApplyDiff
    <2> QED BY <1>5, <2>1
  <1>9. CASE SearchStep
    BY <1>5, <1>9 DEF SearchStep
  <1>10. CASE StringsStep
    BY <1>5, <1>10 DEF StringsStep
  <1>11. CASE RowsStep
    BY <1>5, <1>11 DEF RowsStep
  <1>12. CASE FindStep
    BY <1>12, BarNextKeeps DEF FindStep
  <1>13. CASE UNCHANGED panelsVars
    BY <1>5, <1>13 DEF panelsVars
  <1> QED BY <1>2, <1>3, <1>4, <1>6, <1>7, <1>8, <1>9, <1>10, <1>11, <1>12, <1>13 DEF PanelsNext

-----------------------------------------------------------------------------
LEMMA FindIsExactThen == FindInv => FindIsExact
  <1> SUFFICES ASSUME FindInv, bar.pattern # << >>
               PROVE  LET bounds == Bounds(bar.scope)
                      IN  /\ \A from \in 0 .. Len(present) + 1 :
                                /\ NextIsNearest(present, bar.pattern, from, bounds)
                                /\ PrevIsNearest(present, bar.pattern, from, bounds)
                          /\ AllAreFound(present, bar.pattern, bounds)
    BY DEF FindIsExact
  <1>1. bar \in Bars /\ present \in Texts
    BY DEF FindInv, BarOK, BufferTyped
  <1>2. bar.pattern \in Needles /\ bar.scope \in Scopes
    BY <1>1, NeedleIs DEF Bars
  <1>3. PICK p \in Needles, scope \in Scopes, bytes \in Texts :
           p = bar.pattern /\ scope = bar.scope /\ bytes = present
    BY <1>1, <1>2
  <1>4. PICK bounds : bounds = BoundsIn(scope, Len(bytes)) /\ bounds = Bounds(bar.scope)
    BY <1>3 DEF BoundsIn, Bounds
  <1>5. ASSUME NEW from \in 0 .. Len(bytes) + 1
        PROVE  NextIsNearest(bytes, p, from, bounds) /\ PrevIsNearest(bytes, p, from, bounds)
    <2>1. from \in Nat
      OBVIOUS
    <2> QED BY <1>4, <2>1, HitsAre
  <1>6. AllAreFound(bytes, p, bounds)
    <2>1. PICK list, all : list = find_all(bytes, p, bounds) /\ all = Inside(bytes, p, bounds)
      OBVIOUS
    <2>2. Lists(list, all)
      BY <1>4, <2>1, FoundIs
    <2>3. /\ \A k \in 2 .. Len(list) : list[k - 1] < list[k]
          /\ {list[k] : k \in 1 .. Len(list)} = all
      BY <2>2 DEF Lists
    <2> QED BY <2>1, <2>3 DEF AllAreFound
  <1> QED BY <1>3, <1>4, <1>5, <1>6

(* In any file, for any pattern, scope and chunk size, after any edits:     *)
(* next, previous and all find exactly the matches there are (search.rs     *)
(* find_next, find_prev, find_all).                                        *)
THEOREM FindAlwaysExact == PanelsSpec => []FindIsExact
  <1>1. PanelsInit => FindStepInv
    BY FindInitially DEF FindStepInv, PanelsInit
  <1>2. FindStepInv => FindIsExact
    BY FindIsExactThen DEF FindStepInv
  <1> QED BY <1>1, <1>2, FindStepKeeps, PTL DEF PanelsSpec

(* The match list is always that of the query in the bar, in bytes the tab  *)
(* has shown, and the active index is one of it (search_bar.rs              *)
(* set_all_results, render_status).                                        *)
THEOREM ListAlwaysOfQuery == PanelsSpec => []ListIsOfQuery
  <1>1. PanelsInit => FindStepInv
    BY FindInitially DEF FindStepInv, PanelsInit
  <1>2. FindInv => ListIsOfQuery
    <2> SUFFICES ASSUME FindInv PROVE ListIsOfQuery
      OBVIOUS
    <2>1. BarOK(bar, found_in)
      BY DEF FindInv
    <2>2. PICK b \in Bars, bytes \in Texts : b = bar /\ bytes = found_in
      BY <2>1 DEF BarOK
    <2>3. PICK c : c = recompute_all_results(b, bytes, 0)
      OBVIOUS
    <2>4. c.matches = ListFor(b.pattern, b.scope, bytes)
      BY <2>3, RecomputeIs
    <2> QED BY <2>1, <2>2, <2>3, <2>4 DEF BarOK, ListIsOfQuery
  <1>3. FindStepInv => ListIsOfQuery
    BY <1>2 DEF FindStepInv
  <1> QED BY <1>1, <1>3, FindStepKeeps, PTL DEF PanelsSpec

(* No replacement changes the length of the file before the user agreed to  *)
(* it for the find and replace patterns in the bar, whatever reloads,       *)
(* replacements and dialogs came before (search_bar.rs                      *)
(* splice_prompt_acked).                                                   *)
THEOREM ResizeAlwaysAgreed == PanelsSpec => ResizeIsAgreed
  <1>1. PanelsInit => FindStepInv
    BY FindInitially DEF FindStepInv, PanelsInit
  <1>2. FindStepInv /\ [PanelsNext]_panelsVars
          => [ Len(present') # Len(present) /\ (Replaces \/ AnswerOk)
               => agreed' = <<bar.pattern, bar.replace_pattern>> ]_<<barVars, bufferVars>>
    <2> SUFFICES ASSUME FindInv, Replaces \/ AnswerOk, Len(present') # Len(present)
                 PROVE  agreed' = <<bar.pattern, bar.replace_pattern>>
      BY DEF FindStepInv
    <2>1. Agreed
      BY QueueCurrentKeeps, QueueAllKeeps, AnswerOkKeeps DEF Replaces
    <2> QED BY <2>1 DEF Agreed
  <1> QED BY <1>1, <1>2, FindStepKeeps, PTL DEF PanelsSpec, ResizeIsAgreed

-----------------------------------------------------------------------------
(* Replace All. *)

(* An ascending sequence of offsets of a set, as long as the set's list, is *)
(* that list: the k-th of them is at the k-th place at least, and at most.  *)
LEMMA OnlyList ==
    ASSUME NEW S, NEW list, Lists(list, S), NEW s \in [1 .. Len(list) -> S],
           \A k \in 2 .. Len(list) : s[k - 1] < s[k]
    PROVE  s = list
  <1>1. PICK n \in Nat : n = Len(list) /\ list \in Seq(Nat)
    BY DEF Lists
  <1>2. \A k \in 1 .. n : \E j \in 1 .. n : list[j] = s[k]
    BY <1>1 DEF Lists
  <1>3. PICK idx : idx = [k \in 1 .. n |-> CHOOSE j \in 1 .. n : list[j] = s[k]]
    OBVIOUS
  <1>4. \A k \in 1 .. n : idx[k] \in 1 .. n /\ list[idx[k]] = s[k]
    BY <1>2, <1>3
  <1>5. ASSUME NEW k \in 2 .. n PROVE idx[k - 1] < idx[k]
    <2>1. k \in 1 .. n /\ k - 1 \in 1 .. n
      OBVIOUS
    <2>2. PICK i \in 1 .. n, j \in 1 .. n : i = idx[k - 1] /\ j = idx[k]
      BY <1>4, <2>1
    <2>3. list[i] < list[j] /\ list[i] \in Nat /\ list[j] \in Nat
      <3>1. list[i] = s[k - 1] /\ list[j] = s[k]
        BY <1>4, <2>1, <2>2
      <3>2. s[k - 1] < s[k]
        BY <1>1
      <3>3. list[i] \in Nat /\ list[j] \in Nat
        BY <1>1
      <3> QED BY <3>1, <3>2, <3>3
    <2>4. j < i => list[j] < list[i]
      BY <1>1, Ascends
    <2>5. i # j /\ ~ (j < i)
      BY <2>3, <2>4
    <2> QED BY <2>2, <2>5
  <1>6. \A k \in 1 .. n : idx[k] >= k
    <2> DEFINE Bad == {k \in 1 .. n : ~ (idx[k] >= k)}
    <2> SUFFICES ASSUME Bad # {} PROVE FALSE
      OBVIOUS
    <2>1. Bad \in SUBSET Nat
      OBVIOUS
    <2>2. PICK k \in Bad : \A l \in Bad : k <= l
      BY <2>1, LowestExists
    <2>3. k \in 1 .. n /\ idx[k] \in 1 .. n /\ idx[k] < k
      BY <1>4, <2>2
    <2>4. k \in 2 .. n /\ k - 1 \in 1 .. n
      BY <2>3
    <2>5. idx[k - 1] >= k - 1
      BY <2>2, <2>4
    <2>6. idx[k - 1] < idx[k] /\ idx[k - 1] \in 1 .. n
      BY <1>4, <1>5, <2>4
    <2> QED BY <2>3, <2>5, <2>6
  <1>7. \A k \in 1 .. n : idx[k] <= k
    <2> DEFINE Bad == {k \in 1 .. n : ~ (idx[k] <= k)}
    <2> SUFFICES ASSUME Bad # {} PROVE FALSE
      OBVIOUS
    <2>1. Bad \in SUBSET (0 .. n)
      OBVIOUS
    <2>2. PICK k \in Bad : \A l \in Bad : l <= k
      BY <2>1, HighestExists
    <2>3. k \in 1 .. n /\ idx[k] \in 1 .. n /\ idx[k] > k
      BY <1>4, <2>2
    <2>4. k + 1 \in 2 .. n /\ k + 1 \in 1 .. n /\ (k + 1) - 1 = k
      BY <2>3
    <2>5. idx[k + 1] <= k + 1
      BY <2>2, <2>4
    <2>6. idx[k] < idx[k + 1] /\ idx[k + 1] \in 1 .. n
      BY <1>4, <1>5, <2>4
    <2> QED BY <2>3, <2>5, <2>6
  <1>8. ASSUME NEW k \in 1 .. n PROVE s[k] = list[k]
    <2>1. idx[k] = k
      BY <1>4, <1>6, <1>7
    <2> QED BY <1>4, <2>1
  <1>9. s = [k \in 1 .. n |-> s[k]] /\ list = [k \in 1 .. n |-> list[k]]
    BY <1>1
  <1> QED BY <1>8, <1>9

(* Neighbours that keep their distance keep the others at a distance. *)
LEMMA Spread ==
    ASSUME NEW S, NEW list, Lists(list, S), NEW m \in Nat
    PROVE  (\A k \in 2 .. Len(list) : list[k] >= list[k - 1] + m)
             <=> ~ \E o, p \in S : o < p /\ p < o + m
  <1>1. PICK n \in Nat : n = Len(list) /\ list \in Seq(Nat)
    BY DEF Lists
  <1>2. ASSUME NEW k \in 2 .. n, ~ (list[k] >= list[k - 1] + m)
        PROVE  \E o, p \in S : o < p /\ p < o + m
    <2>1. k \in 1 .. n /\ k - 1 \in 1 .. n
      OBVIOUS
    <2>2. /\ list[k] \in S /\ list[k - 1] \in S /\ list[k - 1] < list[k]
          /\ list[k] \in Nat /\ list[k - 1] \in Nat
      BY <1>1, <2>1 DEF Lists
    <2>3. list[k] < list[k - 1] + m
      BY <1>2, <2>2
    <2> QED BY <2>2, <2>3
  <1>3. ASSUME \A k \in 2 .. n : list[k] >= list[k - 1] + m,
               NEW o \in S, NEW p \in S, o < p, p < o + m
        PROVE  FALSE
    <2>1. PICK i \in 1 .. n, j \in 1 .. n : list[i] = o /\ list[j] = p
      BY <1>1 DEF Lists
    <2>2. o \in Nat /\ p \in Nat
      BY <1>1, <2>1
    <2>3. j < i => list[j] < list[i]
      BY <1>1, Ascends
    <2>4. i < j
      BY <1>3, <2>1, <2>2, <2>3
    <2>5. i + 1 \in 2 .. n /\ i + 1 \in 1 .. n /\ (i + 1) - 1 = i
      BY <2>4
    <2>6. list[i + 1] >= o + m /\ list[i + 1] \in Nat
      BY <1>1, <1>3, <2>1, <2>5
    <2>7. i + 1 < j => list[i + 1] < list[j]
      BY <1>1, <2>5, Ascends
    <2>8. i + 1 = j \/ i + 1 < j
      BY <2>4
    <2> QED BY <1>3, <2>1, <2>2, <2>6, <2>7, <2>8
  <1> QED BY <1>1, <1>2, <1>3

(* The confirmed dialogs that end: the batch is tried. *)
LEMMA ConfirmedReplaces ==
    ASSUME FindInv, AnswerOk, dialog' = << >>, dialog[1].kind # "resize current"
    PROVE  \E ack \in BOOLEAN :
              perform_replace_all(dialog[1].offsets, dialog[1].find_len, ack)
  <1>1. PICK d : d = dialog[1]
    OBVIOUS
  <1>2. bar.acked \in BOOLEAN
    BY DEF FindInv, BarOK, Bars
  <1>3. CASE d.kind = "confirm all" /\ continue_replace_all(d)
    <2>1. <<[d EXCEPT !.kind = "resize all"]>> # << >>
      OBVIOUS
    <2>2. perform_replace_all(d.offsets, d.find_len, bar.acked)
      BY <1>3, <2>1 DEF continue_replace_all
    <2> QED BY <1>1, <1>2, <2>2
  <1>4. CASE perform_replace_all(d.offsets, d.find_len, TRUE)
    BY <1>1, <1>4
  <1> QED BY <1>1, <1>3, <1>4 DEF AnswerOk

ReplacesAll(offsets) ==
    LET all == Inside(present, bar.pattern, Bounds(bar.scope))
        overlap == \E o, p \in all : o < p /\ p < o + Len(bar.pattern)
        here == CHOOSE s \in [1 .. Len(offsets) -> all] :
                   \A k \in 2 .. Len(s) : s[k - 1] < s[k]
        ops == [k \in DOMAIN here |-> [offset |-> here[k], remove |-> Len(bar.pattern),
                                       insert |-> bar.replace_pattern]]
    IN  IF overlap THEN UNCHANGED bufferVars
        ELSE present' = Batch(present, ops) /\ Len(past') <= Len(past) + 1

(* A batch at the list of the matches. *)
LEMMA ReplaceAllExact ==
    ASSUME FindInv, bar.pattern \in Needles, NEW offs \in Seq(Nat), NEW m \in Nat,
           m = Len(bar.pattern), Lists(offs, Inside(present, bar.pattern, Bounds(bar.scope))),
           NEW ack \in BOOLEAN, perform_replace_all(offs, m, ack)
    PROVE  ReplacesAll(offs)
  <1>2. /\ bar.scope \in Scopes /\ present \in Texts
        /\ bar.replace_pattern \in Texts /\ BufferTyped
    BY DEF FindInv, BarOK, Bars, BufferTyped
  <1>3. PICK p \in Needles, scope \in Scopes, bytes \in Texts, r \in Texts :
           /\ p = bar.pattern /\ scope = bar.scope /\ bytes = present
           /\ r = bar.replace_pattern
    BY <1>2
  <1>4. PICK bounds : bounds = BoundsIn(scope, Len(bytes)) /\ bounds = Bounds(bar.scope)
    BY <1>3 DEF BoundsIn, Bounds
  <1>5. PICK all : all = Inside(bytes, p, bounds)
    OBVIOUS
  <1>6. m = Len(p) /\ Lists(offs, all)
    BY <1>3, <1>4, <1>5
  <1>8. PICK n \in Nat : n = Len(offs)
    OBVIOUS
  <1>9. Fit(offs, m, bytes) <=> ~ \E o, q \in all : o < q /\ q < o + m
    <2>1. PICK lo \in Nat, hi \in Nat : Clipped(bytes, bounds, lo, hi)
      BY <1>4, BoundsAre
    <2>2. Len(bytes) \in Nat /\ hi <= Len(bytes) /\ bounds.hi = hi
      BY <2>1 DEF Clipped, Texts
    <2>3. all = Between(bytes, p, lo, hi)
      BY <1>5, <2>1, InsideIs
    <2>4. ASSUME NEW k \in 1 .. n PROVE offs[k] + m <= Len(bytes)
      <3>1. offs[k] \in all /\ offs[k] \in Nat
        BY <1>6, <1>8 DEF Lists
      <3>2. offs[k] \in lo .. hi - m
        BY <1>6, <2>3, <3>1 DEF Between
      <3> QED BY <2>2, <3>1, <3>2
    <2>5. (\A k \in 2 .. Len(offs) : offs[k] >= offs[k - 1] + m)
            <=> ~ \E o, q \in all : o < q /\ q < o + m
      BY <1>6, Spread
    <2> QED BY <1>8, <2>4, <2>5 DEF Fit
  <1> DEFINE Asc(s) == \A k \in 2 .. Len(s) : s[k - 1] < s[k]
             here == CHOOSE s \in [1 .. Len(offs) -> all] : Asc(s)
  <1>10. here = offs
    <2>1. offs \in [1 .. n -> all]
      <3>1. offs = [k \in 1 .. n |-> offs[k]]
        BY <1>8
      <3>2. \A k \in 1 .. n : offs[k] \in all
        BY <1>6, <1>8 DEF Lists
      <3> QED BY <3>1, <3>2
    <2>2. Asc(offs)
      BY <1>6 DEF Lists
    <2>3. ASSUME NEW s \in [1 .. Len(offs) -> all], Asc(s) PROVE s = offs
      <3>1. Len(s) = n
        BY <1>8
      <3>2. \A k \in 2 .. Len(offs) : s[k - 1] < s[k]
        BY <1>8, <2>3, <3>1
      <3> QED BY <1>6, <3>2, OnlyList
    <2> HIDE DEF Asc
    <2> QED BY <1>8, <2>1, <2>2, <2>3
  <1> HIDE DEF here
  <1>11. [k \in DOMAIN here |-> [offset |-> here[k], remove |-> Len(p), insert |-> r]]
           = OpsAt(offs, m, r)
    <2>1. DOMAIN offs = 1 .. Len(offs)
      OBVIOUS
    <2> QED BY <1>6, <1>10, <2>1 DEF OpsAt
  <1>12. IF \E o, q \in all : o < q /\ q < o + m THEN UNCHANGED bufferVars
         ELSE present' = Batch(present, OpsAt(offs, m, r)) /\ Len(past') <= Len(past) + 1
    <2>1. CASE Fit(offs, m, bytes)
      <3>1. PICK joins \in BOOLEAN : Change(Batch(bytes, OpsAt(offs, m, r)), joins)
        BY <1>3, <2>1, ReplaceAllDoes
      <3>2. PICK after : after = Batch(bytes, OpsAt(offs, m, r))
        OBVIOUS
      <3>3. after \in Texts
        BY <2>1, <3>2, BatchIs
      <3>4. Change(after, joins)
        BY <3>1, <3>2
      <3>5. Len(past') <= Len(past) + 1 /\ present' = after
        BY <1>2, <3>3, <3>4, ChangeKeeps DEF Change
      <3> QED BY <1>3, <1>9, <2>1, <3>2, <3>5
    <2>2. CASE ~ Fit(offs, m, bytes)
      <3>1. Refused(ack)
        BY <1>3, <2>2, ReplaceAllDoes
      <3> QED BY <1>9, <2>2, <3>1 DEF Refused
    <2> QED BY <2>1, <2>2
  <1> QED BY <1>3, <1>4, <1>5, <1>6, <1>11, <1>12 DEF ReplacesAll, here

(* Replace All, confirmed on the bytes it was asked for, replaces every     *)
(* match in the scope and nothing else, as at most one undo unit, or, where *)
(* matches overlap, nothing at all (search_bar.rs queue_replace_all to      *)
(* perform_replace_all, editor.rs splice_many).                            *)
THEOREM ReplaceAllAlwaysExact == PanelsSpec => ReplaceAllIsExact
  <1>1. PanelsInit => FindStepInv
    BY FindInitially DEF FindStepInv, PanelsInit
  <1>2. FindStepInv /\ [PanelsNext]_panelsVars
          => [ /\ dialog # << >> /\ AnswerOk /\ dialog' = << >>
               /\ dialog[1].kind # "resize current" /\ dialog[1].bytes = present
               => ReplacesAll(dialog[1].offsets) ]_<<barVars, bufferVars>>
    <2> SUFFICES ASSUME FindInv, dialog # << >>, AnswerOk, dialog' = << >>,
                        dialog[1].kind # "resize current", dialog[1].bytes = present
                 PROVE  ReplacesAll(dialog[1].offsets)
      BY DEF FindStepInv
    <2>1. DialogOK(dialog[1], bar)
      BY DEF FindInv, DialogUp
    <2>2. PICK ack \in BOOLEAN : perform_replace_all(dialog[1].offsets, dialog[1].find_len, ack)
      BY ConfirmedReplaces
    <2>3. bar.pattern \in Needles /\ Len(bar.pattern) \in Nat
      <3>1. bar.pattern \in Needles /\ bar.pattern \in Texts
        BY <2>1 DEF DialogOK, Needles
      <3> QED BY <3>1, TextLength, Zenon
    <2>4. PICK offs \in Seq(Nat), m \in Nat :
             /\ offs = dialog[1].offsets /\ m = dialog[1].find_len /\ m = Len(bar.pattern)
      BY <2>1, <2>3 DEF DialogOK
    <2>5. Lists(offs, Inside(present, bar.pattern, Bounds(bar.scope)))
      BY <2>1, <2>4 DEF DialogOK, Bounds, BoundsIn
    <2>6. perform_replace_all(offs, m, ack)
      BY <2>2, <2>4
    <2>7. ReplacesAll(offs)
      BY <2>3, <2>4, <2>5, <2>6, ReplaceAllExact
    <2> QED BY <2>4, <2>7
  <1> QED BY <1>1, <1>2, FindStepKeeps, PTL DEF PanelsSpec, ReplaceAllIsExact, ReplacesAll

-----------------------------------------------------------------------------
(* The compare view's rows. *)

(* What holds at 0, and at k if it holds at k - 1, holds up to n. *)
LEMMA StepByStep ==
    ASSUME NEW n \in Nat, NEW I, 0 \in I, \A k \in 1 .. n : k - 1 \in I => k \in I
    PROVE  \A k \in 0 .. n : k \in I
  <1> DEFINE Bad == (0 .. n) \ I
  <1> SUFFICES ASSUME Bad # {} PROVE FALSE
    OBVIOUS
  <1>1. PICK m \in Bad : \A k \in Bad : m <= k
    <2>1. Bad \in SUBSET Nat
      OBVIOUS
    <2> HIDE DEF Bad
    <2> QED BY <2>1, LowestExists
  <1>2. m \in 1 .. n /\ m - 1 \in 0 .. n
    BY <1>1
  <1>3. m - 1 \in I
    BY <1>1, <1>2
  <1> QED BY <1>1, <1>2, <1>3

(* A loop of n rounds, from a, has a run. *)
LoopGoes(f, n, a, F) ==
    /\ f = [k \in 0 .. n |-> f[k]]
    /\ f[0] = a
    /\ \A k \in 1 .. n : f[k] = F[<<k, f[k - 1]>>]

LEMMA LoopRuns ==
    ASSUME NEW n \in Nat, NEW a, NEW F
    PROVE  \E f : LoopGoes(f, n, a, F)
  <1> USE DEF LoopGoes
  <1> DEFINE Goes(f, m) == LoopGoes(f, m, a, F)
             I == {m \in 0 .. n : \E f : Goes(f, m)}
  <1>1. 0 \in I
    <2> DEFINE f == [k \in 0 .. 0 |-> a]
    <2>1. Goes(f, 0)
      OBVIOUS
    <2>2. 0 \in 0 .. n
      OBVIOUS
    <2> HIDE DEF f, LoopGoes
    <2> QED BY <2>1, <2>2
  <1>2. ASSUME NEW m \in 1 .. n, m - 1 \in I PROVE m \in I
    <2>1. PICK f : Goes(f, m - 1)
      BY <1>2
    <2> DEFINE g == [k \in 0 .. m |-> IF k = m THEN F[<<m, f[m - 1]>>] ELSE f[k]]
    <2>4. g = [k \in 0 .. m |-> g[k]]
      OBVIOUS
    <2>5. g[0] = a
      BY <2>1
    <2>6. ASSUME NEW k \in 1 .. m PROVE g[k] = F[<<k, g[k - 1]>>]
      <3>1. k - 1 \in 0 .. m - 1 /\ g[k - 1] = f[k - 1]
        OBVIOUS
      <3>2. CASE k = m
        <4>1. g[m] = F[<<m, f[m - 1]>>]
          OBVIOUS
        <4> QED BY <3>1, <3>2, <4>1
      <3>3. CASE k # m
        <4>1. k \in 1 .. m - 1 /\ g[k] = f[k]
          BY <3>3
        <4> QED BY <2>1, <3>1, <4>1
      <3> QED BY <3>2, <3>3
    <2>7. m \in 0 .. n
      OBVIOUS
    <2> HIDE DEF g
    <2> QED BY <2>4, <2>5, <2>6, <2>7
  <1>3. n \in I
    <2> HIDE DEF I
    <2>1. \A k \in 1 .. n : k - 1 \in I => k \in I
      BY <1>2
    <2> QED BY <1>1, <2>1, StepByStep
  <1> QED BY <1>3

(* A sum of n terms, the way Gaps adds them up. *)
LEMMA SumRuns ==
    ASSUME NEW n \in Nat, NEW t \in [1 .. n -> Nat]
    PROVE  \E f : f = [k \in 0 .. n |-> IF k = 0 THEN 0 ELSE f[k - 1] + t[k]]
  <1>1. PICK F \in [(1 .. n) \X Nat -> Nat] : \A k \in 1 .. n, x \in Nat : F[<<k, x>>] = x + t[k]
    <2> DEFINE G == [p \in (1 .. n) \X Nat |-> p[2] + t[p[1]]]
    <2>1. G \in [(1 .. n) \X Nat -> Nat]
      OBVIOUS
    <2> QED BY <2>1
  <1>2. PICK f : LoopGoes(f, n, 0, F)
    BY LoopRuns, Zenon
  <1> USE DEF LoopGoes
  <1> DEFINE I == {k \in 0 .. n : f[k] \in Nat}
  <1>3. \A k \in 0 .. n : k \in I
    <2>1. 0 \in I
      BY <1>2
    <2>2. ASSUME NEW k \in 1 .. n, k - 1 \in I PROVE k \in I
      <3>1. t[k] \in Nat /\ f[k - 1] \in Nat /\ k \in 0 .. n
        BY <2>2
      <3>2. f[k] = f[k - 1] + t[k]
        BY <1>1, <1>2, <3>1
      <3> QED BY <3>1, <3>2
    <2> HIDE DEF I
    <2> QED BY <2>1, <2>2, StepByStep
  <1>4. \A k \in 1 .. n : f[k] = f[k - 1] + t[k]
    <2> TAKE k \in 1 .. n
    <2>1. f[k - 1] \in Nat
      BY <1>3
    <2> QED BY <1>1, <1>2, <2>1
  <1>5. f = [k \in 0 .. n |-> IF k = 0 THEN 0 ELSE f[k - 1] + t[k]]
    <2>1. \A k \in 0 .. n : f[k] = IF k = 0 THEN 0 ELSE f[k - 1] + t[k]
      <3> TAKE k \in 0 .. n
      <3>1. CASE k = 0
        BY <1>2, <3>1
      <3>2. CASE k # 0
        <4>1. k \in 1 .. n
          BY <3>2
        <4> QED BY <1>4, <3>2, <4>1
      <3> QED BY <3>1, <3>2
    <2> QED BY <1>2, <2>1
  <1> QED BY <1>5

LEMMA SumIs ==
    ASSUME NEW n \in Nat, NEW t \in [1 .. n -> Nat], NEW sum,
           sum = [k \in 0 .. n |-> IF k = 0 THEN 0 ELSE sum[k - 1] + t[k]]
    PROVE  /\ sum[0] = 0
           /\ \A k \in 1 .. n : sum[k] = sum[k - 1] + t[k]
           /\ \A k \in 0 .. n : sum[k] \in Nat
  <1>1. sum[0] = 0 /\ \A k \in 1 .. n : sum[k] = sum[k - 1] + t[k]
    OBVIOUS
  <1> DEFINE I == {k \in 0 .. n : sum[k] \in Nat}
  <1>2. 0 \in I
    BY <1>1
  <1>3. ASSUME NEW k \in 1 .. n, k - 1 \in I PROVE k \in I
    <2>1. t[k] \in Nat /\ sum[k - 1] \in Nat /\ k \in 0 .. n
      BY <1>3
    <2>2. sum[k] = sum[k - 1] + t[k]
      BY <1>1
    <2> QED BY <2>1, <2>2
  <1>4. \A k \in 0 .. n : k \in I
    <2> HIDE DEF I
    <2> QED BY <1>2, <1>3, StepByStep
  <1> QED BY <1>1, <1>4

-----------------------------------------------------------------------------
LEMMA Divided ==
    ASSUME NEW n \in Nat
    PROVE  /\ n \div columns \in Nat /\ n % columns \in 0 .. columns - 1
           /\ n = columns * (n \div columns) + (n % columns)
  BY RowConstants

(* Multiples of the row length are as far apart as their factors. *)
LEMMA Products ==
    ASSUME NEW p \in Nat, NEW q \in Nat, p < q
    PROVE  columns * p \in Nat /\ columns * p + columns <= columns * q
  <1>1. PICK d \in Nat : q = p + 1 + d
    <2>1. q - p - 1 \in Nat /\ q = p + 1 + (q - p - 1)
      OBVIOUS
    <2> QED BY <2>1
  <1>2. columns * q = columns * p + columns + columns * d
    BY <1>1, RowConstants
  <1>3. columns * d \in Nat /\ columns * p \in Nat /\ columns \in Nat
    BY RowConstants
  <1> QED BY <1>2, <1>3

LEMMA Quotient ==
    ASSUME NEW q \in Nat, NEW r \in 0 .. columns - 1
    PROVE  (columns * q + r) \div columns = q
  <1> DEFINE n == columns * q + r
             d == n \div columns
  <1>1. n \in Nat /\ columns \in Nat
    BY RowConstants
  <1>2. d \in Nat /\ n % columns \in 0 .. columns - 1 /\ n = columns * d + (n % columns)
    BY <1>1, Divided
  <1>3. PICK x \in Nat, y \in Nat : x = columns * q /\ y = columns * d
    BY <1>1, <1>2
  <1>4. CASE d < q
    <2>1. y + columns <= x
      BY <1>2, <1>3, <1>4, Products
    <2> QED BY <1>1, <1>2, <1>3, <2>1
  <1>5. CASE q < d
    <2>1. x + columns <= y
      BY <1>2, <1>3, <1>5, Products
    <2> QED BY <1>1, <1>2, <1>3, <2>1
  <1> QED BY <1>2, <1>4, <1>5

(* DivCeil(n) rows are the fewest that hold n bytes. *)
LEMMA CeilIs ==
    ASSUME NEW n \in Nat
    PROVE  /\ DivCeil(n) \in Nat
           /\ columns * DivCeil(n) \in Nat
           /\ columns * DivCeil(n) >= n
           /\ columns * DivCeil(n) < n + columns
  <1>1. columns \in Nat /\ columns > 0 /\ n + columns - 1 \in Nat
    BY RowConstants
  <1>2. PICK d \in Nat, r \in 0 .. columns - 1 :
           d = DivCeil(n) /\ n + columns - 1 = columns * d + r
    BY <1>1, Divided DEF DivCeil
  <1>3. PICK x \in Nat : x = columns * d
    BY <1>1
  <1> QED BY <1>1, <1>2, <1>3

LEMMA CeilUnique ==
    ASSUME NEW n \in Nat, NEW d \in Nat, columns * d >= n, columns * d < n + columns
    PROVE  DivCeil(n) = d
  <1>1. columns \in Nat
    BY RowConstants
  <1>2. PICK e \in Nat, x \in Nat, y \in Nat :
           /\ e = DivCeil(n) /\ x = columns * d /\ y = columns * e
           /\ y >= n /\ y < n + columns
    BY <1>1, CeilIs
  <1>3. CASE d < e
    <2>1. x + columns <= y
      BY <1>2, <1>3, Products
    <2> QED BY <1>1, <1>2, <2>1
  <1>4. CASE e < d
    <2>1. y + columns <= x
      BY <1>2, <1>4, Products
    <2> QED BY <1>1, <1>2, <2>1
  <1> QED BY <1>2, <1>3, <1>4

(* n bytes fit in q rows exactly if DivCeil(n) is no more than q. *)
LEMMA CeilBounds ==
    ASSUME NEW n \in Nat, NEW q \in Nat
    PROVE  DivCeil(n) <= q <=> n <= columns * q
  <1>1. columns \in Nat /\ columns * q \in Nat
    BY RowConstants
  <1>2. PICK d \in Nat, y \in Nat :
           d = DivCeil(n) /\ y = columns * d /\ y >= n /\ y < n + columns
    BY CeilIs
  <1>3. PICK x \in Nat : x = columns * q
    BY <1>1
  <1>4. CASE d < q
    <2>1. y + columns <= x
      BY <1>2, <1>3, <1>4, Products
    <2> QED BY <1>1, <1>2, <1>3, <1>4, <2>1
  <1>5. CASE d = q
    BY <1>2, <1>3, <1>5
  <1>6. CASE q < d
    <2>1. x + columns <= y
      BY <1>2, <1>3, <1>6, Products
    <2> QED BY <1>1, <1>2, <1>3, <1>6, <2>1
  <1> QED BY <1>2, <1>4, <1>5, <1>6

(* What the last row lacks: nothing for a whole number of rows. *)
LEMMA PadIs ==
    ASSUME NEW n \in Nat
    PROVE  \E pad \in 0 .. columns - 1 :
              columns * DivCeil(n) = n + pad /\ (n % columns = 0 => pad = 0)
  <1>1. columns \in Nat /\ columns > 0
    BY RowConstants
  <1>2. PICK d \in Nat, y \in Nat :
           d = DivCeil(n) /\ y = columns * d /\ y >= n /\ y < n + columns
    BY CeilIs
  <1>3. n % columns = 0 => y = n
    <2> SUFFICES ASSUME n % columns = 0 PROVE y = n
      OBVIOUS
    <2>1. PICK q \in Nat : q = n \div columns /\ n = columns * q
      <3>1. PICK q \in Nat, r \in Nat : q = n \div columns /\ r = n % columns /\ n = columns * q + r
        BY <1>1, Divided
      <3>2. r = 0 /\ columns * q \in Nat
        BY <1>1, <3>1
      <3> QED BY <3>1, <3>2
    <2>2. DivCeil(n) = q
      BY <1>1, <2>1, CeilUnique
    <2> QED BY <1>2, <2>1, <2>2
  <1>4. y - n \in 0 .. columns - 1 /\ y = n + (y - n)
    BY <1>1, <1>2
  <1> QED BY <1>2, <1>3, <1>4

-----------------------------------------------------------------------------
(* The inductive invariant: each side of the diff is covered by its hunks,  *)
(* one behind the other.                                                   *)
Hunks ==
    [kind: {"Equal", "Changed", "Added", "Removed"},
     a_len: Nat, b_len: Nat, a_offset: Nat, b_offset: Nat]

Chained ==
    \A k \in 1 .. Len(hunks) : /\ hunks[k].a_offset = SideEnd("a", k - 1)
                               /\ hunks[k].b_offset = SideEnd("b", k - 1)
                               /\ hunks[k].kind = "Equal" => hunks[k].a_len = hunks[k].b_len

RowsInv == hunks \in Seq(Hunks) /\ Chained

LEMMA RowsInitially == RowsInit => RowsInv
  BY DEF RowsInit, RowsInv, Chained

LEMMA AddHunkKeeps ==
    ASSUME RowsInv, AddHunk
    PROVE  RowsInv'
  <1>1. PICK a_len \in 0 .. MaxHunkLen, b_len \in 0 .. MaxHunkLen,
             kind \in {"Equal", "Changed", "Added", "Removed"} :
           /\ kind = "Equal" => a_len = b_len
           /\ hunks' = Append(hunks, [kind |-> kind, a_len |-> a_len, b_len |-> b_len,
                                     a_offset |-> SideLen("a"), b_offset |-> SideLen("b")])
    BY DEF AddHunk
  <1> DEFINE K == Len(hunks)
             h == [kind |-> kind, a_len |-> a_len, b_len |-> b_len,
                   a_offset |-> SideLen("a"), b_offset |-> SideLen("b")]
  <1>2. K \in Nat /\ hunks \in Seq(Hunks)
    BY DEF RowsInv
  <1>3. a_len \in Nat /\ b_len \in Nat
    BY RowConstants
  <1>4. SideLen("a") \in Nat /\ SideLen("b") \in Nat
    <2>1. CASE K = 0
      BY <2>1 DEF SideLen, SideEnd
    <2>2. CASE K # 0
      <3>1. hunks[K] \in Hunks
        BY <1>2, <2>2
      <3> QED BY <2>2, <3>1 DEF SideLen, SideEnd, Hunks
    <2> QED BY <2>1, <2>2
  <1>5. h \in Hunks
    BY <1>3, <1>4 DEF Hunks
  <1> HIDE DEF h
  <1>6. /\ hunks' \in Seq(Hunks) /\ Len(hunks') = K + 1 /\ hunks'[K + 1] = h
        /\ \A k \in 1 .. K : hunks'[k] = hunks[k]
    BY <1>1, <1>2, <1>5 DEF h
  <1>7. ASSUME NEW k \in 1 .. K + 1, NEW side
        PROVE  SideEnd(side, k - 1)' = SideEnd(side, k - 1)
    <2>1. k = 1 \/ k - 1 \in 1 .. K
      BY <1>2
    <2> QED BY <1>6, <2>1 DEF SideEnd
  <1>8. Chained'
    <2> SUFFICES ASSUME NEW k \in 1 .. K + 1
                 PROVE  /\ hunks'[k].a_offset = SideEnd("a", k - 1)'
                        /\ hunks'[k].b_offset = SideEnd("b", k - 1)'
                        /\ hunks'[k].kind = "Equal" => hunks'[k].a_len = hunks'[k].b_len
      BY <1>6 DEF Chained
    <2>1. CASE k \in 1 .. K
      BY <1>6, <1>7, <2>1 DEF RowsInv, Chained
    <2>2. CASE k = K + 1
      <3>1. hunks'[k] = h /\ k - 1 = K
        BY <1>2, <1>6, <2>2
      <3>2. h.kind = "Equal" => h.a_len = h.b_len
        BY <1>1 DEF h
      <3>3. h.a_offset = SideEnd("a", K) /\ h.b_offset = SideEnd("b", K)
        BY DEF h, SideLen
      <3> QED BY <1>7, <3>1, <3>2, <3>3
    <2> QED BY <1>2, <2>1, <2>2
  <1> QED BY <1>6, <1>8 DEF RowsInv

-----------------------------------------------------------------------------
(* A hunk as one side sees it. *)
Sides == {"a", "b"}
Off(side, k) == IF side = "a" THEN hunks[k].a_offset ELSE hunks[k].b_offset
On(side, k) == IF side = "a" THEN hunks[k].a_len ELSE hunks[k].b_len
AtRow(side, k) == gap(side, hunks[k]).at
Count(side, k) == gap(side, hunks[k]).count

LEMMA HunkIs ==
    ASSUME RowsInv, NEW side \in Sides, NEW k \in 1 .. Len(hunks)
    PROVE  /\ Off(side, k) \in Nat /\ On(side, k) \in Nat
           /\ Off(side, k) = SideEnd(side, k - 1)
           /\ SideEnd(side, k) = Off(side, k) + On(side, k)
           /\ AtRow(side, k) = DivCeil(Off(side, k) + On(side, k)) /\ AtRow(side, k) \in Nat
           /\ Count(side, k) \in Nat
  <1>1. hunks[k] \in Hunks
    BY DEF RowsInv
  <1>2. Off(side, k) \in Nat /\ On(side, k) \in Nat
    BY <1>1 DEF Off, On, Hunks
  <1>3. Off(side, k) = SideEnd(side, k - 1)
    BY DEF Off, RowsInv, Chained, Sides
  <1>4. SideEnd(side, k) = Off(side, k) + On(side, k)
    BY DEF Off, On, SideEnd
  <1>5. AtRow(side, k) = DivCeil(Off(side, k) + On(side, k))
    BY DEF Off, On, AtRow, gap
  <1>6. Count(side, k) \in Nat
    <2>1. /\ DivCeil(hunks[k].a_len) \in Nat /\ DivCeil(hunks[k].b_len) \in Nat
      BY <1>1, CeilIs DEF Hunks
    <2> QED BY <2>1 DEF Count, gap, Surplus, Sides
  <1> QED BY <1>2, <1>3, <1>4, <1>5, <1>6, CeilIs, SMTT(30)

(* What the hunks put above a row of one side, the first k of them. *)
Below(side, row) ==
    CHOOSE f : f = [k \in 0 .. Len(hunks) |->
                      IF k = 0 THEN 0
                      ELSE f[k - 1] + IF AtRow(side, k) < row THEN Count(side, k) ELSE 0]

LEMMA BelowIs ==
    ASSUME RowsInv, NEW side \in Sides, NEW row \in Nat
    PROVE  /\ Below(side, row)[0] = 0
           /\ \A k \in 1 .. Len(hunks) :
                 Below(side, row)[k] =
                    Below(side, row)[k - 1] + IF AtRow(side, k) < row THEN Count(side, k) ELSE 0
           /\ \A k \in 0 .. Len(hunks) : Below(side, row)[k] \in Nat
  <1> DEFINE n == Len(hunks)
             t == [k \in 1 .. n |-> IF AtRow(side, k) < row THEN Count(side, k) ELSE 0]
             E(f) == [k \in 0 .. n |-> IF k = 0 THEN 0 ELSE f[k - 1] + t[k]]
             G(f) == [k \in 0 .. n |->
                        IF k = 0 THEN 0
                        ELSE f[k - 1] + IF AtRow(side, k) < row THEN Count(side, k) ELSE 0]
  <1>1. n \in Nat
    BY DEF RowsInv
  <1>2. t \in [1 .. n -> Nat]
    BY HunkIs
  <1>3. ASSUME NEW f PROVE E(f) = G(f)
    <2>1. \A k \in 0 .. n : k # 0 => k \in 1 .. n
      BY <1>1
    <2> QED BY <2>1
  <1>4. \E f : f = E(f)
    <2> HIDE DEF t, n
    <2> QED BY <1>1, <1>2, SumRuns, Zenon
  <1>5. PICK b : b = Below(side, row)
    OBVIOUS
  <1>6. b = E(b)
    <2> HIDE DEF E, G
    <2>1. b = CHOOSE f : f = G(f)
      BY <1>5 DEF Below, G
    <2> QED BY <1>3, <1>4, <2>1
  <1>7. /\ b[0] = 0
        /\ \A k \in 1 .. n : b[k] = b[k - 1] + t[k]
        /\ \A k \in 0 .. n : b[k] \in Nat
    <2> HIDE DEF t, n
    <2>1. b = [k \in 0 .. n |-> IF k = 0 THEN 0 ELSE b[k - 1] + t[k]]
      BY <1>6
    <2> QED BY <1>1, <1>2, <2>1, SumIs, Zenon
  <1> QED BY <1>5, <1>7

LEMMA GapsIs ==
    ASSUME RowsInv, NEW side \in Sides, NEW row \in Nat
    PROVE  \E g : /\ Gaps(side, row) = g[Len(hunks)]
                  /\ g[0] = 0
                  /\ \A k \in 1 .. Len(hunks) :
                        g[k] = g[k - 1] + IF AtRow(side, k) = row THEN Count(side, k) ELSE 0
                  /\ \A k \in 0 .. Len(hunks) : g[k] \in Nat
  <1> DEFINE n == Len(hunks)
             t == [k \in 1 .. n |-> IF AtRow(side, k) = row THEN Count(side, k) ELSE 0]
             E(f) == [k \in 0 .. n |-> IF k = 0 THEN 0 ELSE f[k - 1] + t[k]]
             G(f) == [k \in 0 .. n |->
                        IF k = 0 THEN 0
                        ELSE f[k - 1] + IF AtRow(side, k) = row THEN Count(side, k) ELSE 0]
  <1>1. n \in Nat
    BY DEF RowsInv
  <1>2. t \in [1 .. n -> Nat]
    BY HunkIs
  <1>3. ASSUME NEW f PROVE E(f) = G(f)
    <2>1. \A k \in 0 .. n : k # 0 => k \in 1 .. n
      BY <1>1
    <2> QED BY <2>1
  <1>4. \E f : f = E(f)
    <2> HIDE DEF t, n
    <2> QED BY <1>1, <1>2, SumRuns, Zenon
  <1>5. PICK b : b = CHOOSE f : f = G(f)
    OBVIOUS
  <1>6. b = E(b)
    <2> HIDE DEF E, G
    <2> QED BY <1>3, <1>4, <1>5
  <1>7. /\ b[0] = 0
        /\ \A k \in 1 .. n : b[k] = b[k - 1] + t[k]
        /\ \A k \in 0 .. n : b[k] \in Nat
    <2> HIDE DEF t, n
    <2>1. b = [k \in 0 .. n |-> IF k = 0 THEN 0 ELSE b[k - 1] + t[k]]
      BY <1>6
    <2> QED BY <1>1, <1>2, <2>1, SumIs, Zenon
  <1>8. Gaps(side, row) = b[n]
    BY <1>5 DEF Gaps, AtRow, Count
  <1> QED BY <1>7, <1>8

LEMMA BelowGrows ==
    ASSUME RowsInv, NEW side \in Sides, NEW row \in Nat
    PROVE  /\ Gaps(side, row) \in Nat
           /\ Below(side, row + 1)[Len(hunks)] = Below(side, row)[Len(hunks)] + Gaps(side, row)
           /\ Below(side, 0)[Len(hunks)] = 0
  <1> DEFINE n == Len(hunks)
  <1>1. n \in Nat
    BY DEF RowsInv
  <1>2. PICK g : /\ Gaps(side, row) = g[n]
                 /\ g[0] = 0
                 /\ \A k \in 1 .. n :
                       g[k] = g[k - 1] + IF AtRow(side, k) = row THEN Count(side, k) ELSE 0
                 /\ \A k \in 0 .. n : g[k] \in Nat
    BY GapsIs
  <1>3. PICK b, c, z : b = Below(side, row) /\ c = Below(side, row + 1) /\ z = Below(side, 0)
    OBVIOUS
  <1>4. /\ b[0] = 0 /\ c[0] = 0 /\ z[0] = 0
        /\ \A k \in 0 .. n : b[k] \in Nat /\ c[k] \in Nat /\ z[k] \in Nat
        /\ \A k \in 1 .. n :
              /\ b[k] = b[k - 1] + IF AtRow(side, k) < row THEN Count(side, k) ELSE 0
              /\ c[k] = c[k - 1] + IF AtRow(side, k) < row + 1 THEN Count(side, k) ELSE 0
              /\ z[k] = z[k - 1] + IF AtRow(side, k) < 0 THEN Count(side, k) ELSE 0
    <2>1. row + 1 \in Nat /\ 0 \in Nat
      OBVIOUS
    <2> QED BY <1>3, <2>1, BelowIs
  <1> DEFINE I == {k \in 0 .. n : c[k] = b[k] + g[k] /\ z[k] = 0}
  <1>5. 0 \in I
    BY <1>1, <1>2, <1>4
  <1>6. ASSUME NEW k \in 1 .. n, k - 1 \in I PROVE k \in I
    <2>1. AtRow(side, k) \in Nat /\ Count(side, k) \in Nat
      BY HunkIs
    <2>2. k - 1 \in 0 .. n /\ c[k - 1] = b[k - 1] + g[k - 1] /\ z[k - 1] = 0
      BY <1>6
    <2>4. b[k - 1] \in Nat /\ g[k - 1] \in Nat
      BY <1>2, <1>4, <2>2
    <2>5. /\ b[k] = b[k - 1] + IF AtRow(side, k) < row THEN Count(side, k) ELSE 0
          /\ c[k] = c[k - 1] + IF AtRow(side, k) < row + 1 THEN Count(side, k) ELSE 0
          /\ z[k] = z[k - 1] + IF AtRow(side, k) < 0 THEN Count(side, k) ELSE 0
          /\ g[k] = g[k - 1] + IF AtRow(side, k) = row THEN Count(side, k) ELSE 0
      BY <1>2, <1>4
    <2>3. c[k] = b[k] + g[k] /\ z[k] = 0
      <3> PICK m \in Nat, w \in Nat : m = AtRow(side, k) /\ w = Count(side, k)
        BY <2>1
      <3> QED BY <2>2, <2>4, <2>5
    <2> QED BY <2>3
  <1>7. n \in I
    <2> HIDE DEF I
    <2>1. \A k \in 0 .. n : k \in I
      BY <1>1, <1>5, <1>6, StepByStep
    <2> QED BY <1>1, <2>1
  <1> QED BY <1>1, <1>2, <1>3, <1>4, <1>7

-----------------------------------------------------------------------------
(* A row map in the making: the first n rows stand at the places p.         *)
Shows(s, n, p) ==
    /\ s \in Seq(Seq(Nat))
    /\ \A r \in 0 .. n - 1 : p[r] \in 1 .. Len(s)
    /\ \A v \in 1 .. Len(s), r \in Nat : s[v] = Real(r) <=> r < n /\ v = p[r]

LEMMA Concatenated ==
    ASSUME NEW S, NEW a \in Seq(S), NEW b \in Seq(S)
    PROVE  /\ a \o b \in Seq(S) /\ Len(a \o b) = Len(a) + Len(b)
           /\ \A v \in 1 .. Len(a) + Len(b) : (a \o b)[v] = IF v <= Len(a) THEN a[v] ELSE b[v - Len(a)]
  OBVIOUS

Padded(s, g) == s \o [k \in 1 .. g |-> Gap]

LEMMA PaddedIs ==
    ASSUME NEW s \in Seq(Seq(Nat)), NEW g \in Nat
    PROVE  Len(Padded(s, g)) = Len(s) + g
  <1>1. Gap \in Seq(Nat)
    BY DEF Gap
  <1> DEFINE e == [k \in 1 .. g |-> Gap]
  <1>2. e \in Seq(Seq(Nat)) /\ Len(e) = g
    BY <1>1
  <1>3. Padded(s, g) = s \o e
    BY DEF Padded
  <1> HIDE DEF e
  <1> QED BY <1>2, <1>3, Concatenated

LEMMA ShowsGaps ==
    ASSUME NEW n \in Nat, NEW p \in [Nat -> Nat], NEW s, Shows(s, n, p), NEW g \in Nat
    PROVE  Shows(Padded(s, g), n, p)
  <1> DEFINE e == [k \in 1 .. g |-> Gap]
             z == s \o e
  <1>1. s \in Seq(Seq(Nat)) /\ Len(s) \in Nat
    BY DEF Shows
  <1>2. Gap \in Seq(Nat) /\ \A r : Gap # Real(r)
    BY DEF Gap, Real
  <1>3. e \in Seq(Seq(Nat)) /\ Len(e) = g /\ \A k \in 1 .. g : e[k] = Gap
    BY <1>2
  <1> HIDE DEF e
  <1>4. /\ z \in Seq(Seq(Nat)) /\ Len(z) = Len(s) + g
        /\ \A v \in 1 .. Len(s) + g : z[v] = IF v <= Len(s) THEN s[v] ELSE e[v - Len(s)]
    BY <1>1, <1>3, Concatenated
  <1>5. \A v \in 1 .. Len(z) : v > Len(s) => z[v] = Gap
    <2> TAKE v \in 1 .. Len(z)
    <2> HAVE v > Len(s)
    <2>0. v \in 1 .. Len(s) + g
      BY <1>4
    <2>1. v - Len(s) \in 1 .. g
      BY <1>1, <1>4
    <2>2. z[v] = e[v - Len(s)]
      BY <1>1, <1>4, <2>0
    <2> QED BY <1>3, <2>1, <2>2
  <1> HIDE DEF z
  <1>6. ASSUME NEW r \in 0 .. n - 1 PROVE p[r] \in 1 .. Len(z) /\ p[r] <= Len(s)
    <2>1. p[r] \in 1 .. Len(s)
      BY DEF Shows
    <2> QED BY <1>1, <1>4, <2>1
  <1>7. ASSUME NEW v \in 1 .. Len(z), NEW r \in Nat
        PROVE  z[v] = Real(r) <=> r < n /\ v = p[r]
    <2>0. v \in 1 .. Len(s) + g
      BY <1>4
    <2>1. CASE v <= Len(s)
      <3>1. v \in 1 .. Len(s) /\ z[v] = s[v]
        BY <1>1, <1>4, <2>0, <2>1
      <3> QED BY <3>1 DEF Shows
    <2>2. CASE v > Len(s)
      <3>1. z[v] # Real(r)
        BY <1>2, <1>5, <2>2
      <3>2. r < n => p[r] <= Len(s)
        <4>1. r < n => r \in 0 .. n - 1
          OBVIOUS
        <4> QED BY <1>6, <4>1
      <3>3. ~ (r < n /\ v = p[r])
        <4> SUFFICES ASSUME r < n, v = p[r] PROVE FALSE
          OBVIOUS
        <4> QED BY <1>1, <2>0, <2>2, <3>2
      <3> QED BY <3>1, <3>3
    <2> QED BY <1>1, <2>0, <2>1, <2>2
  <1>8. Shows(z, n, p)
    BY <1>4, <1>6, <1>7 DEF Shows
  <1> QED BY <1>8 DEF z, e, Padded

LEMMA ShowsRow ==
    ASSUME NEW n \in Nat, NEW p \in [Nat -> Nat], NEW s, Shows(s, n, p), p[n] = Len(s) + 1
    PROVE  Shows(s \o <<Real(n)>>, n + 1, p) /\ Len(s \o <<Real(n)>>) = Len(s) + 1
  <1> DEFINE z == s \o <<Real(n)>>
  <1>1. s \in Seq(Seq(Nat)) /\ Len(s) \in Nat
    BY DEF Shows
  <1>2. Real(n) \in Seq(Nat) /\ \A r : Real(n) = Real(r) => n = r
    BY DEF Real
  <1>3. /\ z \in Seq(Seq(Nat)) /\ Len(z) = Len(s) + 1 /\ z[Len(s) + 1] = Real(n)
        /\ \A v \in 1 .. Len(s) : z[v] = s[v]
    BY <1>1, <1>2
  <1> HIDE DEF z
  <1>0. PICK L \in Nat : L = Len(s)
    BY <1>1
  <1>4. ASSUME NEW r \in 0 .. n PROVE p[r] \in 1 .. Len(z)
    <2>1. r \in 0 .. n - 1 => p[r] \in 1 .. L
      BY <1>0 DEF Shows
    <2>2. CASE r = n
      BY <1>0, <1>3, <2>2
    <2>3. CASE r # n
      <3>1. p[r] \in 1 .. L
        BY <2>1, <2>3
      <3> QED BY <1>0, <1>3, <3>1
    <2> QED BY <2>2, <2>3
  <1>9. ASSUME NEW r \in Nat PROVE r < n + 1 <=> r < n \/ r = n
    OBVIOUS
  <1>5. ASSUME NEW v \in 1 .. Len(z), NEW r \in Nat
        PROVE  z[v] = Real(r) <=> r < n + 1 /\ v = p[r]
    <2>0. v \in 1 .. L + 1 /\ p[r] \in Nat
      BY <1>0, <1>3
    <2>1. r < n => p[r] \in 1 .. L
      <3>1. r < n => r \in 0 .. n - 1
        OBVIOUS
      <3> QED BY <1>0, <3>1 DEF Shows
    <2>2. CASE v \in 1 .. L
      <3>0. z[v] = s[v]
        BY <1>0, <1>3, <2>2
      <3>4. s[v] = Real(r) <=> r < n /\ v = p[r]
        BY <1>0, <2>2 DEF Shows
      <3>1. z[v] = Real(r) <=> r < n /\ v = p[r]
        BY <3>0, <3>4
      <3>2. v # p[n]
        BY <1>0, <2>2
      <3>3. r < n + 1 <=> r < n \/ r = n
        BY <1>9
      <3> QED BY <3>1, <3>2, <3>3
    <2>3. CASE v = L + 1
      <3>1. z[v] = Real(r) <=> r = n
        BY <1>0, <1>2, <1>3, <2>3
      <3>2. r < n => v # p[r]
        BY <2>1, <2>3
      <3>3. r < n + 1 <=> r < n \/ r = n
        BY <1>9
      <3>4. r = n => v = p[r]
        BY <1>0, <2>3
      <3> QED BY <3>1, <3>2, <3>3, <3>4
    <2> QED BY <2>0, <2>2, <2>3
  <1>6. Shows(z, n + 1, p)
    BY <1>3, <1>4, <1>5 DEF Shows
  <1> QED BY <1>3, <1>6 DEF z

-----------------------------------------------------------------------------
(* Where a natural row stands: behind the rows above it and their gaps.     *)
Places(side) == [row \in Nat |-> row + 1 + Below(side, row + 1)[Len(hunks)]]

LEMMA PlacesAre ==
    ASSUME RowsInv, NEW side \in Sides
    PROVE  Places(side) \in [Nat -> Nat]
  <1>1. \A row \in Nat : Below(side, row + 1)[Len(hunks)] \in Nat
    <2> TAKE row \in Nat
    <2>1. row + 1 \in Nat /\ Len(hunks) \in 0 .. Len(hunks)
      BY DEF RowsInv
    <2> QED BY <2>1, BelowIs
  <1> QED BY <1>1 DEF Places

LEMMA NaturalIs ==
    ASSUME RowsInv, NEW side \in Sides
    PROVE  NaturalRows(side) \in Nat
  <1>1. SideLen(side) \in Nat
    <2>1. CASE Len(hunks) = 0
      BY <2>1 DEF SideLen, SideEnd
    <2>2. CASE Len(hunks) # 0
      <3>1. Len(hunks) \in 1 .. Len(hunks)
        BY <2>2 DEF RowsInv
      <3>2. /\ SideEnd(side, Len(hunks)) = Off(side, Len(hunks)) + On(side, Len(hunks))
            /\ Off(side, Len(hunks)) \in Nat /\ On(side, Len(hunks)) \in Nat
        BY <3>1, HunkIs
      <3> QED BY <3>2 DEF SideLen
    <2> QED BY <2>1, <2>2
  <1> QED BY <1>1, CeilIs DEF NaturalRows

(* One turn of interleave_with_gaps. *)
Woven(side, s, i) ==
    s \o [k \in 1 .. Gaps(side, i - 1) |-> Gap]
      \o IF i <= NaturalRows(side) THEN <<Real(i - 1)>> ELSE << >>

(* The first i rows and the gaps above them. *)
Filled(side, i, s) ==
    Shows(s, i, Places(side)) /\ Len(s) = i + Below(side, i)[Len(hunks)]

LEMMA WovenIs ==
    ASSUME RowsInv, NEW side \in Sides, NEW i \in 1 .. NaturalRows(side) + 1,
           NEW s, Filled(side, i - 1, s)
    PROVE  /\ i <= NaturalRows(side) => Filled(side, i, Woven(side, s, i))
           /\ i = NaturalRows(side) + 1 => Shows(Woven(side, s, i), i - 1, Places(side))
  <1>0. PICK g \in Nat, p \in [Nat -> Nat] : g = Gaps(side, i - 1) /\ p = Places(side)
    <2>1. i - 1 \in Nat
      OBVIOUS
    <2> QED BY <2>1, PlacesAre, BelowGrows
  <1> DEFINE e == Padded(s, g)
  <1>1. i - 1 \in Nat /\ i \in Nat /\ NaturalRows(side) \in Nat
    BY NaturalIs
  <1>2. PICK b \in Nat, c \in Nat :
           /\ b = Below(side, i - 1)[Len(hunks)] /\ c = Below(side, i)[Len(hunks)]
           /\ g \in Nat /\ c = b + g
    <2>1. Len(hunks) \in 0 .. Len(hunks) /\ (i - 1) + 1 = i
      BY <1>1 DEF RowsInv
    <2>2. Below(side, i - 1)[Len(hunks)] \in Nat /\ Below(side, i)[Len(hunks)] \in Nat
      BY <1>1, <2>1, BelowIs
    <2>3. /\ g \in Nat
          /\ Below(side, (i - 1) + 1)[Len(hunks)] = Below(side, i - 1)[Len(hunks)] + g
      BY <1>0, <1>1, BelowGrows
    <2> QED BY <2>1, <2>2, <2>3
  <1>4. Shows(e, i - 1, p) /\ Len(e) = Len(s) + g
    <2>1. Shows(s, i - 1, p)
      BY <1>0, <1>2 DEF Filled
    <2>2. PICK j \in Nat : j = i - 1
      BY <1>1
    <2>3. Shows(s, j, p)
      BY <2>1, <2>2
    <2>4. Shows(e, j, p) /\ Len(e) = Len(s) + g
      <3>1. Shows(e, j, p)
        BY <2>3, ShowsGaps
      <3>2. Len(e) = Len(s) + g
        <4>1. s \in Seq(Seq(Nat))
          BY <2>3 DEF Shows
        <4> QED BY <4>1, PaddedIs
      <3> QED BY <3>1, <3>2
    <2> QED BY <2>2, <2>4
  <1> HIDE DEF e
  <1>8. Len(e) = i - 1 + c
    <2>1. Len(s) = i - 1 + b
      BY <1>2 DEF Filled
    <2>2. c = b + g
      BY <1>0, <1>2
    <2> QED BY <1>1, <1>4, <2>1, <2>2
  <1>5. p[i - 1] = i + c
    <2>1. (i - 1) + 1 = i
      BY <1>1
    <2> QED BY <1>0, <1>1, <1>2, <2>1 DEF Places
  <1>6. CASE i <= NaturalRows(side)
    <2>1. Woven(side, s, i) = e \o <<Real(i - 1)>>
      BY <1>0, <1>6 DEF Woven, Padded, e
    <2>2. p[i - 1] = Len(e) + 1
      BY <1>1, <1>5, <1>8
    <2>3. Shows(e \o <<Real(i - 1)>>, (i - 1) + 1, p) /\ Len(e \o <<Real(i - 1)>>) = Len(e) + 1
      BY <1>1, <1>4, <2>2, ShowsRow
    <2>4. (i - 1) + 1 = i /\ Len(e) + 1 = i + c
      BY <1>1, <1>8
    <2> QED BY <1>1, <1>2, <1>6, <2>1, <2>3, <2>4, <1>0 DEF Filled
  <1>7. CASE i = NaturalRows(side) + 1
    <2>1. Woven(side, s, i) = e \o << >>
      <3>1. ~ (i <= NaturalRows(side))
        BY <1>1, <1>7
      <3> QED BY <1>0, <3>1 DEF Woven, Padded, e
    <2>2. e \o << >> = e
      BY <1>4 DEF Shows
    <2> QED BY <1>1, <1>4, <1>7, <2>1, <2>2, <1>0
  <1> QED BY <1>1, <1>6, <1>7

LEMMA InterleavedShows ==
    ASSUME RowsInv, NEW side \in Sides
    PROVE  Shows(Interleaved(side), NaturalRows(side), Places(side))
  <1> DEFINE N == NaturalRows(side)
             p == Places(side)
             G(f) == [i \in 0 .. N + 1 |-> IF i = 0 THEN << >> ELSE Woven(side, f[i - 1], i)]
             Fine(i, s) == Filled(side, i, s)
  <1>1. N \in Nat /\ N + 1 \in Nat
    BY NaturalIs
  <1>2. PICK F : \A i \in 1 .. N + 1, s \in Seq(Seq(Nat)) : F[<<i, s>>] = Woven(side, s, i)
    <2> DEFINE W == [x \in (1 .. N + 1) \X Seq(Seq(Nat)) |-> Woven(side, x[2], x[1])]
    <2>1. \A i \in 1 .. N + 1, s \in Seq(Seq(Nat)) : W[<<i, s>>] = Woven(side, s, i)
      OBVIOUS
    <2> QED BY <2>1
  <1> DEFINE Turns(f) == \A i \in 1 .. N + 1 :
                            Fine(i - 1, f[i - 1]) => f[i] = Woven(side, f[i - 1], i)
  <1>3. ASSUME NEW f, f[0] = << >>, Turns(f)
        PROVE  /\ \A i \in 0 .. N : Fine(i, f[i])
               /\ Shows(f[N + 1], N, p)
    <2> DEFINE I == {i \in 0 .. N : Fine(i, f[i])}
    <2>1. 0 \in I
      <3>1. Shows(<< >>, 0, p)
        BY DEF Shows
      <3>2. Below(side, 0)[Len(hunks)] = 0
        BY BelowGrows
      <3> QED BY <1>1, <1>3, <3>1, <3>2 DEF Filled
    <2>2. ASSUME NEW i \in 1 .. N, i - 1 \in I PROVE i \in I
      <3>1. i \in 1 .. N + 1 /\ i <= N /\ i \in 0 .. N
        BY <1>1
      <3>2. Fine(i - 1, f[i - 1])
        BY <2>2
      <3>3. f[i] = Woven(side, f[i - 1], i)
        BY <1>3, <3>1, <3>2
      <3>4. Fine(i, f[i])
        BY <3>1, <3>2, <3>3, WovenIs
      <3> QED BY <3>1, <3>4
    <2>3. \A i \in 0 .. N : i \in I
      <3> HIDE DEF I
      <3> QED BY <1>1, <2>1, <2>2, StepByStep
    <2>4. Fine(N, f[N])
      BY <1>1, <2>3
    <2>5. Shows(f[N + 1], N, p)
      <3>1. N + 1 \in 1 .. N + 1 /\ (N + 1) - 1 = N
        BY <1>1
      <3>2. f[N + 1] = Woven(side, f[N], N + 1)
        BY <1>3, <2>4, <3>1
      <3>4. Shows(Woven(side, f[N], N + 1), N, p)
        BY <2>4, <3>1, WovenIs
      <3> QED BY <3>2, <3>4
    <2> QED BY <2>3, <2>5
  <1>4. \E f : f = G(f)
    <2>1. PICK f : LoopGoes(f, N + 1, << >>, F)
      BY <1>1, LoopRuns, Zenon
    <2>2. f[0] = << >> /\ Turns(f)
      <3>1. ASSUME NEW i \in 1 .. N + 1, Fine(i - 1, f[i - 1])
            PROVE  f[i] = Woven(side, f[i - 1], i)
        <4>1. f[i] = F[<<i, f[i - 1]>>]
          BY <2>1 DEF LoopGoes
        <4>2. f[i - 1] \in Seq(Seq(Nat))
          BY <3>1 DEF Filled, Shows
        <4> QED BY <1>2, <4>1, <4>2
      <3> QED BY <2>1, <3>1 DEF LoopGoes
    <2>3. \A i \in 0 .. N : Fine(i, f[i])
      BY <1>3, <2>2
    <2>4. \A i \in 0 .. N + 1 : f[i] = IF i = 0 THEN << >> ELSE Woven(side, f[i - 1], i)
      <3> TAKE i \in 0 .. N + 1
      <3>1. i # 0 => i \in 1 .. N + 1 /\ i - 1 \in 0 .. N
        BY <1>1
      <3> QED BY <2>2, <2>3, <3>1
    <2>5. f = [i \in 0 .. N + 1 |-> f[i]]
      BY <2>1 DEF LoopGoes
    <2>6. f = G(f)
      BY <2>4, <2>5
    <2> QED BY <2>6
  <1>5. PICK u : u = CHOOSE f : f = G(f)
    OBVIOUS
  <1>6. u = G(u)
    <2> HIDE DEF G
    <2> QED BY <1>4, <1>5
  <1>7. u[0] = << >> /\ Turns(u)
    <2>1. \A i \in 0 .. N + 1 : u[i] = IF i = 0 THEN << >> ELSE Woven(side, u[i - 1], i)
      BY <1>6
    <2>2. \A i \in 1 .. N + 1 : i \in 0 .. N + 1 /\ i # 0
      BY <1>1
    <2> QED BY <1>1, <2>1, <2>2
  <1>8. Interleaved(side) = u[N + 1]
    BY <1>5 DEF Interleaved, Woven
  <1> QED BY <1>3, <1>7, <1>8

LEMMA RowMapShows ==
    ASSUME RowsInv, NEW side \in Sides
    PROVE  Shows(RowMap(side), NaturalRows(side), Places(side))
  <1> DEFINE own == Interleaved(side)
             other == Interleaved(IF side = "a" THEN "b" ELSE "a")
             g == Surplus(Len(other), Len(own))
  <1>1. Shows(own, NaturalRows(side), Places(side)) /\ Len(own) \in Nat
    BY InterleavedShows DEF Shows
  <1>2. Len(other) \in Nat
    <2>1. (IF side = "a" THEN "b" ELSE "a") \in Sides
      BY DEF Sides
    <2> QED BY <2>1, InterleavedShows DEF Shows
  <1>3. g \in Nat
    BY <1>1, <1>2 DEF Surplus
  <1>4. RowMap(side) = Padded(own, g)
    BY DEF RowMap, Padded
  <1> HIDE DEF g, own
  <1> QED BY <1>1, <1>3, <1>4, NaturalIs, PlacesAre, ShowsGaps

-----------------------------------------------------------------------------
(* The hunks cover a side in their order. *)
LEMMA InOrder ==
    ASSUME RowsInv, NEW side \in Sides,
           NEW m \in 1 .. Len(hunks), NEW k \in 1 .. Len(hunks), m <= k
    PROVE  /\ SideEnd(side, m) <= SideEnd(side, k)
           /\ m < k => SideEnd(side, m) <= Off(side, k)
  <1> DEFINE n == Len(hunks)
             I == {j \in 0 .. n : j >= m => SideEnd(side, m) <= SideEnd(side, j)}
  <1>1. n \in Nat
    BY DEF RowsInv
  <1>2. ASSUME NEW j \in 1 .. n
        PROVE  /\ SideEnd(side, j) \in Nat /\ Off(side, j) \in Nat
               /\ Off(side, j) = SideEnd(side, j - 1) /\ Off(side, j) <= SideEnd(side, j)
    <2>1. PICK o \in Nat, l \in Nat : o = Off(side, j) /\ l = On(side, j)
      BY HunkIs
    <2>2. SideEnd(side, j) = o + l /\ o = SideEnd(side, j - 1)
      BY <2>1, HunkIs
    <2> QED BY <2>1, <2>2
  <1>3. 0 \in I
    BY <1>1
  <1>4. ASSUME NEW j \in 1 .. n, j - 1 \in I PROVE j \in I
    <2>1. CASE j < m
      BY <2>1
    <2>2. CASE j = m
      BY <1>2, <2>2
    <2>3. CASE j > m
      <3>1. SideEnd(side, m) <= SideEnd(side, j - 1)
        BY <1>4, <2>3
      <3>2. SideEnd(side, m) \in Nat
        BY <1>2
      <3> QED BY <1>2, <3>1, <3>2
    <2> QED BY <2>1, <2>2, <2>3
  <1>5. \A j \in 0 .. n : j \in I
    <2> HIDE DEF I
    <2> QED BY <1>1, <1>3, <1>4, StepByStep
  <1>6. SideEnd(side, m) <= SideEnd(side, k)
    BY <1>1, <1>5
  <1>7. ASSUME m < k PROVE SideEnd(side, m) <= Off(side, k)
    <2>1. k - 1 \in 0 .. n /\ k - 1 >= m
      BY <1>1, <1>7
    <2>2. SideEnd(side, m) <= SideEnd(side, k - 1)
      BY <1>5, <2>1
    <2> QED BY <1>2, <2>2
  <1> QED BY <1>6, <1>7

(* Every gap there is, hunk by hunk. *)
AllGaps(side) == Below(side, NaturalRows(side) + 1)

LEMMA AtRowBound ==
    ASSUME RowsInv, NEW side \in Sides, NEW k \in 1 .. Len(hunks)
    PROVE  /\ NaturalRows(side) \in Nat /\ AtRow(side, k) <= NaturalRows(side)
           /\ SideEnd(side, k) <= columns * NaturalRows(side)
  <1>1. Len(hunks) \in 1 .. Len(hunks) /\ k <= Len(hunks)
    BY DEF RowsInv
  <1>2. PICK x \in Nat, y \in Nat : x = SideEnd(side, k) /\ y = SideEnd(side, Len(hunks))
    <2>1. \A j \in 1 .. Len(hunks) : SideEnd(side, j) \in Nat
      BY HunkIs
    <2> QED BY <1>1, <2>1
  <1>3. x <= y
    BY <1>1, <1>2, InOrder
  <1>4. PICK q \in Nat : q = NaturalRows(side) /\ q = DivCeil(y) /\ columns * q \in Nat /\ columns * q >= y
    BY <1>2, CeilIs DEF NaturalRows, SideLen
  <1>5. x <= columns * q
    BY <1>3, <1>4
  <1>6. DivCeil(x) <= q
    BY <1>5, CeilBounds
  <1>7. AtRow(side, k) = DivCeil(x)
    BY <1>2, HunkIs
  <1> QED BY <1>2, <1>4, <1>5, <1>6, <1>7

LEMMA AllGapsAre ==
    ASSUME RowsInv, NEW side \in Sides
    PROVE  /\ AllGaps(side)[0] = 0
           /\ \A m \in 0 .. Len(hunks) : AllGaps(side)[m] \in Nat
           /\ \A m \in 1 .. Len(hunks) : AllGaps(side)[m] = AllGaps(side)[m - 1] + Count(side, m)
  <1>1. PICK N \in Nat : N = NaturalRows(side) + 1
    BY NaturalIs
  <1>2. PICK c : c = Below(side, N)
    OBVIOUS
  <1>3. /\ c[0] = 0
        /\ \A m \in 0 .. Len(hunks) : c[m] \in Nat
        /\ \A m \in 1 .. Len(hunks) :
              c[m] = c[m - 1] + IF AtRow(side, m) < N THEN Count(side, m) ELSE 0
    BY <1>2, BelowIs
  <1>4. ASSUME NEW m \in 1 .. Len(hunks) PROVE AtRow(side, m) < N
    <2>1. AtRow(side, m) \in Nat /\ AtRow(side, m) <= NaturalRows(side) /\ NaturalRows(side) \in Nat
      BY AtRowBound, HunkIs
    <2> QED BY <1>1, <2>1
  <1>5. \A m \in 1 .. Len(hunks) : c[m] = c[m - 1] + Count(side, m)
    BY <1>3, <1>4
  <1>6. AllGaps(side) = c
    BY <1>1, <1>2 DEF AllGaps
  <1> QED BY <1>3, <1>5, <1>6

(* Above a row that begins inside a hunk stand the gaps of the hunks before *)
(* it, and no others.                                                      *)
LEMMA GapsAbove ==
    ASSUME RowsInv, NEW side \in Sides, NEW k \in 1 .. Len(hunks), NEW row \in Nat,
           Off(side, k) <= columns * row, columns * row < SideEnd(side, k)
    PROVE  Below(side, row + 1)[Len(hunks)] = AllGaps(side)[k - 1]
  <1> DEFINE n == Len(hunks)
  <1>1. n \in Nat
    BY DEF RowsInv
  <1>2. PICK b, c : b = Below(side, row + 1) /\ c = AllGaps(side)
    OBVIOUS
  <1>3. /\ b[0] = 0 /\ c[0] = 0
        /\ \A m \in 1 .. n : b[m] = b[m - 1] + IF AtRow(side, m) < row + 1 THEN Count(side, m) ELSE 0
        /\ \A m \in 0 .. n : b[m] \in Nat
        /\ \A m \in 1 .. n : c[m] = c[m - 1] + Count(side, m)
    <2>1. row + 1 \in Nat
      OBVIOUS
    <2>2. /\ b[0] = 0
          /\ \A m \in 1 .. n :
                b[m] = b[m - 1] + IF AtRow(side, m) < row + 1 THEN Count(side, m) ELSE 0
          /\ \A m \in 0 .. n : b[m] \in Nat
      BY <1>2, <2>1, BelowIs
    <2> QED BY <1>2, <2>2, AllGapsAre
  <1>4. ASSUME NEW m \in 1 .. n
        PROVE  /\ SideEnd(side, m) \in Nat /\ AtRow(side, m) \in Nat
               /\ AtRow(side, m) <= row <=> SideEnd(side, m) <= columns * row
    <2>1. PICK e \in Nat : e = SideEnd(side, m) /\ AtRow(side, m) = DivCeil(e)
      BY HunkIs
    <2> QED BY <2>1, CeilBounds, HunkIs
  <1>5. ASSUME NEW m \in 1 .. n, m < k PROVE b[m] = b[m - 1] + Count(side, m)
    <2>1. SideEnd(side, m) <= Off(side, k)
      BY <1>5, InOrder
    <2>2. Off(side, k) \in Nat /\ columns * row \in Nat
      BY HunkIs, RowConstants
    <2>3. AtRow(side, m) <= row
      BY <1>4, <2>1, <2>2
    <2>4. AtRow(side, m) < row + 1
      BY <1>4, <2>3
    <2> QED BY <1>3, <2>4
  <1>6. ASSUME NEW m \in 1 .. n, m >= k PROVE b[m] = b[m - 1]
    <2>1. SideEnd(side, k) <= SideEnd(side, m)
      BY <1>6, InOrder
    <2>2. SideEnd(side, k) \in Nat /\ SideEnd(side, m) \in Nat /\ columns * row \in Nat
      BY <1>4, RowConstants
    <2>3. ~ (AtRow(side, m) <= row)
      BY <1>4, <2>1, <2>2
    <2>4. ~ (AtRow(side, m) < row + 1)
      BY <1>4, <2>3
    <2>5. b[m] = b[m - 1] + 0 /\ b[m - 1] \in Nat
      BY <1>1, <1>3, <2>4
    <2> QED BY <2>5
  <1> DEFINE I == {m \in 0 .. n : b[m] = IF m < k THEN c[m] ELSE c[k - 1]}
  <1>7. 0 \in I
    BY <1>1, <1>3
  <1>8. ASSUME NEW m \in 1 .. n, m - 1 \in I PROVE m \in I
    <2>1. CASE m < k
      <3>1. b[m - 1] = c[m - 1]
        BY <1>8, <2>1
      <3>2. b[m] = c[m]
        BY <1>3, <1>5, <2>1, <3>1
      <3> QED BY <2>1, <3>2
    <2>2. CASE m >= k
      <3>1. b[m - 1] = c[k - 1]
        <4>1. CASE m - 1 < k
          <5>1. m - 1 = k - 1
            BY <2>2, <4>1
          <5> QED BY <1>8, <4>1, <5>1
        <4> QED BY <1>8, <4>1
      <3>2. b[m] = c[k - 1]
        BY <1>6, <2>2, <3>1
      <3> QED BY <2>2, <3>2
    <2> QED BY <2>1, <2>2
  <1>9. n \in I
    <2> HIDE DEF I
    <2>1. \A m \in 0 .. n : m \in I
      BY <1>1, <1>7, <1>8, StepByStep
    <2> QED BY <1>1, <2>1
  <1> QED BY <1>1, <1>2, <1>9

(* The place of a byte whose row begins inside its hunk. *)
LEMMA ShownAt ==
    ASSUME RowsInv, NEW side \in Sides, NEW k \in 1 .. Len(hunks),
           NEW i \in 0 .. On(side, k) - 1, RowBeginsIn(Off(side, k), i)
    PROVE  \E row \in Nat, r \in 0 .. columns - 1 :
              /\ Off(side, k) + i = columns * row + r
              /\ ShownIn(side, Off(side, k) + i) = {row + 1 + AllGaps(side)[k - 1]}
  <1>1. PICK o \in Nat, l \in Nat :
           o = Off(side, k) /\ l = On(side, k) /\ SideEnd(side, k) = o + l
    BY HunkIs
  <1>2. i \in Nat /\ i < l /\ o + i \in Nat
    BY <1>1
  <1>3. PICK row \in Nat, r \in 0 .. columns - 1 :
           row = (o + i) \div columns /\ o + i = columns * row + r
    BY <1>2, Divided
  <1>4. PICK y \in Nat : y = columns * row /\ y = row * columns
    <2>1. columns \in Nat
      BY RowConstants
    <2>2. columns * row \in Nat /\ columns * row = row * columns
      BY <2>1
    <2> QED BY <2>2
  <1>5. r \in Nat
    BY RowConstants
  <1>6. o <= y /\ y < SideEnd(side, k)
    <2>1. o <= y
      BY <1>1, <1>3, <1>4 DEF RowBeginsIn
    <2> QED BY <1>1, <1>2, <1>3, <1>4, <1>5, <2>1
  <1>7. Below(side, row + 1)[Len(hunks)] = AllGaps(side)[k - 1]
    BY <1>1, <1>4, <1>6, GapsAbove
  <1>8. PICK N \in Nat, p \in [Nat -> Nat] : N = NaturalRows(side) /\ p = Places(side)
    BY NaturalIs, PlacesAre
  <1>9. row < N
    <2> SUFFICES ASSUME N <= row PROVE FALSE
      BY <1>3, <1>8
    <2>1. SideEnd(side, k) <= columns * N
      BY <1>8, AtRowBound
    <2>2. columns * N <= y
      <3>1. CASE N < row
        <4>1. columns * N \in Nat /\ columns * N + columns <= y /\ columns \in Nat
          BY <1>4, <3>1, Products, RowConstants
        <4> QED BY <4>1
      <3>2. CASE N = row
        BY <1>4, <3>2
      <3> QED BY <3>1, <3>2
    <2>3. columns * N \in Nat
      BY RowConstants
    <2> QED BY <1>1, <1>6, <2>1, <2>2, <2>3
  <1>10. p[row] = row + 1 + AllGaps(side)[k - 1]
    BY <1>7, <1>8 DEF Places
  <1>11. PICK s : s = RowMap(side) /\ Shows(s, N, p)
    BY <1>8, RowMapShows
  <1>12. p[row] \in 1 .. Len(s) /\ \A v \in 1 .. Len(s) : s[v] = Real(row) <=> v = p[row]
    <2>1. row \in 0 .. N - 1
      BY <1>9
    <2> QED BY <1>9, <1>11, <2>1 DEF Shows
  <1>13. {v \in 1 .. Len(s) : s[v] = Real(row)} = {p[row]}
    BY <1>12
  <1>14. ShownIn(side, Off(side, k) + i) = {p[row]}
    BY <1>1, <1>3, <1>11, <1>13 DEF ShownIn
  <1> QED BY <1>1, <1>3, <1>10, <1>14

-----------------------------------------------------------------------------
(* The changes before a hunk that are no whole rows. *)
Ragged(side, j) == hunks[j].kind # "Equal" /\ On(side, j) % columns # 0
RaggedBefore(side, k) == {j \in 1 .. k - 1 : Ragged(side, j)}

LEMMA RoundsAre ==
    ASSUME RowsInv, NEW side \in Sides, NEW k \in 1 .. Len(hunks)
    PROVE  /\ Rounds(side, k) \in Nat
           /\ k = 1 => Rounds(side, k) = 0
           /\ Rounds(side, k + 1) = Rounds(side, k) + IF Ragged(side, k) THEN 1 ELSE 0
  <1>1. Rounds(side, k) = Cardinality(RaggedBefore(side, k))
    BY DEF Rounds, RaggedBefore, Ragged, On
  <1>2. Rounds(side, k + 1) = Cardinality(RaggedBefore(side, k + 1))
    BY DEF Rounds, RaggedBefore, Ragged, On
  <1>3. IsFiniteSet(RaggedBefore(side, k)) /\ Cardinality(RaggedBefore(side, k)) \in Nat
    <2>1. k - 1 \in Int /\ IsFiniteSet(1 .. k - 1)
      BY FS_Interval
    <2>2. RaggedBefore(side, k) \in SUBSET (1 .. k - 1)
      BY DEF RaggedBefore
    <2> QED BY <2>1, <2>2, FS_Subset, FS_CardinalityType
  <1>4. k = 1 => RaggedBefore(side, k) = {}
    BY DEF RaggedBefore
  <1>5. CASE Ragged(side, k)
    <2>1. RaggedBefore(side, k + 1) = RaggedBefore(side, k) \cup {k} /\ k \notin RaggedBefore(side, k)
      BY <1>5 DEF RaggedBefore
    <2> QED BY <1>1, <1>2, <1>3, <1>4, <1>5, <2>1, FS_AddElement, FS_EmptySet
  <1>6. CASE ~ Ragged(side, k)
    <2>1. RaggedBefore(side, k + 1) = RaggedBefore(side, k)
      BY <1>6 DEF RaggedBefore
    <2> QED BY <1>1, <1>2, <1>3, <1>4, <1>6, <2>1, FS_EmptySet
  <1> QED BY <1>5, <1>6

(* A hunk with its gaps fills as many rows on one side as on the other.     *)
LEMMA SameHeight ==
    ASSUME RowsInv, NEW m \in 1 .. Len(hunks)
    PROVE  /\ DivCeil(On("a", m)) + Count("a", m) = DivCeil(On("b", m)) + Count("b", m)
           /\ hunks[m].kind = "Equal" =>
                 On("a", m) = On("b", m) /\ Count("a", m) = 0 /\ Count("b", m) = 0
  <1>1. hunks[m] \in Hunks /\ (hunks[m].kind = "Equal" => hunks[m].a_len = hunks[m].b_len)
    BY DEF RowsInv, Chained
  <1>2. PICK x \in Nat, y \in Nat : x = DivCeil(hunks[m].a_len) /\ y = DivCeil(hunks[m].b_len)
    BY <1>1, CeilIs DEF Hunks
  <1>3. DivCeil(On("a", m)) = x /\ DivCeil(On("b", m)) = y
    BY <1>2 DEF On
  <1>4. CASE hunks[m].kind = "Equal"
    <2>1. Count("a", m) = 0 /\ Count("b", m) = 0 /\ x = y /\ On("a", m) = On("b", m)
      BY <1>1, <1>2, <1>4 DEF Count, gap, On
    <2> QED BY <1>3, <2>1
  <1>5. CASE hunks[m].kind # "Equal"
    <2>1. Count("a", m) = Surplus(y, x) /\ Count("b", m) = Surplus(x, y)
      BY <1>2, <1>5 DEF Count, gap
    <2> QED BY <1>3, <1>5, <2>1 DEF Surplus
  <1> QED BY <1>4, <1>5

(* Where a hunk begins on one side, counted in bytes with the gaps above it *)
(* and what the ragged changes lack, it begins on the other.               *)
Level(k, ra, rb) ==
    /\ ra <= (columns - 1) * Rounds("a", k) /\ rb <= (columns - 1) * Rounds("b", k)
    /\ Off("a", k) + columns * AllGaps("a")[k - 1] + ra
         = Off("b", k) + columns * AllGaps("b")[k - 1] + rb

(* What one side of a hunk adds. *)
LEMMA SideGrows ==
    ASSUME RowsInv, NEW side \in Sides, NEW j \in 1 .. Len(hunks), j + 1 <= Len(hunks),
           NEW d \in Nat, d = DivCeil(On(side, j)) + Count(side, j), hunks[j].kind # "Equal",
           NEW r \in Nat, r <= (columns - 1) * Rounds(side, j)
    PROVE  \E q \in Nat :
              /\ q <= (columns - 1) * Rounds(side, j + 1)
              /\ Off(side, j + 1) + columns * AllGaps(side)[j] + q
                   = Off(side, j) + columns * AllGaps(side)[j - 1] + r + columns * d
  <1>1. PICK o \in Nat, l \in Nat, g \in Nat, c \in Nat, x \in Nat :
           /\ o = Off(side, j) /\ l = On(side, j) /\ g = AllGaps(side)[j - 1]
           /\ c = Count(side, j) /\ x = DivCeil(l)
    <2>1. j - 1 \in 0 .. Len(hunks)
      BY DEF RowsInv
    <2>2. AllGaps(side)[j - 1] \in Nat
      BY <2>1, AllGapsAre
    <2>3. On(side, j) \in Nat /\ Off(side, j) \in Nat /\ Count(side, j) \in Nat
      BY HunkIs
    <2> QED BY <2>2, <2>3, CeilIs
  <1>2. Off(side, j + 1) = o + l
    <2>1. j + 1 \in 1 .. Len(hunks) /\ (j + 1) - 1 = j
      BY DEF RowsInv
    <2>2. Off(side, j + 1) = SideEnd(side, j)
      BY <2>1, HunkIs
    <2> QED BY <1>1, <2>2, HunkIs
  <1>3. AllGaps(side)[j] = g + c
    BY <1>1, AllGapsAre
  <1>4. columns \in Nat /\ columns - 1 \in Nat
    BY RowConstants
  <1>5. PICK pad \in 0 .. columns - 1 : columns * x = l + pad /\ (l % columns = 0 => pad = 0)
    BY <1>1, PadIs
  <1>6. columns * (g + c) = columns * g + columns * c /\ columns * d = columns * x + columns * c
    <2>1. d = x + c
      BY <1>1
    <2>2. /\ columns * (g + c) = columns * g + columns * c
          /\ columns * (x + c) = columns * x + columns * c
      BY <1>4, SMTT(30)
    <2> QED BY <2>1, <2>2
  <1>7. r + pad <= (columns - 1) * Rounds(side, j + 1)
    <2>1. PICK e \in Nat, n \in Nat : e = columns - 1 /\ n = Rounds(side, j)
      BY <1>4, RoundsAre
    <2>2. e * n \in Nat /\ e * (n + 1) = e * n + e
      BY <2>1
    <2>3. CASE Ragged(side, j)
      <3>1. Rounds(side, j + 1) = n + 1
        BY <2>1, <2>3, RoundsAre
      <3>2. r <= e * n /\ pad <= e
        BY <1>5, <2>1
      <3>3. r + pad <= e * n + e
        BY <1>4, <1>5, <2>1, <2>2, <3>2
      <3> QED BY <2>1, <2>2, <3>1, <3>3
    <2>4. CASE ~ Ragged(side, j)
      <3>1. Rounds(side, j + 1) = n + 0
        BY <2>1, <2>4, RoundsAre
      <3>2. pad = 0
        BY <1>1, <1>5, <2>4 DEF Ragged
      <3> QED BY <2>1, <3>1, <3>2
    <2> QED BY <2>3, <2>4
  <1>8. PICK cg \in Nat, cc \in Nat, cx \in Nat :
           cg = columns * g /\ cc = columns * c /\ cx = columns * x
    <2>1. columns * g \in Nat /\ columns * c \in Nat /\ columns * x \in Nat
      BY <1>4, SMTT(30)
    <2> QED BY ONLY <2>1, Zenon
  <1>9. pad \in Nat /\ r + pad \in Nat
    BY <1>4, <1>5
  <1>10. o + l + (cg + cc) + (r + pad) = o + cg + r + (cx + cc)
    <2>1. cx = l + pad
      BY <1>5, <1>8
    <2> QED BY ONLY <1>9, <2>1, o \in Nat, l \in Nat, cg \in Nat, cc \in Nat, cx \in Nat, r \in Nat
  <1>11. o + l + columns * (g + c) + (r + pad) = o + columns * g + r + columns * d
    BY <1>6, <1>8, <1>10
  <1>12. Off(side, j + 1) + columns * AllGaps(side)[j] + (r + pad)
            = Off(side, j) + columns * AllGaps(side)[j - 1] + r + columns * d
    BY <1>1, <1>2, <1>3, <1>11
  <1> QED BY <1>7, <1>9, <1>12

LEMMA LevelOnce ==
    ASSUME RowsInv, NEW k \in 1 .. Len(hunks)
    PROVE  \E ra \in Nat, rb \in Nat : Level(k, ra, rb)
  <1> DEFINE n == Len(hunks)
             I == {m \in 0 .. n : m > 0 => \E ra \in Nat, rb \in Nat : Level(m, ra, rb)}
  <1>1. n \in Nat /\ "a" \in Sides /\ "b" \in Sides
    BY DEF RowsInv, Sides
  <1>2. columns \in Nat /\ columns - 1 \in Nat
    BY RowConstants
  <1>3. 0 \in I
    BY <1>1
  <1>4. ASSUME NEW m \in 1 .. n, m - 1 \in I PROVE m \in I
    <2>1. CASE m = 1
      <3>1. ASSUME NEW side \in Sides
            PROVE  Off(side, m) = 0 /\ AllGaps(side)[m - 1] = 0 /\ Rounds(side, m) = 0
        <4>1. SideEnd(side, 0) = 0
          BY DEF SideEnd
        <4> QED BY <2>1, <4>1, HunkIs, AllGapsAre, RoundsAre
      <3>2. Level(m, 0, 0)
        BY <1>1, <1>2, <3>1 DEF Level
      <3> QED BY <3>2
    <2>2. CASE m > 1
      <3>1. PICK j \in 1 .. n : j = m - 1 /\ j + 1 = m /\ j + 1 <= n
        <4>1. m - 1 \in 1 .. n /\ (m - 1) + 1 = m
          BY <1>1, <2>2
        <4> QED BY <1>1, <4>1
      <3>2. PICK ra \in Nat, rb \in Nat : Level(j, ra, rb)
        BY <1>4, <3>1
      <3>3. ASSUME NEW side \in Sides
            PROVE  /\ Off(side, j) \in Nat /\ On(side, j) \in Nat /\ Count(side, j) \in Nat
                   /\ AllGaps(side)[j - 1] \in Nat /\ Rounds(side, j) \in Nat
                   /\ AllGaps(side)[j] = AllGaps(side)[j - 1] + Count(side, j)
                   /\ Off(side, m) = Off(side, j) + On(side, j)
                   /\ Rounds(side, m) = Rounds(side, j) + IF Ragged(side, j) THEN 1 ELSE 0
                   /\ DivCeil(On(side, j)) \in Nat
        <4>1. j - 1 \in 0 .. n
          BY <1>1
        <4>2. Off(side, j) \in Nat /\ On(side, j) \in Nat /\ Count(side, j) \in Nat
          BY HunkIs
        <4>3. Off(side, m) = Off(side, j) + On(side, j)
          <5>1. Off(side, m) = SideEnd(side, j)
            BY <3>1, HunkIs
          <5> QED BY <5>1, HunkIs
        <4>4. /\ AllGaps(side)[j - 1] \in Nat
              /\ AllGaps(side)[j] = AllGaps(side)[j - 1] + Count(side, j)
          BY <4>1, AllGapsAre
        <4>5. /\ Rounds(side, j) \in Nat
              /\ Rounds(side, m) = Rounds(side, j) + IF Ragged(side, j) THEN 1 ELSE 0
          BY <3>1, RoundsAre
        <4> QED BY <4>2, <4>3, <4>4, <4>5, CeilIs
      <3>4. PICK oa \in Nat, ob \in Nat, ga \in Nat, gb \in Nat :
               /\ oa = Off("a", j) /\ ga = AllGaps("a")[j - 1]
               /\ ob = Off("b", j) /\ gb = AllGaps("b")[j - 1]
        BY <1>1, <3>3
      <3>5. oa + columns * ga + ra = ob + columns * gb + rb
        BY <3>2, <3>4 DEF Level
      <3>8. /\ Off("a", m) = oa + On("a", j) /\ AllGaps("a")[j] = ga + Count("a", j)
            /\ Off("b", m) = ob + On("b", j) /\ AllGaps("b")[j] = gb + Count("b", j)
        <4> HIDE DEF I, n
        <4>1. /\ Off("a", m) = Off("a", j) + On("a", j)
              /\ AllGaps("a")[j] = AllGaps("a")[j - 1] + Count("a", j)
          BY <1>1, <3>3, Zenon
        <4>2. /\ Off("b", m) = Off("b", j) + On("b", j)
              /\ AllGaps("b")[j] = AllGaps("b")[j - 1] + Count("b", j)
          BY <1>1, <3>3, Zenon
        <4> QED BY <3>4, <4>1, <4>2
      <3>6. CASE hunks[j].kind = "Equal"
        <4>1. PICK l \in Nat : l = On("a", j) /\ l = On("b", j) /\ Count("a", j) = 0 /\ Count("b", j) = 0
          BY <1>1, <3>3, <3>6, SameHeight
        <4>2. /\ Off("a", m) = oa + l /\ AllGaps("a")[j] = ga
              /\ Off("b", m) = ob + l /\ AllGaps("b")[j] = gb
          <5>1. oa + 0 = oa /\ ga + 0 = ga /\ gb + 0 = gb
            OBVIOUS
          <5> QED BY <3>8, <4>1, <5>1
        <4>3. Rounds("a", m) = Rounds("a", j) /\ Rounds("b", m) = Rounds("b", j)
          BY <1>1, <3>3, <3>6 DEF Ragged
        <4>4. oa + l + columns * ga + ra = ob + l + columns * gb + rb
          <5>1. PICK pa \in Nat, pb \in Nat : pa = columns * ga /\ pb = columns * gb
            BY <1>2
          <5>2. oa + pa + ra = ob + pb + rb
            BY <3>5, <5>1
          <5>3. oa + l + pa + ra = ob + l + pb + rb
            BY <5>2
          <5> QED BY <5>1, <5>3
        <4>5. Level(m, ra, rb)
          BY <3>1, <3>2, <4>2, <4>3, <4>4 DEF Level
        <4> QED BY <4>5
      <3>7. CASE hunks[j].kind # "Equal"
        <4>1. PICK d \in Nat : /\ d = DivCeil(On("a", j)) + Count("a", j)
                               /\ d = DivCeil(On("b", j)) + Count("b", j)
          <5>1. DivCeil(On("a", j)) + Count("a", j) \in Nat
            BY <1>1, <3>3
          <5> QED BY <5>1, SameHeight
        <4>2. ra <= (columns - 1) * Rounds("a", j) /\ rb <= (columns - 1) * Rounds("b", j)
          BY <3>2 DEF Level
        <4>3. PICK qa \in Nat :
                 /\ qa <= (columns - 1) * Rounds("a", m)
                 /\ Off("a", m) + columns * AllGaps("a")[j] + qa
                      = oa + columns * ga + ra + columns * d
          <5>1. d = DivCeil(On("a", j)) + Count("a", j)
            BY <4>1
          <5>2. ra <= (columns - 1) * Rounds("a", j)
            BY <4>2
          <5>3. j + 1 <= Len(hunks) /\ j \in 1 .. Len(hunks)
            BY <3>1
          <5>4. \E q \in Nat :
                   /\ q <= (columns - 1) * Rounds("a", j + 1)
                   /\ Off("a", j + 1) + columns * AllGaps("a")[j] + q
                        = Off("a", j) + columns * AllGaps("a")[j - 1] + ra + columns * d
            BY ONLY <1>1, <3>7, <5>1, <5>2, <5>3, RowsInv, d \in Nat, ra \in Nat, SideGrows
          <5> QED BY <3>1, <3>4, <5>4
        <4>4. PICK qb \in Nat :
                 /\ qb <= (columns - 1) * Rounds("b", m)
                 /\ Off("b", m) + columns * AllGaps("b")[j] + qb
                      = ob + columns * gb + rb + columns * d
          <5>1. d = DivCeil(On("b", j)) + Count("b", j)
            BY <4>1
          <5>2. rb <= (columns - 1) * Rounds("b", j)
            BY <4>2
          <5>3. j + 1 <= Len(hunks) /\ j \in 1 .. Len(hunks)
            BY <3>1
          <5>4. \E q \in Nat :
                   /\ q <= (columns - 1) * Rounds("b", j + 1)
                   /\ Off("b", j + 1) + columns * AllGaps("b")[j] + q
                        = Off("b", j) + columns * AllGaps("b")[j - 1] + rb + columns * d
            BY ONLY <1>1, <3>7, <5>1, <5>2, <5>3, RowsInv, d \in Nat, rb \in Nat, SideGrows
          <5> QED BY <3>1, <3>4, <5>4
        <4>5. Off("a", m) + columns * AllGaps("a")[j] + qa
                = Off("b", m) + columns * AllGaps("b")[j] + qb
          BY <3>5, <4>3, <4>4
        <4>6. Level(m, qa, qb)
          BY <3>1, <4>3, <4>4, <4>5 DEF Level
        <4> QED BY <4>6
      <3> QED BY <3>6, <3>7
    <2> QED BY <2>1, <2>2
  <1>5. k \in I
    <2> HIDE DEF I
    <2>1. \A m \in 0 .. n : m \in I
      BY <1>1, <1>3, <1>4, StepByStep
    <2> QED BY <2>1
  <1> QED BY <1>5

(* Two rows that begin within a row of places that are level but for r: one *)
(* is ahead of the other by no more than the rows in r.                    *)
LEMMA AheadBy ==
    ASSUME NEW x \in Nat, NEW y \in Nat, NEW n \in Nat, NEW u \in Nat, NEW r \in Nat,
           NEW o \in Nat, columns * x <= u, u <= o + r, o < columns * y + columns,
           r <= (columns - 1) * n
    PROVE  x <= y + n
  <1> SUFFICES ASSUME y + n < x PROVE FALSE
    OBVIOUS
  <1>1. columns \in Nat /\ columns - 1 \in Nat
    BY RowConstants
  <1>2. columns * (y + n) + columns <= columns * x /\ columns * (y + n) \in Nat
    BY Products
  <1>3. PICK p \in Nat, q \in Nat, e \in Nat, z \in Nat :
           p = columns * y /\ q = columns * n /\ e = (columns - 1) * n /\ z = columns * x
    BY <1>1
  <1>4. columns * (y + n) = p + q
    BY <1>1, <1>3
  <1>5. q = e + n
    BY <1>1, <1>3
  <1> QED BY <1>1, <1>2, <1>3, <1>4, <1>5

LEMMA DriftIs == RowsInv => DriftIsRounding
  <1> SUFFICES ASSUME RowsInv, NEW k \in 1 .. Len(hunks), hunks[k].kind = "Equal",
                      NEW i \in 0 .. hunks[k].a_len - 1,
                      RowBeginsIn(hunks[k].a_offset, i), RowBeginsIn(hunks[k].b_offset, i)
               PROVE  \E v \in ShownIn("a", hunks[k].a_offset + i),
                         w \in ShownIn("b", hunks[k].b_offset + i) :
                         /\ ShownIn("a", hunks[k].a_offset + i) = {v}
                         /\ ShownIn("b", hunks[k].b_offset + i) = {w}
                         /\ v <= w + Rounds("b", k)
                         /\ w <= v + Rounds("a", k)
    BY Zenon DEF DriftIsRounding
  <1>1. "a" \in Sides /\ "b" \in Sides
    BY DEF Sides
  <1>2. /\ Off("a", k) = hunks[k].a_offset /\ Off("b", k) = hunks[k].b_offset
        /\ i \in 0 .. On("a", k) - 1 /\ i \in 0 .. On("b", k) - 1
    BY DEF Off, On, RowsInv, Chained
  <1>3. ASSUME NEW side \in Sides
        PROVE  Off(side, k) \in Nat /\ AllGaps(side)[k - 1] \in Nat /\ Rounds(side, k) \in Nat
    <2>1. k - 1 \in 0 .. Len(hunks)
      BY DEF RowsInv
    <2> QED BY <2>1, AllGapsAre, HunkIs, RoundsAre
  <1>4. PICK oa \in Nat, ga \in Nat, na \in Nat, ob \in Nat, gb \in Nat, nb \in Nat :
           /\ oa = Off("a", k) /\ ga = AllGaps("a")[k - 1] /\ na = Rounds("a", k)
           /\ ob = Off("b", k) /\ gb = AllGaps("b")[k - 1] /\ nb = Rounds("b", k)
    BY <1>1, <1>3
  <1>5. PICK xa \in Nat, ua \in 0 .. columns - 1 :
           /\ oa + i = columns * xa + ua
           /\ ShownIn("a", Off("a", k) + i) = {xa + 1 + ga}
    <2>1. RowBeginsIn(Off("a", k), i) /\ i \in 0 .. On("a", k) - 1
      BY <1>2
    <2>2. \E row \in Nat, r \in 0 .. columns - 1 :
             /\ Off("a", k) + i = columns * row + r
             /\ ShownIn("a", Off("a", k) + i) = {row + 1 + AllGaps("a")[k - 1]}
      BY <1>1, <2>1, ShownAt
    <2> QED BY <1>4, <2>2
  <1>6. PICK xb \in Nat, ub \in 0 .. columns - 1 :
           /\ ob + i = columns * xb + ub
           /\ ShownIn("b", Off("b", k) + i) = {xb + 1 + gb}
    <2>1. RowBeginsIn(Off("b", k), i) /\ i \in 0 .. On("b", k) - 1
      BY <1>2
    <2>2. \E row \in Nat, r \in 0 .. columns - 1 :
             /\ Off("b", k) + i = columns * row + r
             /\ ShownIn("b", Off("b", k) + i) = {row + 1 + AllGaps("b")[k - 1]}
      BY <1>1, <2>1, ShownAt
    <2> QED BY <1>4, <2>2
  <1>7. PICK ra \in Nat, rb \in Nat : Level(k, ra, rb)
    BY LevelOnce
  <1>8. PICK c \in Nat : c = columns /\ c > 0
    BY RowConstants
  <1>9. /\ c * (xa + ga) = c * xa + c * ga /\ c * (xb + gb) = c * xb + c * gb
        /\ c * xa \in Nat /\ c * ga \in Nat /\ c * xb \in Nat /\ c * gb \in Nat
    BY <1>8
  <1>10. PICK pa \in Nat, ha \in Nat, pb \in Nat, hb \in Nat :
            pa = c * xa /\ ha = c * ga /\ pb = c * xb /\ hb = c * gb
    BY <1>9
  <1>11. /\ oa + ha + ra = ob + hb + rb
         /\ ra <= (columns - 1) * na /\ rb <= (columns - 1) * nb
    <2>1. /\ oa + columns * ga + ra = ob + columns * gb + rb
          /\ ra <= (columns - 1) * na /\ rb <= (columns - 1) * nb
      BY <1>4, <1>7 DEF Level
    <2> QED BY <1>8, <1>10, <2>1
  <1>12. i \in Nat /\ ua \in Nat /\ ub \in Nat /\ ua < c /\ ub < c
    <2>1. i \in Nat
      BY <1>1, <1>2, HunkIs
    <2>2. ua \in Nat /\ ua < columns /\ ub \in Nat /\ ub < columns
      BY RowConstants
    <2> QED BY <1>8, <2>1, <2>2
  <1>13. oa + i = pa + ua /\ ob + i = pb + ub
    BY <1>5, <1>6, <1>8, <1>10
  <1>14. xa + ga <= xb + gb + nb
    <2>1. PICK u \in Nat, o \in Nat : u = oa + i + ha /\ o = ob + i + hb
      BY <1>12
    <2>2. columns * (xa + ga) <= u /\ u <= o + rb /\ o < columns * (xb + gb) + columns
      BY <1>8, <1>9, <1>10, <1>11, <1>12, <1>13, <2>1
    <2>3. PICK x \in Nat, y \in Nat : x = xa + ga /\ y = xb + gb
      OBVIOUS
    <2>4. columns * x <= u /\ o < columns * y + columns /\ rb <= (columns - 1) * nb
      BY <1>11, <2>2, <2>3
    <2>5. x <= y + nb
      BY ONLY <2>2, <2>4, u \in Nat, o \in Nat, x \in Nat, y \in Nat, rb \in Nat, nb \in Nat, AheadBy
    <2> QED BY <2>3, <2>5
  <1>15. xb + gb <= xa + ga + na
    <2>1. PICK u \in Nat, o \in Nat : u = ob + i + hb /\ o = oa + i + ha
      BY <1>12
    <2>2. columns * (xb + gb) <= u /\ u <= o + ra /\ o < columns * (xa + ga) + columns
      BY <1>8, <1>9, <1>10, <1>11, <1>12, <1>13, <2>1
    <2>3. PICK x \in Nat, y \in Nat : x = xb + gb /\ y = xa + ga
      OBVIOUS
    <2>4. columns * x <= u /\ o < columns * y + columns /\ ra <= (columns - 1) * na
      BY <1>11, <2>2, <2>3
    <2>5. x <= y + na
      BY ONLY <2>2, <2>4, u \in Nat, o \in Nat, x \in Nat, y \in Nat, ra \in Nat, na \in Nat, AheadBy
    <2> QED BY <2>3, <2>5
  <1>16. xa + 1 + ga <= xb + 1 + gb + nb /\ xb + 1 + gb <= xa + 1 + ga + na
    BY <1>14, <1>15
  <1> QED BY <1>2, <1>4, <1>5, <1>6, <1>16

(* Equal bytes face each other up to rounding: in any diff, the visual row  *)
(* of one side is ahead of the other's by no more than one for each change  *)
(* above them that is no whole number of rows (diff.rs build_row_maps).     *)
THEOREM DriftIsAlwaysRounding == PanelsSpec => []DriftIsRounding
  <1>1. PanelsInit => RowsInv
    BY RowsInitially DEF PanelsInit
  <1>2. RowsInv /\ [PanelsNext]_panelsVars => RowsInv'
    <2> SUFFICES ASSUME RowsInv, [PanelsNext]_panelsVars PROVE RowsInv'
      OBVIOUS
    <2>1. CASE UNCHANGED hunks
      BY <2>1 DEF RowsInv, Chained, SideEnd
    <2>2. CASE RowsStep
      BY <2>2, AddHunkKeeps DEF RowsStep
    <2>3. PanelsNext => UNCHANGED hunks \/ RowsStep
      BY DEF PanelsNext, EditTab, SaveTab, ReloadTab, TemplateStep, AnalysisStep, CompareStep,
             SearchStep, FindStep, StringsStep, algorithmVars
    <2> QED BY <2>1, <2>2, <2>3 DEF panelsVars, algorithmVars
  <1> QED BY <1>1, <1>2, DriftIs, PTL DEF PanelsSpec

-----------------------------------------------------------------------------
(* Strings: what starts at an offset. *)

Encodings == {"ascii", "utf8", "utf16"}

(* n bytes from i on belong together. *)
Fits(e, buf, i, n) ==
    i + n <= Len(buf) /\ (e = "utf8" => \A k \in 2 .. n : buf[i + k] = "c")

(* The character at i is one that prints. *)
Prints(e, buf, i) ==
    CASE e = "utf16" -> buf[i + 1] # "n" \/ buf[i + 2] # "n"
      [] e = "utf8"  -> buf[i + 1] \notin {"n", "c"}
      [] OTHER       -> buf[i + 1] = "p"

LEMMA WidthIs ==
    ASSUME NEW e \in Encodings, NEW b \in Classes
    PROVE  /\ Width(e, b) \in 1 .. 3
           /\ e = "utf16" => Width(e, b) = 2
           /\ e = "ascii" => Width(e, b) = 1
  BY DEF Width, Classes, Encodings

LEMMA JoinedIs ==
    ASSUME NEW e \in Encodings, NEW buf \in Seq(Classes), NEW i \in 0 .. Len(buf) - 1,
           NEW width \in 1 .. 3
    PROVE  LET n == Joined(e, buf, i, width)
           IN  n \in 1 .. width /\ Fits(e, buf, i, n) /\ (n = width \/ ~Fits(e, buf, i, n + 1))
  <1> DEFINE Good(n) == Fits(e, buf, i, n)
  <1>1. Joined(e, buf, i, width) = CHOOSE n \in 1 .. width : Good(n) /\ (n = width \/ ~Good(n + 1))
    BY DEF Joined, Fits
  <1>2. Good(1)
    BY DEF Fits
  <1> HIDE DEF Good
  <1>3. \E n \in 1 .. width : Good(n) /\ (n = width \/ ~Good(n + 1))
    <2>1. CASE width = 1 \/ ~Good(2)
      BY <1>2, <2>1
    <2>2. CASE width # 1 /\ Good(2) /\ (width = 2 \/ ~Good(3))
      BY <2>2
    <2>3. CASE width = 3 /\ Good(2) /\ Good(3)
      BY <2>3
    <2> QED BY <2>1, <2>2, <2>3
  <1>4. LET n == Joined(e, buf, i, width)
        IN  n \in 1 .. width /\ Good(n) /\ (n = width \/ ~Good(n + 1))
    BY <1>1, <1>3
  <1> QED BY <1>4 DEF Good

(* Where the character that starts at i ends, and what it is. *)
LEMMA UnitIs ==
    ASSUME NEW e \in Encodings, NEW buf \in Seq(Classes), NEW i \in 0 .. Len(buf) - 1
    PROVE  LET u == Unit(e, buf, i)
               width == Width(e, buf[i + 1])
           IN  /\ width \in 1 .. 3 /\ u.n \in 1 .. width /\ Fits(e, buf, i, u.n)
               /\ u.n = width \/ ~Fits(e, buf, i, u.n + 1)
               /\ u.kind \in {"prints", "breaks", "partial"}
               /\ u.kind = "partial" <=> u.n < width /\ i + u.n = Len(buf)
               /\ u.kind = "prints" <=> u.n = width /\ Prints(e, buf, i)
  <1> DEFINE width == Width(e, buf[i + 1])
             n == Joined(e, buf, i, width)
             u == Unit(e, buf, i)
  <1>1. buf[i + 1] \in Classes
    OBVIOUS
  <1>2. width \in 1 .. 3
    BY <1>1, WidthIs
  <1> HIDE DEF width
  <1>3. n \in 1 .. width /\ Fits(e, buf, i, n) /\ (n = width \/ ~Fits(e, buf, i, n + 1))
    BY <1>2, JoinedIs
  <1>4. u = [n |-> n, kind |-> IF n < width
                               THEN IF i + n = Len(buf) THEN "partial" ELSE "breaks"
                               ELSE IF Prints(e, buf, i) THEN "prints" ELSE "breaks"]
    BY DEF Unit, Prints, width
  <1> HIDE DEF u, n
  <1>5. u.n = n /\ u.kind = IF n < width
                            THEN IF i + n = Len(buf) THEN "partial" ELSE "breaks"
                            ELSE IF Prints(e, buf, i) THEN "prints" ELSE "breaks"
    BY <1>4
  <1>6. u.n \in 1 .. width /\ Fits(e, buf, i, u.n) /\ (u.n = width \/ ~Fits(e, buf, i, u.n + 1))
    BY <1>3, <1>5
  <1>7. /\ u.kind \in {"prints", "breaks", "partial"}
        /\ u.kind = "partial" <=> u.n < width /\ i + u.n = Len(buf)
        /\ u.kind = "prints" <=> u.n = width /\ Prints(e, buf, i)
    BY <1>2, <1>3, <1>5
  <1> QED BY <1>2, <1>6, <1>7 DEF u, width


(* The bytes the extractor reads. *)
Text == config.bytes
Size == Len(Text)

ConfigTyped ==
    /\ config.encoding \in Encodings /\ Text \in Seq(Classes)
    /\ config.chunk \in Nat \ {0} /\ config.min_length \in Nat \ {0}

UnitAt(p) == Unit(config.encoding, Text, p)

LEMMA SliceIs ==
    ASSUME NEW S, NEW buf \in Seq(S), NEW off \in Nat, NEW n \in Nat, off + n <= Len(buf)
    PROVE  Slice(buf, off, n) \in Seq(S) /\ Len(Slice(buf, off, n)) = n
  BY DEF Slice

(* What a window of the range shows of the range. *)
LEMMA WindowIs ==
    ASSUME ConfigTyped, NEW base \in Nat, NEW len \in Nat, base + len <= Size, NEW i \in 0 .. len - 1
    PROVE  LET u == Unit(config.encoding, Slice(Text, base, len), i)
               g == UnitAt(base + i)
           IN  /\ u.n \in 1 .. 3 /\ i + u.n <= len
               /\ config.encoding = "utf8" => \A k \in 2 .. u.n : Text[base + i + k] = "c"
               /\ config.encoding = "ascii" => u.n = 1
               /\ config.encoding = "utf16" => u.n <= 2 /\ (u.kind # "partial" => u.n = 2)
               /\ u.kind \in {"prints", "breaks", "partial"}
               /\ u.kind = "prints" => g.kind = "prints" /\ u.n = Width(config.encoding, Text[base + i + 1])
               /\ u.kind = "breaks" => g.kind = "breaks"
               /\ u.kind = "partial" => i + u.n = len /\ (base + len = Size => g.kind = "partial")
  <1> DEFINE e == config.encoding
             buf == Slice(Text, base, len)
             u == Unit(e, buf, i)
             g == UnitAt(base + i)
             width == Width(e, Text[base + i + 1])
  <1>1. /\ e \in Encodings /\ Text \in Seq(Classes) /\ Size = Len(Text) /\ Size \in Nat
        /\ base + i \in 0 .. Len(Text) - 1
    BY DEF ConfigTyped, Size
  <1>2. buf \in Seq(Classes) /\ Len(buf) = len /\ i \in 0 .. Len(buf) - 1
    BY <1>1, SliceIs
  <1>3. \A k \in 1 .. len : buf[k] = Text[base + k]
    BY DEF Slice
  <1>4. \A k \in Nat \ {0} : i + k <= len => buf[i + k] = Text[base + i + k]
    BY <1>1, <1>3
  <1>5. buf[i + 1] = Text[base + i + 1]
    BY <1>4
  <1> HIDE DEF buf, e
  <1>6. /\ width \in 1 .. 3 /\ u.n \in 1 .. width /\ Fits(e, buf, i, u.n)
        /\ u.n = width \/ ~Fits(e, buf, i, u.n + 1)
        /\ u.kind \in {"prints", "breaks", "partial"}
        /\ u.kind = "partial" <=> u.n < width /\ i + u.n = Len(buf)
        /\ u.kind = "prints" <=> u.n = width /\ Prints(e, buf, i)
    <2> DEFINE w == Width(e, buf[i + 1])
    <2>1. /\ w \in 1 .. 3 /\ u.n \in 1 .. w /\ Fits(e, buf, i, u.n)
          /\ u.n = w \/ ~Fits(e, buf, i, u.n + 1)
          /\ u.kind \in {"prints", "breaks", "partial"}
          /\ u.kind = "partial" <=> u.n < w /\ i + u.n = Len(buf)
          /\ u.kind = "prints" <=> u.n = w /\ Prints(e, buf, i)
      BY <1>1, <1>2, UnitIs
    <2>2. w = width
      BY <1>5
    <2> QED BY <2>1, <2>2
  <1>7. /\ g.n \in 1 .. width /\ Fits(e, Text, base + i, g.n)
        /\ g.n = width \/ ~Fits(e, Text, base + i, g.n + 1)
        /\ g.kind \in {"prints", "breaks", "partial"}
        /\ g.kind = "partial" <=> g.n < width /\ base + i + g.n = Len(Text)
        /\ g.kind = "prints" <=> g.n = width /\ Prints(e, Text, base + i)
    BY <1>1, UnitIs DEF UnitAt, e
  <1>8. /\ e = "utf16" => width = 2
        /\ e = "ascii" => width = 1
    <2>1. Text[base + i + 1] \in Classes
      BY <1>1
    <2> QED BY <1>1, <2>1, WidthIs
  <1> HIDE DEF u, g, width
  (* Within the window both see the same bytes. *)
  <1>9. ASSUME NEW n \in 1 .. 3, i + n <= len
        PROVE  Fits(e, buf, i, n) <=> Fits(e, Text, base + i, n)
    <2>1. i + n <= Len(buf) /\ base + i + n <= Len(Text)
      BY <1>1, <1>2, <1>9
    <2>2. \A k \in 2 .. n : buf[i + k] = Text[base + i + k]
      BY <1>4, <1>9
    <2> QED BY <2>1, <2>2 DEF Fits
  <1>10. u.n = 2 \/ e # "utf16" => (Prints(e, buf, i) <=> Prints(e, Text, base + i))
    <2>1. CASE e = "utf16"
      <3>1. u.n = 2 => i + 2 <= len
        BY <1>2, <1>6 DEF Fits
      <3>2. u.n = 2 => buf[i + 2] = Text[base + i + 2]
        BY <1>4, <3>1
      <3> QED BY <1>5, <2>1, <3>2 DEF Prints
    <2>2. CASE e # "utf16"
      BY <1>5, <2>2 DEF Prints
    <2> QED BY <2>1, <2>2
  <1>11. u.n \in 1 .. 3 /\ i + u.n <= len
    BY <1>2, <1>6 DEF Fits
  <1>12. e = "utf8" => \A k \in 2 .. u.n : Text[base + i + k] = "c"
    <2>1. Fits(e, Text, base + i, u.n)
      BY <1>6, <1>9, <1>11
    <2> QED BY <2>1 DEF Fits
  (* The same joined bytes, unless the window ends there. *)
  <1>13. g.n = u.n \/ (u.n < g.n /\ u.n < width /\ i + u.n = len)
    <2>1. Fits(e, Text, base + i, u.n)
      BY <1>6, <1>9, <1>11
    <2>2. ASSUME NEW m \in 1 .. 3, NEW n \in 1 .. m, Fits(e, Text, base + i, m)
          PROVE  Fits(e, Text, base + i, n)
      <3>1. base + i + m <= Len(Text) /\ (e = "utf8" => \A k \in 2 .. m : Text[base + i + k] = "c")
        BY <2>2 DEF Fits
      <3>2. base + i + n <= Len(Text) /\ \A k \in 2 .. n : k \in 2 .. m
        BY <1>1, <3>1
      <3>3. e = "utf8" => \A k \in 2 .. n : Text[base + i + k] = "c"
        BY <3>1, <3>2
      <3> QED BY <3>2, <3>3 DEF Fits
    <2>3. ~(g.n < u.n)
      <3> SUFFICES ASSUME g.n < u.n PROVE FALSE
        OBVIOUS
      <3>1. g.n + 1 \in 1 .. u.n /\ u.n \in 1 .. 3 /\ g.n # width
        BY <1>6, <1>7
      <3> QED BY <1>7, <2>1, <2>2, <3>1
    <2>4. ASSUME u.n < g.n PROVE u.n < width /\ i + u.n = len
      <3>1. u.n + 1 \in 1 .. g.n /\ g.n \in 1 .. 3 /\ u.n # width /\ u.n < width /\ u.n + 1 \in 1 .. 3
        BY <1>6, <1>7, <2>4
      <3>2. Fits(e, Text, base + i, u.n + 1)
        BY <1>7, <2>2, <3>1
      <3>3. ~Fits(e, buf, i, u.n + 1)
        BY <1>6, <3>1
      <3>4. ~(i + (u.n + 1) <= len)
        BY <1>9, <3>1, <3>2, <3>3
      <3> QED BY <1>11, <3>1, <3>4
    <2> QED BY <1>6, <1>7, <2>3, <2>4
  <1>14. e = "ascii" => u.n = 1
    BY <1>6, <1>8
  <1>15. e = "utf16" => u.n <= 2 /\ (u.kind # "partial" => u.n = 2)
    <2> SUFFICES ASSUME e = "utf16", u.n = 1 PROVE u.kind = "partial"
      BY <1>6, <1>8
    <2>1. ~Fits(e, buf, i, 2) /\ width = 2
      BY <1>6, <1>8
    <2>2. ~(i + 2 <= Len(buf))
      BY <2>1 DEF Fits
    <2>3. i + u.n = Len(buf)
      BY <1>2, <2>2
    <2> QED BY <1>6, <2>1, <2>3
  <1>16. u.kind = "prints" => g.kind = "prints" /\ u.n = width
    <2> SUFFICES ASSUME u.kind = "prints" PROVE g.kind = "prints" /\ u.n = width
      OBVIOUS
    <2>1. u.n = width /\ Prints(e, buf, i) /\ g.n = u.n
      BY <1>6, <1>7, <1>13
    <2> QED BY <1>7, <1>8, <1>10, <2>1
  <1>17. u.kind = "breaks" => g.kind = "breaks"
    <2> SUFFICES ASSUME u.kind = "breaks" PROVE g.kind = "breaks"
      OBVIOUS
    <2>1. ~(u.n < width /\ i + u.n = len) /\ ~(u.n = width /\ Prints(e, buf, i))
      BY <1>2, <1>6
    <2>2. g.n = u.n
      BY <1>13, <2>1
    <2>3. g.kind # "prints"
      BY <1>7, <1>8, <1>10, <2>1, <2>2
    <2>4. g.kind # "partial"
      <3> SUFFICES ASSUME g.n < width, base + i + g.n = Len(Text) PROVE FALSE
        BY <1>7
      <3>1. i + u.n = len
        BY <1>1, <1>11, <2>2
      <3> QED BY <2>1, <2>2, <3>1
    <2> QED BY <1>7, <2>3, <2>4
  <1>18. u.kind = "partial" => i + u.n = len /\ (base + len = Size => g.kind = "partial")
    <2> SUFFICES ASSUME u.kind = "partial", base + len = Size PROVE g.kind = "partial"
      BY <1>2, <1>6
    <2>1. u.n < width /\ i + u.n = len
      BY <1>2, <1>6
    <2>2. base + i + g.n <= Len(Text)
      BY <1>7 DEF Fits
    <2>3. g.n = u.n
      BY <1>1, <1>7, <1>11, <1>13, <2>1, <2>2
    <2> QED BY <1>1, <1>7, <2>1, <2>3
  <1>19. /\ u.n \in 1 .. 3 /\ i + u.n <= len
         /\ e = "utf8" => \A k \in 2 .. u.n : Text[base + i + k] = "c"
         /\ e = "ascii" => u.n = 1
         /\ e = "utf16" => u.n <= 2 /\ (u.kind # "partial" => u.n = 2)
         /\ u.kind \in {"prints", "breaks", "partial"}
         /\ u.kind = "prints" => g.kind = "prints" /\ u.n = width
         /\ u.kind = "breaks" => g.kind = "breaks"
         /\ u.kind = "partial" => i + u.n = len /\ (base + len = Size => g.kind = "partial")
    BY <1>6, <1>11, <1>12, <1>14, <1>15, <1>16, <1>17, <1>18
  <1> QED BY <1>19 DEF e, buf, u, g, width

-----------------------------------------------------------------------------
(* Strings: characters and the runs they make. *)

Chars(lo, hi) == {i \in lo .. hi - 1 : CharAt(i)}
NoneEnds(p) == ~\E i \in 0 .. p - 1 : CharAt(i) /\ After(i) = p

(* Characters from f on, each touching the next, the last one up to p. *)
Chain(f, p) ==
    /\ f \in 0 .. p - 1 /\ CharAt(f)
    /\ \A i \in Chars(f, p) : After(i) \in Chars(f, p) \cup {p}
    /\ p \in {After(i) : i \in Chars(f, p)}
    /\ NoneEnds(f)

LEMMA RunsAre ==
    ASSUME ConfigTyped
    PROVE  \A r : r \in Runs <=> /\ r = <<r[1], r[2]>> /\ r[2] \in 0 .. Size /\ Chain(r[1], r[2])
                                 /\ r[2] = Size \/ ~CharAt(r[2])
  <1>1. Size \in Nat /\ Size = Len(config.bytes)
    BY DEF ConfigTyped, Size, Text
  <1>2. ASSUME NEW f \in 0 .. Size, NEW p \in 0 .. Size, f < p
        PROVE  Run(f, p) <=> Chain(f, p) /\ (p = Size \/ ~CharAt(p))
    <2>1. f \in 0 .. p - 1
      BY <1>1, <1>2
    <2> QED BY <1>1, <2>1, Zenon DEF Run, Chain, Chars, NoneEnds
  <1>3. TAKE r
  <1>4. r \in Runs <=> r \in (0 .. Size) \X (0 .. Size) /\ r[1] < r[2] /\ Run(r[1], r[2])
    BY <1>1 DEF Runs
  <1>5. ASSUME r \in Runs
        PROVE  /\ r = <<r[1], r[2]>> /\ r[2] \in 0 .. Size /\ Chain(r[1], r[2])
               /\ r[2] = Size \/ ~CharAt(r[2])
    BY <1>2, <1>4, <1>5
  <1>6. ASSUME r = <<r[1], r[2]>>, r[2] \in 0 .. Size, Chain(r[1], r[2]), r[2] = Size \/ ~CharAt(r[2])
        PROVE  r \in Runs
    <2>1. r[1] \in 0 .. Size /\ r[1] < r[2]
      BY <1>1, <1>6 DEF Chain
    <2> QED BY <1>2, <1>4, <1>6, <2>1
  <1> QED BY <1>5, <1>6

LEMMA PrintsAt ==
    ASSUME ConfigTyped, NEW i \in Nat, CharAt(i)
    PROVE  /\ i < Size /\ Prints(config.encoding, Text, i)
           /\ config.encoding = "utf16" => i % 2 = 0
           /\ After(i) \in i + 1 .. i + 3 /\ After(i) <= Size
           /\ config.encoding = "ascii" => After(i) = i + 1
           /\ config.encoding = "utf16" => After(i) = i + 2
           /\ config.encoding = "utf8" => \A k \in 2 .. After(i) - i : Text[i + k] = "c"
  <1> DEFINE width == Width(config.encoding, Text[i + 1])
             u == UnitAt(i)
  <1>1. /\ config.encoding \in Encodings /\ Text \in Seq(Classes) /\ Size = Len(Text) /\ Size \in Nat
    BY DEF ConfigTyped, Size
  <1>2. i < Size /\ (config.encoding = "utf16" => i % 2 = 0) /\ u.kind = "prints"
    BY DEF CharAt, UnitAt, Size, Text
  <1>3. i \in 0 .. Len(Text) - 1 /\ Text[i + 1] \in Classes
    BY <1>1, <1>2
  <1>4. width \in 1 .. 3 /\ u.n = width /\ Fits(config.encoding, Text, i, u.n)
        /\ Prints(config.encoding, Text, i)
    BY <1>1, <1>2, <1>3, UnitIs DEF UnitAt
  <1>5. After(i) = i + width
    BY DEF After, Text
  <1>6. /\ config.encoding = "utf16" => width = 2
        /\ config.encoding = "ascii" => width = 1
    BY <1>1, <1>3, WidthIs
  <1> HIDE DEF width, u
  <1>7. i + width <= Size /\ (config.encoding = "utf8" => \A k \in 2 .. width : Text[i + k] = "c")
    BY <1>1, <1>4 DEF Fits
  <1>8. After(i) - i = width
    BY <1>4, <1>5
  <1> QED BY <1>2, <1>4, <1>5, <1>6, <1>7, <1>8

(* No character starts inside of a unit. *)
LEMMA QuietInside ==
    ASSUME ConfigTyped, NEW p \in Nat, NEW n \in 1 .. 3,
           config.encoding = "utf8" => \A k \in 2 .. n : Text[p + k] = "c",
           config.encoding = "ascii" => n = 1,
           config.encoding = "utf16" => n <= 2 /\ p % 2 = 0
    PROVE  \A j \in p + 1 .. p + n - 1 : ~CharAt(j)
  <1> SUFFICES ASSUME NEW j \in p + 1 .. p + n - 1, CharAt(j) PROVE FALSE
    OBVIOUS
  <1>1. j \in Nat /\ j - p + 1 \in 2 .. n /\ p + (j - p + 1) = j + 1
    OBVIOUS
  <1>2. /\ Prints(config.encoding, Text, j)
        /\ config.encoding = "utf16" => j % 2 = 0
    BY <1>1, PrintsAt
  <1>3. CASE config.encoding = "utf8"
    <2>1. Text[j + 1] = "c"
      BY <1>1, <1>3
    <2> QED BY <1>2, <1>3, <2>1 DEF Prints
  <1>4. CASE config.encoding = "utf16"
    <2>1. j = p + 1 /\ p % 2 = 0 /\ j % 2 = 0
      BY <1>2, <1>4
    <2> QED BY <2>1
  <1>5. CASE config.encoding = "ascii"
    BY <1>5
  <1> QED BY <1>3, <1>4, <1>5 DEF ConfigTyped, Encodings

LEMMA CharIs ==
    ASSUME ConfigTyped, NEW i \in Nat, CharAt(i)
    PROVE  /\ i < Size /\ After(i) \in Nat /\ i < After(i) /\ After(i) <= Size
           /\ \A j \in i + 1 .. After(i) - 1 : ~CharAt(j)
  <1> DEFINE n == After(i) - i
  <1>1. /\ i < Size
        /\ config.encoding = "utf16" => i % 2 = 0
        /\ After(i) \in i + 1 .. i + 3 /\ After(i) <= Size
        /\ config.encoding = "ascii" => After(i) = i + 1
        /\ config.encoding = "utf16" => After(i) = i + 2
        /\ config.encoding = "utf8" => \A k \in 2 .. n : Text[i + k] = "c"
    BY PrintsAt
  <1>2. /\ n \in 1 .. 3 /\ i + n = After(i)
        /\ config.encoding = "ascii" => n = 1
        /\ config.encoding = "utf16" => n <= 2
    BY <1>1
  <1> HIDE DEF n
  <1>3. \A j \in i + 1 .. i + n - 1 : ~CharAt(j)
    BY <1>1, <1>2, QuietInside
  <1> QED BY <1>1, <1>2, <1>3

LEMMA CharsApart ==
    ASSUME ConfigTyped, NEW i \in Nat, NEW j \in Nat, CharAt(i), CharAt(j), i < j
    PROVE  After(i) <= j
  <1>1. After(i) \in Nat /\ \A k \in i + 1 .. After(i) - 1 : ~CharAt(k)
    BY CharIs
  <1> QED BY <1>1

(* Nothing straddles p. *)
Sync(p) ==
    /\ p \in 0 .. Size
    /\ config.encoding = "utf16" => p % 2 = 0
    /\ \A i \in 0 .. p - 1 : CharAt(i) => After(i) <= p

LEMMA CharsFinite ==
    ASSUME NEW lo \in Nat, NEW hi \in Nat
    PROVE  IsFiniteSet(Chars(lo, hi)) /\ Cardinality(Chars(lo, hi)) \in Nat
  <1>1. IsFiniteSet(lo .. hi - 1)
    BY FS_Interval
  <1>2. Chars(lo, hi) \subseteq lo .. hi - 1
    BY DEF Chars
  <1> QED BY <1>1, <1>2, FS_Subset, FS_CardinalityType

(* The scanner moves past a character: either it starts a run ... *)
LEMMA ChainStarts ==
    ASSUME ConfigTyped, NEW p \in Nat, CharAt(p), NoneEnds(p)
    PROVE  Chain(p, After(p)) /\ Cardinality(Chars(p, After(p))) = 1
  <1>1. After(p) \in Nat /\ p < After(p) /\ \A j \in p + 1 .. After(p) - 1 : ~CharAt(j)
    BY CharIs
  <1>2. Chars(p, After(p)) = {p}
    BY <1>1 DEF Chars
  <1>3. Cardinality({p}) = 1
    BY FS_Singleton
  <1>4. p \in 0 .. After(p) - 1
    BY <1>1
  <1> QED BY <1>2, <1>3, <1>4 DEF Chain

(* ... or it prolongs the one that ends there. *)
LEMMA ChainGrows ==
    ASSUME ConfigTyped, NEW f, NEW p \in Nat, CharAt(p), Chain(f, p)
    PROVE  /\ Chain(f, After(p))
           /\ Cardinality(Chars(f, After(p))) = Cardinality(Chars(f, p)) + 1
  <1>1. After(p) \in Nat /\ p < After(p) /\ \A j \in p + 1 .. After(p) - 1 : ~CharAt(j)
    BY CharIs
  <1>2. f \in Nat /\ f < p
    BY DEF Chain
  <1>3. Chars(f, After(p)) = Chars(f, p) \cup {p} /\ p \notin Chars(f, p)
    BY <1>1, <1>2 DEF Chars
  <1>4. Cardinality(Chars(f, p) \cup {p}) = Cardinality(Chars(f, p)) + 1
    BY <1>2, <1>3, CharsFinite, FS_AddElement
  <1>5. f \in 0 .. After(p) - 1
    BY <1>1, <1>2
  <1>6. \A i \in Chars(f, After(p)) : After(i) \in Chars(f, After(p)) \cup {After(p)}
    BY <1>3 DEF Chain
  <1>7. After(p) \in {After(i) : i \in Chars(f, After(p))}
    BY <1>3
  <1> QED BY <1>3, <1>4, <1>5, <1>6, <1>7 DEF Chain

(* A run is known by where it ends. *)
LEMMA ChainReaches ==
    ASSUME ConfigTyped, NEW f, NEW g, NEW p \in Nat, Chain(f, p), Chain(g, p), f < g
    PROVE  FALSE
  <1>1. f \in Nat /\ g \in Nat /\ g < p /\ CharAt(f) /\ CharAt(g) /\ f \in Chars(f, p)
    BY DEF Chain, Chars
  <1> DEFINE S == {p - i : i \in Chars(f, g)}
  <1>2. S \in SUBSET Nat /\ p - f \in S
    BY <1>1 DEF Chars
  <1>3. PICK d \in S : \A e \in S : d <= e
    <2> HIDE DEF S
    <2> QED BY <1>2, LowestExists
  <1>4. PICK i \in Chars(f, g) : d = p - i
    BY <1>3
  <1>5. \A j \in Chars(f, g) : j <= i
    <2> TAKE j \in Chars(f, g)
    <2>1. p - j \in S /\ i \in Nat /\ j \in Nat
      BY <1>1 DEF Chars
    <2>2. p - i <= p - j
      BY <1>3, <1>4, <2>1
    <2> QED BY <2>1, <2>2
  <1> HIDE DEF S
  <1>6. i \in Nat /\ f <= i /\ i < g /\ CharAt(i) /\ i \in Chars(f, p)
    BY <1>1 DEF Chars
  <1>7. After(i) \in Nat /\ i < After(i) /\ After(i) <= g
    BY <1>1, <1>6, CharIs, CharsApart
  <1>8. After(i) \in Chars(f, p)
    BY <1>1, <1>6, <1>7 DEF Chain
  <1>9. ~(After(i) < g)
    <2> SUFFICES ASSUME After(i) < g PROVE FALSE
      OBVIOUS
    <2>1. After(i) \in Chars(f, g)
      BY <1>1, <1>7, <1>8 DEF Chars
    <2> QED BY <1>5, <1>6, <1>7, <2>1
  <1>10. After(i) = g /\ i \in 0 .. g - 1
    BY <1>1, <1>6, <1>7, <1>9
  <1> QED BY <1>6, <1>10 DEF Chain, NoneEnds

LEMMA ChainUnique ==
    ASSUME ConfigTyped, NEW f, NEW g, NEW p \in Nat, Chain(f, p), Chain(g, p)
    PROVE  f = g
  <1>1. f \in Nat /\ g \in Nat
    BY DEF Chain
  <1> QED BY <1>1, ChainReaches

(* Two runs do not overlap. *)
LEMMA RunsApart ==
    ASSUME ConfigTyped, NEW q \in Runs, NEW f, NEW p \in Nat, p <= Size, Chain(f, p), q[2] < p
    PROVE  q[2] <= f
  <1>1. q[2] \in Nat /\ Chain(q[1], q[2]) /\ (q[2] = Size \/ ~CharAt(q[2])) /\ Size \in Nat
    BY RunsAre DEF ConfigTyped, Size
  <1>2. PICK i \in Chars(q[1], q[2]) : After(i) = q[2]
    BY <1>1 DEF Chain
  <1>3. i \in Nat /\ i < q[2] /\ CharAt(i) /\ f \in Nat /\ CharAt(f)
    BY <1>1 DEF Chars, Chain
  <1>4. CASE i < f
    BY <1>2, <1>3, <1>4, CharsApart
  <1>5. CASE f <= i
    <2>1. i \in Chars(f, p)
      BY <1>1, <1>3, <1>5 DEF Chars
    <2>2. q[2] \in Chars(f, p)
      BY <1>1, <1>2, <2>1 DEF Chain
    <2>3. CharAt(q[2]) /\ q[2] # Size
      BY <1>1, <2>2 DEF Chars
    <2> QED BY <1>1, <2>3
  <1> QED BY <1>3, <1>4, <1>5

-----------------------------------------------------------------------------
(* Strings: what the scanner holds. *)

Entries == [offset: Nat, end: Nat]

(* The runs that end before p, as the scanner reports them. *)
Found(p) == {Closed(q) : q \in {r \in Runs : Long(r) /\ r[2] < p}}

(* The entries are those of a set of runs, in order. *)
Reports(out, set) ==
    /\ out \in Seq(Entries)
    /\ {out[k] : k \in 1 .. Len(out)} = set
    /\ \A k \in 1 .. Len(out) : \A j \in 1 .. k - 1 : out[j].end <= out[k].offset

(* The scanner between two characters: it has seen all up to `seen` and     *)
(* decided on what is before p.                                            *)
ScannerAt(s, seen, p) ==
    /\ s = [run_chars |-> s.run_chars, run_start |-> s.run_start, pending |-> s.pending, out |-> s.out]
    /\ s.run_start \in Nat
    /\ seen \in p .. Size /\ Sync(p)
    /\ s.pending = Slice(Text, p, seen - p)
    /\ p < seen /\ seen = Size => UnitAt(p).kind = "partial"
    /\ IF s.run_chars = 0 THEN NoneEnds(p)
       ELSE Chain(s.run_start, p) /\ s.run_chars = Cardinality(Chars(s.run_start, p))
    /\ Reports(s.out, Found(p))
    /\ \A q \in Runs : q[2] < p => Closed(q).end = q[2]

LEMMA ClosedIs ==
    ASSUME ConfigTyped, NEW q \in Runs
    PROVE  /\ Closed(q).offset = q[1] /\ Closed(q) \in Entries
           /\ q[2] <= Closed(q).end
           /\ Closed(q).end = IF q[2] < Size /\ UnitAt(q[2]).kind = "partial" THEN Size ELSE q[2]
  <1>1. q[1] \in Nat /\ q[2] \in 0 .. Size /\ Size \in Nat
    BY RunsAre DEF Chain, ConfigTyped, Size
  <1>2. Closed(q) = [offset |-> q[1],
                     end |-> IF q[2] < Size /\ UnitAt(q[2]).kind = "partial" THEN Size ELSE q[2]]
    BY DEF Closed, Size, Text, UnitAt
  <1> QED BY <1>1, <1>2 DEF Entries

LEMMA NothingSliced ==
    ASSUME NEW buf, NEW off
    PROVE  Slice(buf, off, 0) = << >>
  <1>1. 1 .. 0 = {}
    OBVIOUS
  <1>2. Slice(buf, off, 0) = [i \in {} |-> buf[off + i]]
    BY <1>1, Zenon DEF Slice
  <1>3. << >> = [i \in {} |-> buf[off + i]]
    OBVIOUS
  <1> QED BY <1>2, <1>3

(* push_char and flush, field by field. *)
LEMMA PushIs ==
    ASSUME NEW a, NEW b, NEW c, NEW d, NEW s,
           s = [run_chars |-> a, run_start |-> b, pending |-> c, out |-> d], NEW off
    PROVE  push_char(s, off) = [run_chars |-> a + 1, run_start |-> IF a = 0 THEN off ELSE b,
                                pending |-> c, out |-> d]
  <1> DEFINE x == IF a = 0 THEN off ELSE b
             y == a + 1
  <1>1. s.run_chars = a /\ s.run_start = b
    OBVIOUS
  <1>2. push_char(s, off) = [s EXCEPT !.run_start = x, !.run_chars = y]
    BY <1>1 DEF push_char
  <1> HIDE DEF x, y
  <1>3. [s EXCEPT !.run_start = x, !.run_chars = y]
          = [k \in DOMAIN s |-> IF k = "run_chars" THEN y ELSE IF k = "run_start" THEN x ELSE s[k]]
    BY Zenon
  <1>4. [k \in DOMAIN s |-> IF k = "run_chars" THEN y ELSE IF k = "run_start" THEN x ELSE s[k]]
          = [run_chars |-> y, run_start |-> x, pending |-> c, out |-> d]
    OBVIOUS
  <1> QED BY <1>2, <1>3, <1>4, Zenon DEF x, y

LEMMA FlushIs ==
    ASSUME NEW a, NEW b, NEW c, NEW d, NEW s,
           s = [run_chars |-> a, run_start |-> b, pending |-> c, out |-> d], NEW off, NEW least
    PROVE  flush(s, off, least) =
             [run_chars |-> 0, run_start |-> b, pending |-> c,
              out |-> IF a >= least THEN Append(d, [offset |-> b, end |-> off]) ELSE d]
  <1> DEFINE x == IF a >= least THEN Append(d, [offset |-> b, end |-> off]) ELSE d
  <1>1. s.run_chars = a /\ s.run_start = b /\ s.out = d
    OBVIOUS
  <1>2. flush(s, off, least) = [s EXCEPT !.run_chars = 0, !.out = x]
    BY <1>1 DEF flush
  <1> HIDE DEF x
  <1>3. [s EXCEPT !.run_chars = 0, !.out = x]
          = [k \in DOMAIN s |-> IF k = "out" THEN x ELSE IF k = "run_chars" THEN 0 ELSE s[k]]
    BY Zenon
  <1>4. [k \in DOMAIN s |-> IF k = "out" THEN x ELSE IF k = "run_chars" THEN 0 ELSE s[k]]
          = [run_chars |-> 0, run_start |-> b, pending |-> c, out |-> x]
    OBVIOUS
  <1> QED BY <1>2, <1>3, <1>4, Zenon DEF x

(* Only a character ends a run. *)
LEMMA EndsAtChar ==
    ASSUME ConfigTyped, NEW q \in Runs
    PROVE  \E i \in Nat : i < q[2] /\ CharAt(i) /\ After(i) = q[2]
  <1>1. q[2] \in Nat /\ q[1] \in Nat /\ Chain(q[1], q[2])
    BY RunsAre DEF Chain
  <1>2. PICK i \in Chars(q[1], q[2]) : After(i) = q[2]
    BY <1>1 DEF Chain
  <1> QED BY <1>1, <1>2 DEF Chars

(* A stretch without the end of a run changes nothing. *)
LEMMA SameFound ==
    ASSUME NEW p \in Nat, NEW e \in Nat, \A q \in Runs : q[2] < p <=> q[2] < e
    PROVE  Found(p) = Found(e)
  BY DEF Found

(* push_char at p. *)
LEMMA PushKeeps ==
    ASSUME ConfigTyped, NEW s, NEW p, ScannerAt(s, p, p), CharAt(p)
    PROVE  ScannerAt(push_char(s, p), After(p), After(p))
  <1> DEFINE e == After(p)
             t == push_char(s, p)
  <1>1. p \in Nat /\ Sync(p) /\ Size \in Nat
    BY DEF ScannerAt, Sync, ConfigTyped, Size
  <1>2. /\ p < Size /\ e \in Nat /\ p < e /\ e <= Size
        /\ \A j \in p + 1 .. e - 1 : ~CharAt(j)
    BY <1>1, CharIs
  <1>3. /\ t = [run_chars |-> s.run_chars + 1,
                run_start |-> IF s.run_chars = 0 THEN p ELSE s.run_start,
                pending |-> s.pending, out |-> s.out]
    BY PushIs DEF ScannerAt
  <1>4. config.encoding = "utf16" => e % 2 = 0
    <2> SUFFICES ASSUME config.encoding = "utf16" PROVE e % 2 = 0
      OBVIOUS
    <2>1. p % 2 = 0 /\ e = p + 2
      BY <1>1, PrintsAt DEF Sync
    <2> QED BY <1>1, <2>1
  <1> HIDE DEF e, t
  <1>5. Sync(e)
    <2>1. ASSUME NEW i \in 0 .. e - 1, CharAt(i) PROVE After(i) <= e
      <3>1. CASE i < p
        <4>1. i \in 0 .. p - 1 /\ After(i) \in Nat
          BY <1>1, <2>1, <3>1, CharIs
        <4>2. After(i) <= p
          BY <1>1, <2>1, <4>1 DEF Sync
        <4> QED BY <1>1, <1>2, <4>1, <4>2
      <3>2. CASE i = p
        BY <1>2, <3>2 DEF e
      <3>3. CASE i > p
        BY <1>1, <1>2, <2>1, <3>3
      <3> QED BY <1>1, <3>1, <3>2, <3>3
    <2> QED BY <1>1, <1>2, <1>4, <2>1 DEF Sync
  <1>6. t.run_chars # 0 /\ Chain(t.run_start, e) /\ t.run_chars = Cardinality(Chars(t.run_start, e))
    <2>1. CASE s.run_chars = 0
      <3>1. NoneEnds(p)
        BY <2>1 DEF ScannerAt
      <3>2. Chain(p, e) /\ Cardinality(Chars(p, e)) = 1
        BY <1>1, <3>1, ChainStarts DEF e
      <3> QED BY <1>3, <2>1, <3>2
    <2>2. CASE s.run_chars # 0
      <3>1. Chain(s.run_start, p) /\ s.run_chars = Cardinality(Chars(s.run_start, p))
        BY <2>2 DEF ScannerAt
      <3>2. Chain(s.run_start, e) /\ Cardinality(Chars(s.run_start, e)) = s.run_chars + 1
        BY <1>1, <3>1, ChainGrows DEF e
      <3>3. s.run_chars \in Nat
        <4>1. s.run_start \in Nat
          BY DEF ScannerAt
        <4> QED BY <1>1, <3>1, <4>1, CharsFinite
      <3> QED BY <1>3, <2>2, <3>2, <3>3
    <2> QED BY <2>1, <2>2
  <1>7. \A q \in Runs : q[2] < p <=> q[2] < e
    <2> TAKE q \in Runs
    <2>1. PICK i \in Nat : i < q[2] /\ CharAt(i) /\ After(i) = q[2]
      BY EndsAtChar
    <2>2. q[2] \in Nat /\ (q[2] = Size \/ ~CharAt(q[2]))
      BY RunsAre
    <2>3. CASE i < p
      <3>1. q[2] <= p
        BY <1>1, <2>1, <2>3 DEF Sync
      <3>2. q[2] # p
        BY <1>2, <2>2
      <3> QED BY <1>1, <1>2, <2>2, <3>1, <3>2
    <2>4. CASE i = p
      BY <1>1, <1>2, <2>1, <2>2, <2>4 DEF e
    <2>5. CASE i > p
      <3>1. ~(i < e)
        BY <1>1, <1>2, <2>1, <2>5
      <3> QED BY <1>1, <1>2, <2>1, <2>2, <2>5, <3>1
    <2> QED BY <1>1, <2>3, <2>4, <2>5
  <1>8. Reports(t.out, Found(e)) /\ \A q \in Runs : q[2] < e => Closed(q).end = q[2]
    <2>1. Found(p) = Found(e)
      BY <1>1, <1>2, <1>7, SameFound
    <2> QED BY <1>3, <1>7, <2>1 DEF ScannerAt
  <1>9. t.pending = Slice(Text, e, e - e)
    <2>1. p - p = 0 /\ e - e = 0
      BY <1>1, <1>2
    <2>2. s.pending = Slice(Text, p, 0)
      BY <2>1 DEF ScannerAt
    <2> QED BY <1>3, <2>1, <2>2, NothingSliced
  <1>10. t = [run_chars |-> t.run_chars, run_start |-> t.run_start, pending |-> t.pending, out |-> t.out]
    BY <1>3
  <1>11. e \in e .. Size /\ ~(e < e) /\ t.run_start \in Nat
    BY <1>1, <1>2, <1>3 DEF ScannerAt
  <1>12. ScannerAt(t, e, e)
    BY <1>5, <1>6, <1>8, <1>9, <1>10, <1>11 DEF ScannerAt
  <1> QED BY <1>12 DEF e, t

(* The runs found by the time p is passed. *)
Upto(p) == {Closed(q) : q \in {r \in Runs : Long(r) /\ r[2] <= p}}

(* A list and one entry more behind it. *)
LEMMA ListsMore ==
    ASSUME NEW out, NEW set, Reports(out, set), NEW entry \in Entries,
           \A k \in 1 .. Len(out) : out[k].end <= entry.offset
    PROVE  Reports(Append(out, entry), set \cup {entry})
  <1> DEFINE n == Len(out)
             more == Append(out, entry)
  <1>1. out \in Seq(Entries) /\ n \in Nat
    BY DEF Reports
  <1>2. /\ more \in Seq(Entries) /\ Len(more) = n + 1 /\ more[n + 1] = entry
        /\ \A k \in 1 .. n : more[k] = out[k]
    BY <1>1
  <1> HIDE DEF more, n
  <1>3. {more[k] : k \in 1 .. n + 1} = {out[k] : k \in 1 .. n} \cup {entry}
    <2>1. 1 .. n + 1 = (1 .. n) \cup {n + 1}
      BY <1>1
    <2> QED BY <1>2, <2>1
  <1>4. \A k \in 1 .. n + 1 : \A j \in 1 .. k - 1 : more[j].end <= more[k].offset
    <2> TAKE k \in 1 .. n + 1
    <2> TAKE j \in 1 .. k - 1
    <2>1. j \in 1 .. n /\ more[j] = out[j]
      BY <1>1, <1>2
    <2>2. CASE k = n + 1
      BY <1>2, <2>1, <2>2 DEF n
    <2>3. CASE k # n + 1
      <3>1. k \in 1 .. n /\ more[k] = out[k]
        BY <1>1, <1>2, <2>3
      <3> QED BY <2>1, <3>1 DEF Reports, n
    <2> QED BY <2>2, <2>3
  <1> QED BY <1>2, <1>3, <1>4 DEF Reports, more, n

(* flush, where no character follows. *)
LEMMA FlushLists ==
    ASSUME ConfigTyped, NEW s, NEW seen, NEW p, ScannerAt(s, seen, p), p = Size \/ ~CharAt(p),
           NEW off, s.run_chars # 0 => off = Closed(<<s.run_start, p>>).end
    PROVE  Reports(flush(s, off, config.min_length).out, Upto(p))
  <1> DEFINE last == <<s.run_start, p>>
             t == flush(s, off, config.min_length)
  <1>1. /\ p \in Nat /\ Sync(p) /\ Size \in Nat /\ p \in 0 .. Size
        /\ Reports(s.out, Found(p))
        /\ config.min_length \in Nat \ {0}
    BY DEF ScannerAt, Sync, ConfigTyped, Size
  <1>2. t.out = IF s.run_chars >= config.min_length
                THEN Append(s.out, [offset |-> s.run_start, end |-> off]) ELSE s.out
    BY DEF flush, ScannerAt
  <1> HIDE DEF t
  <1>3. CASE s.run_chars = 0
    <2>1. NoneEnds(p)
      BY <1>3 DEF ScannerAt
    <2>2. \A q \in Runs : q[2] <= p <=> q[2] < p
      <3> SUFFICES ASSUME NEW q \in Runs, q[2] = p PROVE FALSE
        <4>1. \A q \in Runs : q[2] \in Nat
          BY RunsAre DEF Chain
        <4> QED BY <1>1, <4>1
      <3>1. PICK i \in Nat : i < p /\ CharAt(i) /\ After(i) = p
        BY EndsAtChar
      <3>2. i \in 0 .. p - 1
        BY <1>1, <3>1
      <3> QED BY <2>1, <3>1, <3>2 DEF NoneEnds
    <2>3. Upto(p) = Found(p)
      BY <2>2 DEF Upto, Found
    <2>4. ~(0 >= config.min_length)
      BY <1>1
    <2>5. t.out = s.out
      BY <1>2, <1>3, <2>4
    <2> QED BY <1>1, <2>3, <2>5 DEF t
  <1>4. CASE s.run_chars # 0
    <2>1. Chain(s.run_start, p) /\ s.run_chars = Cardinality(Chars(s.run_start, p))
      BY <1>4 DEF ScannerAt
    <2>2. last \in Runs /\ last[1] = s.run_start /\ last[2] = p
      BY <1>1, <2>1, RunsAre
    <2>3. s.run_start \in Nat
      BY <2>1 DEF Chain
    <2>4. Long(last) <=> s.run_chars >= config.min_length
      BY <2>1, <2>2 DEF Long, Chars
    <2>5. Closed(last) = [offset |-> s.run_start, end |-> off] /\ Closed(last) \in Entries
      <3>1. Closed(last).offset = s.run_start /\ Closed(last) \in Entries
        BY <2>2, ClosedIs
      <3>2. Closed(last) = [offset |-> Closed(last).offset, end |-> Closed(last).end]
        BY <3>1 DEF Entries
      <3> QED BY <1>4, <3>1, <3>2
    <2>6. \A q \in Runs : q[2] <= p <=> q[2] < p \/ q = last
      <3> TAKE q \in Runs
      <3>1. q = <<q[1], q[2]>> /\ q[2] \in Nat /\ Chain(q[1], q[2])
        BY RunsAre
      <3>2. CASE q[2] = p
        <4>1. q[1] = s.run_start
          BY <1>1, <2>1, <3>1, <3>2, ChainUnique
        <4> QED BY <1>1, <2>2, <3>1, <3>2, <4>1
      <3>3. CASE q[2] # p
        BY <1>1, <2>2, <3>1, <3>3
      <3> QED BY <3>2, <3>3
    <2> HIDE DEF last
    <2>7. CASE Long(last)
      <3>1. Upto(p) = Found(p) \cup {Closed(last)}
        <4>1. {r \in Runs : Long(r) /\ r[2] <= p} = {r \in Runs : Long(r) /\ r[2] < p} \cup {last}
          BY <2>2, <2>6, <2>7
        <4> QED BY <4>1 DEF Upto, Found
      <3>2. \A k \in 1 .. Len(s.out) : s.out[k].end <= Closed(last).offset
        <4> TAKE k \in 1 .. Len(s.out)
        <4>1. s.out[k] \in Found(p)
          BY <1>1 DEF Reports
        <4>2. PICK q \in Runs : q[2] < p /\ s.out[k] = Closed(q)
          BY <4>1 DEF Found
        <4>3. Closed(q).end = q[2]
          BY <4>2 DEF ScannerAt
        <4>4. p <= Size
          BY <1>1
        <4>5. q[2] <= s.run_start
          BY <1>1, <2>1, <4>2, <4>4, RunsApart
        <4> QED BY <2>5, <4>2, <4>3, <4>5
      <3>3. Reports(Append(s.out, Closed(last)), Found(p) \cup {Closed(last)})
        BY <1>1, <2>5, <3>2, ListsMore
      <3>4. t.out = Append(s.out, Closed(last))
        BY <1>2, <2>4, <2>5, <2>7
      <3> QED BY <3>1, <3>3, <3>4 DEF t
    <2>8. CASE ~Long(last)
      <3>1. Upto(p) = Found(p)
        <4>1. {r \in Runs : Long(r) /\ r[2] <= p} = {r \in Runs : Long(r) /\ r[2] < p}
          BY <2>6, <2>8
        <4> QED BY <4>1 DEF Upto, Found
      <3>2. t.out = s.out
        BY <1>2, <2>4, <2>8
      <3> QED BY <1>1, <3>1, <3>2 DEF t
    <2> QED BY <2>7, <2>8
  <1> QED BY <1>3, <1>4

(* flush at p, in front of n bytes without a character. *)
LEMMA FlushKeeps ==
    ASSUME ConfigTyped, NEW s, NEW p, ScannerAt(s, p, p), UnitAt(p).kind = "breaks",
           NEW n \in 1 .. 3, p + n <= Size, \A j \in p + 1 .. p + n - 1 : ~CharAt(j),
           config.encoding = "utf16" => n = 2
    PROVE  ScannerAt(flush(s, p, config.min_length), p + n, p + n)
  <1> DEFINE e == p + n
             t == flush(s, p, config.min_length)
  <1>1. p \in Nat /\ Sync(p) /\ Size \in Nat /\ p \in 0 .. Size
    BY DEF ScannerAt, Sync, ConfigTyped, Size
  <1>2. e \in Nat /\ p < e /\ e <= Size /\ p < Size
    BY <1>1
  <1>3. ~CharAt(p)
    BY DEF CharAt, UnitAt, Text
  <1>4. s.run_chars # 0 => p = Closed(<<s.run_start, p>>).end
    <2> SUFFICES ASSUME s.run_chars # 0 PROVE p = Closed(<<s.run_start, p>>).end
      OBVIOUS
    <2>1. Chain(s.run_start, p)
      BY DEF ScannerAt
    <2>2. <<s.run_start, p>> \in Runs
      BY <1>1, <1>3, <2>1, RunsAre
    <2> QED BY <2>2, ClosedIs
  <1>5. Reports(t.out, Upto(p))
    BY <1>3, <1>4, FlushLists
  <1>6. t = [run_chars |-> 0, run_start |-> s.run_start, pending |-> s.pending, out |-> t.out]
    <2>1. s = [run_chars |-> s.run_chars, run_start |-> s.run_start, pending |-> s.pending, out |-> s.out]
      BY DEF ScannerAt
    <2>2. t = [run_chars |-> 0, run_start |-> s.run_start, pending |-> s.pending,
               out |-> IF s.run_chars >= config.min_length
                       THEN Append(s.out, [offset |-> s.run_start, end |-> p]) ELSE s.out]
      BY <2>1, FlushIs
    <2> HIDE DEF t
    <2> QED BY <2>2
  <1>7. config.encoding = "utf16" => e % 2 = 0
    <2> SUFFICES ASSUME config.encoding = "utf16" PROVE e % 2 = 0
      OBVIOUS
    <2>1. p % 2 = 0 /\ e = p + 2
      BY <1>1 DEF Sync
    <2> QED BY <1>1, <2>1
  <1>8. \A i \in 0 .. e - 1 : CharAt(i) => i < p /\ After(i) <= p /\ After(i) \in Nat
    <2> SUFFICES ASSUME NEW i \in 0 .. e - 1, CharAt(i) PROVE i < p /\ After(i) <= p /\ After(i) \in Nat
      OBVIOUS
    <2>1. i < p
      BY <1>1, <1>3
    <2>2. i \in 0 .. p - 1 /\ After(i) \in Nat
      BY <1>1, <2>1, CharIs
    <2> QED BY <1>1, <2>1, <2>2 DEF Sync
  <1> HIDE DEF e, t
  <1>9. Sync(e) /\ NoneEnds(e)
    <2>1. \A i \in 0 .. e - 1 : CharAt(i) => After(i) < e
      BY <1>1, <1>2, <1>8
    <2>2. \A i \in 0 .. e - 1 : CharAt(i) => After(i) <= e /\ After(i) # e
      BY <1>2, <1>8, <2>1
    <2> QED BY <1>1, <1>2, <1>7, <2>2 DEF Sync, NoneEnds
  <1>10. \A q \in Runs : q[2] <= p <=> q[2] < e
    <2> TAKE q \in Runs
    <2>1. PICK i \in Nat : i < q[2] /\ CharAt(i) /\ After(i) = q[2]
      BY EndsAtChar
    <2>2. q[2] \in Nat
      BY RunsAre
    <2>3. CASE i < e
      <3>1. i \in 0 .. e - 1
        BY <1>2, <2>3
      <3> QED BY <1>1, <1>2, <1>8, <2>1, <2>2, <3>1
    <2>4. CASE ~(i < e)
      BY <1>1, <1>2, <2>1, <2>2, <2>4
    <2> QED BY <2>3, <2>4
  <1>11. Reports(t.out, Found(e))
    <2>1. Upto(p) = Found(e)
      BY <1>10 DEF Upto, Found
    <2> QED BY <1>5, <2>1
  <1>12. \A q \in Runs : q[2] < e => Closed(q).end = q[2]
    <2> SUFFICES ASSUME NEW q \in Runs, q[2] < e PROVE Closed(q).end = q[2]
      OBVIOUS
    <2>1. q[2] \in Nat /\ q[2] <= p
      BY <1>10, RunsAre
    <2>2. CASE q[2] = p
      BY <2>2, ClosedIs
    <2>3. CASE q[2] # p
      <3>1. q[2] < p
        BY <1>1, <2>1, <2>3
      <3> QED BY <3>1 DEF ScannerAt
    <2> QED BY <2>2, <2>3
  <1>13. t.pending = Slice(Text, e, e - e) /\ t.run_chars = 0
    <2>1. p - p = 0 /\ e - e = 0
      BY <1>1, <1>2
    <2>2. s.pending = Slice(Text, p, 0)
      BY <2>1 DEF ScannerAt
    <2> QED BY <1>6, <2>1, <2>2, NothingSliced
  <1>14. e \in e .. Size /\ ~(e < e) /\ t.run_start \in Nat
    BY <1>1, <1>2, <1>6 DEF ScannerAt
  <1>15. t = [run_chars |-> t.run_chars, run_start |-> t.run_start, pending |-> t.pending, out |-> t.out]
    BY <1>6
  <1>16. ScannerAt(t, e, e)
    BY <1>9, <1>11, <1>12, <1>13, <1>14, <1>15 DEF ScannerAt
  <1> QED BY <1>16 DEF e, t

(* The scanner takes up what it carried over ... *)
LEMMA TakenUp ==
    ASSUME ConfigTyped, NEW s, NEW seen, NEW p, ScannerAt(s, seen, p)
    PROVE  ScannerAt([s EXCEPT !.pending = << >>], p, p)
  <1> DEFINE t == [s EXCEPT !.pending = << >>]
  <1>1. p \in Nat /\ p <= Size /\ Size \in Nat /\ p - p = 0 /\ p \in p .. Size /\ ~(p < p)
    BY DEF ScannerAt, Sync, ConfigTyped, Size
  <1>2. t = [run_chars |-> s.run_chars, run_start |-> s.run_start, pending |-> << >>, out |-> s.out]
    BY DEF ScannerAt
  <1>3. Slice(Text, p, p - p) = << >>
    BY <1>1 DEF Slice
  <1> HIDE DEF t
  <1>4. ScannerAt(t, p, p)
    BY <1>1, <1>2, <1>3 DEF ScannerAt
  <1> QED BY <1>4 DEF t

(* ... and carries over the start of a character. *)
LEMMA CarriedOver ==
    ASSUME ConfigTyped, NEW s, NEW p, ScannerAt(s, p, p), NEW stop \in p + 1 .. Size,
           stop = Size => UnitAt(p).kind = "partial"
    PROVE  ScannerAt([s EXCEPT !.pending = Slice(Text, p, stop - p)], stop, p)
  <1> DEFINE t == [s EXCEPT !.pending = Slice(Text, p, stop - p)]
  <1>1. p \in Nat /\ Size \in Nat /\ stop \in p .. Size
    BY DEF ScannerAt, Sync, ConfigTyped, Size
  <1>2. t = [run_chars |-> s.run_chars, run_start |-> s.run_start,
             pending |-> Slice(Text, p, stop - p), out |-> s.out]
    BY DEF ScannerAt
  <1> HIDE DEF t
  <1>3. ScannerAt(t, stop, p)
    BY <1>1, <1>2 DEF ScannerAt
  <1> QED BY <1>3 DEF t

(* One turn of the loops of feed_ascii, feed_utf8 and feed_utf16. *)
Turn(buf, base, b) ==
    IF b.i = Len(buf) THEN b
    ELSE LET u == Unit(config.encoding, buf, b.i)
         IN  CASE u.kind = "prints" ->
                    [s |-> push_char(b.s, base + b.i), i |-> b.i + u.n]
               [] u.kind = "breaks" ->
                    [s |-> flush(b.s, base + b.i, config.min_length), i |-> b.i + u.n]
               [] u.kind = "partial" ->
                    [s |-> [b.s EXCEPT !.pending = Slice(buf, b.i, Len(buf) - b.i)],
                     i |-> Len(buf)]

(* The loop after k turns over len bytes from base on. *)
Turned(b, base, len, k) ==
    /\ b = [s |-> b.s, i |-> b.i]
    /\ b.i \in 0 .. len /\ (b.i = len \/ b.i >= k)
    /\ b.i < len => ScannerAt(b.s, base + b.i, base + b.i)
    /\ b.i = len => \E e \in Nat : ScannerAt(b.s, base + len, e)

LEMMA TurnIs ==
    ASSUME ConfigTyped, NEW base \in Nat, NEW len \in Nat, base + len <= Size,
           NEW k \in 1 .. len, NEW b, Turned(b, base, len, k - 1)
    PROVE  Turned(Turn(Slice(Text, base, len), base, b), base, len, k)
  <1> DEFINE buf == Slice(Text, base, len)
             u == Unit(config.encoding, buf, b.i)
             c == Turn(buf, base, b)
             p == base + b.i
  <1>1. Len(buf) = len /\ Text \in Seq(Classes) /\ Size = Len(Text) /\ Size \in Nat
    BY SliceIs DEF ConfigTyped, Size
  <1>2. CASE b.i = len
    <2>1. c = b
      BY <1>1, <1>2 DEF Turn
    <2> HIDE DEF c
    <2> QED BY <1>2, <2>1 DEF Turned, c
  <1>3. ASSUME b.i # len PROVE Turned(c, base, len, k)
    <2>1. b.i \in 0 .. len - 1 /\ b.i >= k - 1 /\ ScannerAt(b.s, p, p) /\ p \in Nat /\ p < Size
      BY <1>1, <1>3 DEF Turned
    <2>2. /\ u.n \in 1 .. 3 /\ b.i + u.n <= len
          /\ config.encoding = "utf8" => \A j \in 2 .. u.n : Text[p + j] = "c"
          /\ config.encoding = "ascii" => u.n = 1
          /\ config.encoding = "utf16" => u.n <= 2 /\ (u.kind # "partial" => u.n = 2)
          /\ u.kind \in {"prints", "breaks", "partial"}
          /\ u.kind = "prints" => UnitAt(p).kind = "prints" /\ u.n = Width(config.encoding, Text[p + 1])
          /\ u.kind = "breaks" => UnitAt(p).kind = "breaks"
          /\ u.kind = "partial" => b.i + u.n = len /\ (base + len = Size => UnitAt(p).kind = "partial")
      BY <2>1, WindowIs
    <2>3. config.encoding = "utf16" => p % 2 = 0
      BY <2>1 DEF ScannerAt, Sync
    <2>4. c = CASE u.kind = "prints" -> [s |-> push_char(b.s, p), i |-> b.i + u.n]
                [] u.kind = "breaks" -> [s |-> flush(b.s, p, config.min_length), i |-> b.i + u.n]
                [] u.kind = "partial" ->
                     [s |-> [b.s EXCEPT !.pending = Slice(buf, b.i, len - b.i)], i |-> len]
      BY <1>1, <1>3 DEF Turn
    <2> HIDE DEF c, u
    <2>5. p + u.n \in Nat /\ p + u.n = base + (b.i + u.n) /\ p + u.n <= base + len /\ b.i + u.n >= k
          /\ b.i + u.n \in 0 .. len
      BY <2>1, <2>2
    <2>6. ASSUME NEW t, c = [s |-> t, i |-> b.i + u.n], ScannerAt(t, p + u.n, p + u.n)
          PROVE  Turned(c, base, len, k)
      <3>1. c.s = t /\ c.i = b.i + u.n
        BY <2>6
      <3>2. c.i < len => ScannerAt(c.s, base + c.i, base + c.i)
        BY <2>5, <2>6, <3>1
      <3>3. c.i = len => \E e \in Nat : ScannerAt(c.s, base + len, e)
        <4> SUFFICES ASSUME c.i = len PROVE ScannerAt(c.s, base + len, p + u.n)
          BY <2>5
        <4>1. base + len = p + u.n
          BY <2>5, <3>1
        <4> QED BY <2>6, <3>1, <4>1
      <3> QED BY <2>5, <2>6, <3>1, <3>2, <3>3 DEF Turned
    <2>7. CASE u.kind = "prints"
      <3>1. CharAt(p)
        BY <1>1, <2>1, <2>2, <2>3, <2>7 DEF CharAt, UnitAt, Text
      <3>2. After(p) = p + u.n
        BY <2>2, <2>7 DEF After, Text
      <3>3. ScannerAt(push_char(b.s, p), p + u.n, p + u.n)
        BY <2>1, <3>1, <3>2, PushKeeps
      <3>4. c = [s |-> push_char(b.s, p), i |-> b.i + u.n]
        BY <2>4, <2>7
      <3> QED BY <2>6, <3>3, <3>4
    <2>8. CASE u.kind = "breaks"
      <3>1. config.encoding = "utf16" => u.n <= 2 /\ p % 2 = 0
        BY <2>2, <2>3
      <3>2. \A j \in p + 1 .. p + u.n - 1 : ~CharAt(j)
        BY <2>1, <2>2, <3>1, QuietInside
      <3>3. p + u.n <= Size
        BY <1>1, <2>5
      <3>4. config.encoding = "utf16" => u.n = 2
        BY <2>2, <2>8
      <3>5. ScannerAt(flush(b.s, p, config.min_length), p + u.n, p + u.n)
        BY <2>1, <2>2, <2>8, <3>2, <3>3, <3>4, FlushKeeps
      <3>6. c = [s |-> flush(b.s, p, config.min_length), i |-> b.i + u.n]
        BY <2>4, <2>8
      <3> QED BY <2>6, <3>5, <3>6
    <2>9. CASE u.kind = "partial"
      <3>1. Slice(buf, b.i, len - b.i) = Slice(Text, p, base + len - p)
        <4>1. len - b.i = base + len - p
          BY <2>1
        <4>2. \A j \in 1 .. len - b.i : buf[b.i + j] = Text[p + j]
          <5> TAKE j \in 1 .. len - b.i
          <5>1. b.i + j \in 1 .. len /\ base + (b.i + j) = p + j
            BY <2>1
          <5> QED BY <5>1 DEF Slice
        <4> HIDE DEF buf, p
        <4> QED BY <4>1, <4>2 DEF Slice
      <3>2. base + len \in p + 1 .. Size
        BY <1>1, <2>1
      <3>3. base + len = Size => UnitAt(p).kind = "partial"
        BY <2>2, <2>9
      <3>4. ScannerAt([b.s EXCEPT !.pending = Slice(Text, p, base + len - p)], base + len, p)
        BY <2>1, <3>2, <3>3, CarriedOver
      <3>5. c = [s |-> [b.s EXCEPT !.pending = Slice(Text, p, base + len - p)], i |-> len]
        BY <2>4, <2>9, <3>1
      <3>6. c.s = [b.s EXCEPT !.pending = Slice(Text, p, base + len - p)] /\ c.i = len
            /\ c = [s |-> c.s, i |-> c.i]
        BY <3>5
      <3>7. \E e \in Nat : ScannerAt(c.s, base + len, e)
        BY <2>1, <3>4, <3>6
      <3>8. c.i \in 0 .. len /\ ~(c.i < len)
        BY <3>6
      <3> QED BY <3>6, <3>7, <3>8 DEF Turned
    <2> QED BY <2>2, <2>7, <2>8, <2>9
  <1> QED BY <1>2, <1>3

Scanners == [run_chars: Nat, run_start: Nat, pending: Seq(Classes), out: Seq(Entries)]

LEMMA ScannerTyped ==
    ASSUME ConfigTyped, NEW s, NEW seen, NEW p, ScannerAt(s, seen, p)
    PROVE  s \in Scanners /\ Len(s.pending) = seen - p /\ p \in Nat /\ seen \in Nat /\ seen <= Size
  <1>1. Size \in Nat /\ Text \in Seq(Classes) /\ Size = Len(Text)
    BY DEF ConfigTyped, Size
  <1>2. p \in Nat /\ seen \in Nat /\ p <= seen /\ seen <= Size
    BY <1>1 DEF ScannerAt, Sync
  <1>3. s.pending \in Seq(Classes) /\ Len(s.pending) = seen - p
    <2>1. seen - p \in Nat /\ p + (seen - p) <= Len(Text)
      BY <1>1, <1>2
    <2> QED BY <1>1, <1>2, <2>1, SliceIs DEF ScannerAt
  <1>4. s.run_chars \in Nat
    <2>1. CASE s.run_chars # 0
      <3>1. s.run_chars = Cardinality(Chars(s.run_start, p)) /\ s.run_start \in Nat
        BY <2>1 DEF ScannerAt
      <3> QED BY <1>2, <3>1, CharsFinite
    <2> QED BY <2>1
  <1>5. s.out \in Seq(Entries) /\ s.run_start \in Nat
    BY DEF ScannerAt, Reports
  <1>6. s = [run_chars |-> s.run_chars, run_start |-> s.run_start, pending |-> s.pending, out |-> s.out]
    BY DEF ScannerAt
  <1>7. s \in Scanners
    BY <1>3, <1>4, <1>5, <1>6 DEF Scanners
  <1> QED BY <1>2, <1>3, <1>7

(* The loop over a buffer that begins at base. *)
Loop(buf, base, t) ==
    (CHOOSE f : f = [k \in 0 .. Len(buf) |-> IF k = 0 THEN [s |-> t, i |-> 0]
                                             ELSE Turn(buf, base, f[k - 1])])[Len(buf)].s

LEMMA FeedIs ==
    ASSUME NEW s, NEW chunk, NEW offset
    PROVE  feed(s, chunk, offset)
             = Loop(s.pending \o chunk, offset - Len(s.pending), [s EXCEPT !.pending = << >>])
  BY Zenon DEF feed, Loop, Turn

LEMMA LoopTurns ==
    ASSUME ConfigTyped, NEW base \in Nat, NEW len \in Nat, base + len <= Size,
           NEW s, ScannerAt(s, base, base)
    PROVE  \E e \in Nat : ScannerAt(Loop(Slice(Text, base, len), base, s), base + len, e)
  <1> DEFINE buf == Slice(Text, base, len)
             a == [s |-> s, i |-> 0]
             G(f) == [k \in 0 .. Len(buf) |-> IF k = 0 THEN a ELSE Turn(buf, base, f[k - 1])]
             Fine(k, b) == Turned(b, base, len, k)
             States == [s: Scanners, i: 0 .. len]
  <1>1. Len(buf) = len
    BY SliceIs DEF ConfigTyped, Size
  <1>2. Fine(0, a)
    <2>1. a.s = s /\ a.i = 0 /\ a = [s |-> a.s, i |-> a.i] /\ base + 0 = base
      OBVIOUS
    <2>2. len = 0 => base + len = base
      OBVIOUS
    <2> HIDE DEF a
    <2> QED BY <2>1, <2>2 DEF Turned
  <1>3. \A k, b : Fine(k, b) => b \in States
    <2> SUFFICES ASSUME NEW k, NEW b, Fine(k, b) PROVE b \in States
      OBVIOUS
    <2>1. b = [s |-> b.s, i |-> b.i] /\ b.i \in 0 .. len
      BY DEF Turned
    <2>2. PICK seen, e : ScannerAt(b.s, seen, e)
      BY <2>1 DEF Turned
    <2>3. b.s \in Scanners
      BY <2>2, ScannerTyped
    <2> QED BY <2>1, <2>3
  <1>4. PICK F : \A k \in 1 .. len, b \in States : F[<<k, b>>] = Turn(buf, base, b)
    <2> DEFINE W == [x \in (1 .. len) \X States |-> Turn(buf, base, x[2])]
    <2> HIDE DEF States, buf
    <2>1. \A k \in 1 .. len, b \in States : W[<<k, b>>] = Turn(buf, base, b)
      OBVIOUS
    <2> QED BY <2>1
  <1>5. ASSUME NEW k \in 1 .. len, NEW b, Fine(k - 1, b)
        PROVE  Fine(k, Turn(buf, base, b))
    BY <1>5, TurnIs
  <1> DEFINE Turns(f) == \A k \in 1 .. len : Fine(k - 1, f[k - 1]) => f[k] = Turn(buf, base, f[k - 1])
  <1> HIDE DEF a, Fine, States, buf
  <1>6. ASSUME NEW f, f[0] = a, Turns(f)
        PROVE  \A k \in 0 .. len : Fine(k, f[k])
    <2> DEFINE I == {k \in 0 .. len : Fine(k, f[k])}
    <2>1. 0 \in I
      BY <1>2, <1>6
    <2>2. ASSUME NEW k \in 1 .. len, k - 1 \in I PROVE k \in I
      <3>1. Fine(k - 1, f[k - 1])
        BY <2>2
      <3>2. f[k] = Turn(buf, base, f[k - 1])
        BY <1>6, <3>1
      <3> QED BY <1>5, <3>1, <3>2
    <2>3. \A k \in 0 .. len : k \in I
      <3> HIDE DEF I
      <3> QED BY <2>1, <2>2, StepByStep
    <2> QED BY <2>3
  <1>7. \E f : f = G(f)
    <2>1. PICK f : LoopGoes(f, len, a, F)
      BY LoopRuns, Zenon
    <2>2. f[0] = a /\ Turns(f)
      <3>1. ASSUME NEW k \in 1 .. len, Fine(k - 1, f[k - 1])
            PROVE  f[k] = Turn(buf, base, f[k - 1])
        <4>1. f[k] = F[<<k, f[k - 1]>>]
          BY <2>1 DEF LoopGoes
        <4>2. f[k - 1] \in States
          BY <1>3, <3>1
        <4> QED BY <1>4, <4>1, <4>2
      <3> QED BY <2>1, <3>1 DEF LoopGoes
    <2>3. \A k \in 0 .. len : Fine(k, f[k])
      BY <1>6, <2>2
    <2>4. \A k \in 0 .. len : f[k] = IF k = 0 THEN a ELSE Turn(buf, base, f[k - 1])
      <3> TAKE k \in 0 .. len
      <3>1. k # 0 => k \in 1 .. len /\ k - 1 \in 0 .. len
        OBVIOUS
      <3> QED BY <2>2, <2>3, <3>1
    <2>5. f = [k \in 0 .. Len(buf) |-> f[k]]
      BY <1>1, <2>1 DEF LoopGoes
    <2>6. f = G(f)
      BY <1>1, <2>4, <2>5
    <2> QED BY <2>6
  <1>8. PICK u : u = CHOOSE f : f = G(f)
    OBVIOUS
  <1>9. u = G(u)
    <2> HIDE DEF G
    <2> QED BY <1>7, <1>8
  <1>10. u[0] = a /\ Turns(u)
    <2>1. \A k \in 0 .. len : u[k] = IF k = 0 THEN a ELSE Turn(buf, base, u[k - 1])
      BY <1>1, <1>9
    <2>2. \A k \in 1 .. len : k \in 0 .. len /\ k # 0
      OBVIOUS
    <2> QED BY <2>1, <2>2
  <1>11. Fine(len, u[len])
    <2>1. len \in 0 .. len
      OBVIOUS
    <2> QED BY <1>6, <1>10, <2>1
  <1>12. \E e \in Nat : ScannerAt(u[len].s, base + len, e)
    <2>1. u[len].i = len
      BY <1>11 DEF Fine, Turned
    <2> QED BY <1>11, <2>1 DEF Fine, Turned
  <1>13. Loop(buf, base, s) = u[Len(buf)].s
    BY <1>8, Zenon DEF Loop, a
  <1> QED BY <1>1, <1>12, <1>13 DEF buf

(* Two pieces of a sequence, one after the other. *)
LEMMA JoinIs ==
    ASSUME NEW S, NEW a \in Seq(S), NEW b \in Seq(S), NEW c \in Seq(S), Len(c) = Len(a) + Len(b),
           \A k \in 1 .. Len(a) : c[k] = a[k],
           \A k \in 1 .. Len(b) : c[Len(a) + k] = b[k]
    PROVE  a \o b = c
  <1> DEFINE d == a \o b
  <1>1. /\ d \in Seq(S) /\ Len(d) = Len(a) + Len(b) /\ Len(a) \in Nat /\ Len(b) \in Nat
        /\ \A k \in 1 .. Len(a) + Len(b) : d[k] = IF k <= Len(a) THEN a[k] ELSE b[k - Len(a)]
    OBVIOUS
  <1> HIDE DEF d
  <1>2. ASSUME NEW k \in 1 .. Len(c) PROVE d[k] = c[k]
    <2>1. CASE k <= Len(a)
      <3>1. k \in 1 .. Len(a) /\ k \in 1 .. Len(a) + Len(b)
        BY <1>1, <2>1
      <3> QED BY <1>1, <2>1, <3>1
    <2>2. CASE ~(k <= Len(a))
      <3>1. k - Len(a) \in 1 .. Len(b) /\ Len(a) + (k - Len(a)) = k /\ k \in 1 .. Len(a) + Len(b)
        BY <1>1, <2>2
      <3>2. d[k] = b[k - Len(a)]
        BY <1>1, <2>2, <3>1
      <3>3. c[Len(a) + (k - Len(a))] = b[k - Len(a)]
        BY <3>1
      <3> QED BY <3>1, <3>2, <3>3
    <2> QED BY <2>1, <2>2
  <1>3. Len(d) = Len(c)
    BY <1>1
  <1>4. d = [k \in 1 .. Len(d) |-> d[k]] /\ c = [k \in 1 .. Len(c) |-> c[k]]
    BY <1>1
  <1> QED BY <1>2, <1>3, <1>4 DEF d

(* A chunk goes through the scanner. *)
LEMMA FeedKeeps ==
    ASSUME ConfigTyped, NEW s, NEW seen, NEW p, ScannerAt(s, seen, p), NEW stop \in seen .. Size
    PROVE  \E e \in Nat : ScannerAt(feed(s, Slice(Text, seen, stop - seen), seen), stop, e)
  <1> DEFINE held == seen - p
             more == stop - seen
             len == stop - p
             chunk == Slice(Text, seen, more)
             buf == Slice(Text, p, len)
             t == [s EXCEPT !.pending = << >>]
  <1>1. /\ Size \in Nat /\ Text \in Seq(Classes) /\ Size = Len(Text)
        /\ p \in Nat /\ seen \in Nat /\ p <= seen /\ Len(s.pending) = held
        /\ s.pending = Slice(Text, p, held)
    <2>1. seen \in p .. Size /\ s.pending = Slice(Text, p, held)
      BY DEF ScannerAt
    <2> QED BY <2>1, ScannerTyped DEF ConfigTyped, Size
  <1>2. /\ stop \in Nat /\ stop <= Size
        /\ held \in Nat /\ more \in Nat /\ len \in Nat
        /\ p + held = seen /\ seen + more = stop /\ p + len = stop /\ held + more = len
        /\ seen - held = p
    BY <1>1
  <1> HIDE DEF held, more, len
  <1>3. /\ s.pending \in Seq(Classes)
        /\ chunk \in Seq(Classes) /\ Len(chunk) = more
        /\ buf \in Seq(Classes) /\ Len(buf) = len
    <2>1. p + held <= Len(Text) /\ seen + more <= Len(Text) /\ p + len <= Len(Text)
      BY <1>1, <1>2
    <2> QED BY <1>1, <1>2, <2>1, SliceIs
  <1>4. /\ \A k \in 1 .. held : s.pending[k] = Text[p + k]
        /\ \A k \in 1 .. more : chunk[k] = Text[seen + k]
        /\ \A k \in 1 .. len : buf[k] = Text[p + k]
    BY <1>1 DEF Slice
  <1> HIDE DEF chunk, buf
  <1>5. s.pending \o chunk = buf
    <2>1. Len(s.pending) = held /\ Len(buf) = Len(s.pending) + Len(chunk)
      BY <1>1, <1>2, <1>3
    <2>2. \A k \in 1 .. Len(s.pending) : buf[k] = s.pending[k]
      <3>1. \A k \in 1 .. held : k \in 1 .. len
        BY <1>2
      <3> QED BY <1>4, <2>1, <3>1
    <2>3. \A k \in 1 .. Len(chunk) : buf[Len(s.pending) + k] = chunk[k]
      <3> SUFFICES ASSUME NEW k \in 1 .. more PROVE buf[held + k] = chunk[k]
        BY <1>3, <2>1
      <3>1. held + k \in 1 .. len /\ p + (held + k) = seen + k
        BY <1>1, <1>2
      <3>2. buf[held + k] = Text[p + (held + k)] /\ chunk[k] = Text[seen + k]
        BY <1>4, <3>1
      <3> QED BY <3>1, <3>2
    <2> QED BY <1>3, <2>1, <2>2, <2>3, JoinIs
  <1>6. feed(s, chunk, seen) = Loop(buf, p, t)
    <2>1. seen - Len(s.pending) = p
      BY <1>1, <1>2
    <2> QED BY <1>5, <2>1, FeedIs, Zenon
  <1>7. ScannerAt(t, p, p)
    BY TakenUp
  <1> HIDE DEF t
  <1>8. \E e \in Nat : ScannerAt(Loop(buf, p, t), p + len, e)
    BY <1>1, <1>2, <1>7, LoopTurns DEF buf
  <1> QED BY <1>2, <1>6, <1>8 DEF chunk, more

-----------------------------------------------------------------------------
(* Strings: the result. *)

Wanted == {Closed(r) : r \in {q \in Runs : Long(q)}}

(* StringsAreExact of a result that may be cut off. *)
Exact(out, cut) ==
    LET found == {out[k] : k \in 1 .. Len(out)}
    IN  /\ found \subseteq Wanted
        /\ \A k \in 2 .. Len(out) : out[k - 1].end <= out[k].offset
        /\ \A r \in Wanted \ found : cut /\ \A f \in found : f.end <= r.offset
        /\ cut => Len(out) = MAX_RESULTS

StringInv ==
    /\ ConfigTyped
    /\ at \in 0 .. Size /\ truncated \in BOOLEAN
    /\ ~Scanned => \E p \in Nat : ScannerAt(scanner, at, p)
    /\ Scanned => Exact(scanner.out, truncated)

LEMMA WantedIs ==
    ASSUME ConfigTyped
    PROVE  Wanted = Upto(Size)
  <1>1. \A q \in Runs : q[2] <= Size
    <2> TAKE q \in Runs
    <2>1. q[2] \in 0 .. Size
      BY RunsAre
    <2> QED BY <2>1
  <1> QED BY <1>1 DEF Wanted, Upto

LEMMA AllIsExact ==
    ASSUME ConfigTyped, NEW out, Reports(out, Upto(Size))
    PROVE  Exact(out, FALSE)
  <1>1. {out[k] : k \in 1 .. Len(out)} = Wanted /\ Len(out) \in Nat
    BY WantedIs DEF Reports
  <1>2. \A k \in 2 .. Len(out) : out[k - 1].end <= out[k].offset
    <2> TAKE k \in 2 .. Len(out)
    <2>1. k \in 1 .. Len(out) /\ k - 1 \in 1 .. k - 1
      BY <1>1
    <2> QED BY <2>1 DEF Reports
  <1> QED BY <1>1, <1>2 DEF Exact

(* Past the limit, the first results are the foremost runs. *)
LEMMA CutIsExact ==
    ASSUME ConfigTyped, NEW s, NEW seen, NEW p, ScannerAt(s, seen, p), Len(s.out) >= MAX_RESULTS
    PROVE  Exact(FirstResults(s.out), TRUE)
  <1> DEFINE n == Len(s.out)
             m == MAX_RESULTS
             out == FirstResults(s.out)
  <1>1. Reports(s.out, Found(p)) /\ s.out \in Seq(Entries) /\ n \in Nat /\ m \in Nat /\ m <= n
    BY ScanConstants DEF ScannerAt, Reports
  <1>2. out = [i \in 1 .. m |-> s.out[i]]
    <2>1. Lesser(n, m) = m /\ \A i \in Nat : 0 + i = i
      BY <1>1 DEF Lesser
    <2>2. out = [i \in 1 .. m |-> s.out[0 + i]]
      BY <2>1 DEF FirstResults, Slice
    <2> QED BY <1>1, <2>1, <2>2
  <1> HIDE DEF out
  <1>3. Len(out) = m /\ \A i \in 1 .. m : out[i] = s.out[i] /\ i \in 1 .. n
    BY <1>1, <1>2
  <1>4. p \in Nat /\ Size \in Nat
    BY ScannerTyped DEF ConfigTyped, Size
  <1>5. ASSUME NEW k \in 1 .. m
        PROVE  \E q \in Runs : Long(q) /\ q[2] < p /\ out[k] = Closed(q) /\ out[k].end = q[2]
    <2>1. s.out[k] \in Found(p)
      BY <1>1, <1>3 DEF Reports
    <2>2. PICK q \in Runs : Long(q) /\ q[2] < p /\ s.out[k] = Closed(q)
      BY <2>1 DEF Found
    <2> QED BY <1>3, <2>2 DEF ScannerAt
  <1> DEFINE found == {out[k] : k \in 1 .. Len(out)}
  <1>6. found \subseteq Wanted
    BY <1>3, <1>5 DEF Wanted
  <1>7. \A k \in 2 .. Len(out) : out[k - 1].end <= out[k].offset
    <2> TAKE k \in 2 .. Len(out)
    <2>1. k \in 1 .. m /\ k - 1 \in 1 .. m /\ k - 1 \in 1 .. k - 1
      BY <1>1, <1>3
    <2>2. s.out[k - 1].end <= s.out[k].offset
      BY <1>1, <1>3, <2>1 DEF Reports
    <2> QED BY <1>3, <2>1, <2>2
  <1>8. ASSUME NEW r \in Wanted \ found, NEW k \in 1 .. m
        PROVE  out[k].end <= r.offset
    <2>1. PICK q \in Runs : Long(q) /\ r = Closed(q)
      BY DEF Wanted
    <2>2. q[2] \in Nat /\ q[2] <= Size /\ Chain(q[1], q[2])
      <3>1. q[2] \in 0 .. Size /\ Chain(q[1], q[2])
        BY RunsAre
      <3> QED BY <1>4, <3>1
    <2>3. CASE q[2] < p
      <3>1. r \in Found(p)
        BY <2>1, <2>3 DEF Found
      <3>2. PICK l \in 1 .. n : r = s.out[l]
        BY <1>1, <3>1 DEF Reports
      <3>3. ~(l \in 1 .. m)
        <4> SUFFICES ASSUME l \in 1 .. m PROVE r \in found
          OBVIOUS
        <4> QED BY <1>3, <3>2
      <3>4. k \in 1 .. l - 1
        BY <1>1, <3>3
      <3>5. s.out[k].end <= s.out[l].offset
        BY <1>1, <3>4 DEF Reports
      <3> QED BY <1>3, <3>2, <3>5
    <2>4. CASE ~(q[2] < p)
      <3>1. PICK g \in Runs : g[2] < p /\ out[k].end = g[2]
        BY <1>5
      <3>2. g[2] \in Nat
        BY RunsAre
      <3>3. g[2] < q[2]
        BY <1>4, <2>2, <2>4, <3>1, <3>2
      <3>4. g[2] <= q[1]
        BY <2>2, <3>3, RunsApart
      <3>5. r.offset = q[1]
        BY <2>1, ClosedIs
      <3> QED BY <3>1, <3>4, <3>5
    <2> QED BY <2>3, <2>4
  <1>9. \A r \in Wanted \ found : \A f \in found : f.end <= r.offset
    BY <1>3, <1>8
  <1> QED BY <1>3, <1>6, <1>7, <1>9 DEF Exact, out

LEMMA StringsExactThen == StringInv => StringsAreExact
  BY DEF StringInv, StringsAreExact, Exact, Wanted

LEMMA StringsInitially ==
    ASSUME NEW called, ScanInit(called)
    PROVE  StringInv
  <1>1. /\ config.encoding \in Encodings /\ Text \in Seq(Classes)
        /\ config.chunk \in Nat \ {0} /\ config.min_length \in Nat \ {0}
    <2>1. CASE called
      <3>1. PICK encoding \in DOMAIN Samples : \E bytes \in Samples[encoding] :
              \E chunk \in ChunkSizes, min_length \in MinLengths :
                 config = Config(encoding, bytes, chunk, min_length)
        BY <2>1 DEF ScanInit
      <3>2. PICK bytes \in Samples[encoding], chunk \in ChunkSizes, min_length \in MinLengths :
                 config = Config(encoding, bytes, chunk, min_length)
        BY <3>1
      <3>3. /\ encoding \in Encodings /\ bytes \in Seq(Classes)
            /\ chunk \in Nat \ {0} /\ min_length \in Nat \ {0}
        BY ScanConstants DEF Encodings
      <3> QED BY <3>2, <3>3 DEF Config, Text
    <2>2. CASE ~called
      <3>1. config = Config("ascii", << >>, 1, 1)
        BY <2>2 DEF ScanInit
      <3> QED BY <3>1 DEF Config, Text, Encodings
    <2> QED BY <2>1, <2>2
  <1>2. ConfigTyped /\ Size \in Nat
    BY <1>1 DEF ConfigTyped, Size
  <1>3. scanner = Idle /\ at = 0 /\ truncated = FALSE
    BY DEF ScanInit
  <1>4. \A q \in Runs : q[2] \in Nat /\ q[2] > 0
    <2> TAKE q \in Runs
    <2>1. q[2] \in 0 .. Size /\ Chain(q[1], q[2])
      BY <1>2, RunsAre
    <2> QED BY <1>2, <2>1 DEF Chain
  <1>5. Reports(<< >>, {})
    BY DEF Reports
  <1>6. ScannerAt(scanner, at, 0)
    <2>1. Found(0) = {}
      BY <1>4 DEF Found
    <2>2. Sync(0) /\ NoneEnds(0)
      BY <1>2 DEF Sync, NoneEnds
    <2>3. Slice(Text, 0, 0 - 0) = << >>
      BY DEF Slice
    <2>4. scanner = [run_chars |-> 0, run_start |-> 0, pending |-> << >>, out |-> << >>]
      BY <1>3 DEF Idle
    <2>5. /\ scanner = [run_chars |-> scanner.run_chars, run_start |-> scanner.run_start,
                        pending |-> scanner.pending, out |-> scanner.out]
          /\ scanner.run_chars = 0 /\ scanner.run_start = 0 /\ scanner.pending = << >>
          /\ scanner.out = << >>
      BY <2>4
    <2>6. at = 0 /\ 0 \in 0 .. Size /\ ~(0 < 0)
      BY <1>2, <1>3
    <2>7. \A q \in Runs : q[2] < 0 => Closed(q).end = q[2]
      BY <1>4
    <2>8. Reports(scanner.out, Found(0)) /\ scanner.pending = Slice(Text, 0, 0 - 0)
      BY <1>5, <2>1, <2>3, <2>5
    <2>9. ScannerAt(scanner, 0, 0)
      BY <2>2, <2>5, <2>6, <2>7, <2>8 DEF ScannerAt
    <2> QED BY <2>6, <2>9
  <1>7. Scanned => Exact(scanner.out, truncated)
    <2> SUFFICES ASSUME Scanned PROVE Exact(scanner.out, truncated)
      OBVIOUS
    <2>1. Size = 0
      BY <1>3 DEF Scanned, Size, Text
    <2>2. Runs = {}
      BY <1>2, <1>4, <2>1, RunsAre
    <2>3. Upto(Size) = {}
      BY <2>2 DEF Upto
    <2>4. Exact(<< >>, FALSE)
      BY <1>2, <1>5, <2>3, AllIsExact
    <2> QED BY <1>3, <2>4 DEF Idle
  <1>8. at \in 0 .. Size /\ 0 \in Nat
    BY <1>2, <1>3
  <1>9. truncated \in BOOLEAN
    BY <1>3, Zenon
  <1> QED BY <1>2, <1>6, <1>7, <1>8, <1>9 DEF StringInv

(* What is said of the range stays true of it. *)
LEMMA SameRange ==
    ASSUME config' = config
    PROVE  /\ ConfigTyped' = ConfigTyped /\ Size' = Size
           /\ \A s, seen, p : ScannerAt(s, seen, p)' = ScannerAt(s, seen, p)
           /\ \A out, cut : Exact(out, cut)' = Exact(out, cut)
  <1>1. /\ Text' = Text /\ Size' = Size
        /\ \A i : UnitAt(i)' = UnitAt(i)
        /\ \A i : CharAt(i)' = CharAt(i)
        /\ \A i : After(i)' = After(i)
    BY DEF Text, Size, UnitAt, CharAt, After
  <1>2. /\ \A lo, hi : Chars(lo, hi)' = Chars(lo, hi)
        /\ \A p : NoneEnds(p)' = NoneEnds(p)
        /\ \A p : Sync(p)' = Sync(p)
    BY <1>1 DEF Chars, NoneEnds, Sync
  <1>3. \A f, p : Chain(f, p)' = Chain(f, p)
    BY <1>1, <1>2 DEF Chain
  <1>4. Runs' = Runs
    BY <1>1 DEF Runs, Run
  <1>5. \A r : Long(r)' = Long(r) /\ Closed(r)' = Closed(r)
    BY <1>1 DEF Long, Closed
  <1>6. Wanted' = Wanted /\ \A p : Found(p)' = Found(p)
    BY <1>4, <1>5 DEF Wanted, Found
  <1>7. \A s, seen, p : ScannerAt(s, seen, p)' = ScannerAt(s, seen, p)
    BY <1>1, <1>2, <1>3, <1>4, <1>5, <1>6 DEF ScannerAt, Reports
  <1>8. \A out, cut : Exact(out, cut)' = Exact(out, cut)
    BY <1>6 DEF Exact
  <1> QED BY <1>1, <1>7, <1>8 DEF ConfigTyped

(* The last flush closes the run that reaches the end of the range. *)
LEMMA LastFlush ==
    ASSUME ConfigTyped, NEW s, NEW p, ScannerAt(s, Size, p)
    PROVE  Reports(flush(s, Size, config.min_length).out, Upto(Size))
  <1>1. p \in Nat /\ p <= Size /\ Size \in Nat /\ Sync(p) /\ Size = Len(Text) /\ Text \in Seq(Classes)
        /\ config.encoding \in Encodings
    BY ScannerTyped DEF ScannerAt, Sync, ConfigTyped, Size
  <1>2. p < Size => UnitAt(p).kind = "partial"
    BY DEF ScannerAt
  <1>3. p = Size \/ ~CharAt(p)
    <2>1. CharAt(p) => UnitAt(p).kind = "prints"
      BY DEF CharAt, UnitAt, Text
    <2> QED BY <1>1, <1>2, <2>1
  <1>4. s.run_chars # 0 => Size = Closed(<<s.run_start, p>>).end
    <2> SUFFICES ASSUME s.run_chars # 0 PROVE Size = Closed(<<s.run_start, p>>).end
      OBVIOUS
    <2>1. Chain(s.run_start, p)
      BY DEF ScannerAt
    <2>2. <<s.run_start, p>> \in Runs
      BY <1>1, <1>3, <2>1, RunsAre
    <2>3. Closed(<<s.run_start, p>>).end = IF p < Size /\ UnitAt(p).kind = "partial" THEN Size ELSE p
      BY <2>2, ClosedIs
    <2> QED BY <1>1, <1>2, <2>3
  <1>5. Reports(flush(s, Size, config.min_length).out, Upto(p))
    BY <1>3, <1>4, FlushLists
  <1>6. \A i \in Nat : i >= p => ~CharAt(i)
    <2>1. CASE p = Size
      <3> SUFFICES ASSUME NEW i \in Nat, i >= p, CharAt(i) PROVE FALSE
        OBVIOUS
      <3>1. i < Size
        BY CharIs
      <3> QED BY <1>1, <2>1, <3>1
    <2>2. CASE p < Size
      <3> DEFINE u == UnitAt(p)
                 width == Width(config.encoding, Text[p + 1])
      <3>1. p \in 0 .. Len(Text) - 1 /\ Text[p + 1] \in Classes
        BY <1>1, <2>2
      <3>2. /\ width \in 1 .. 3 /\ u.n \in 1 .. width /\ Fits(config.encoding, Text, p, u.n)
            /\ u.kind = "partial" <=> u.n < width /\ p + u.n = Len(Text)
        BY <1>1, <3>1, UnitIs DEF UnitAt
      <3>3. /\ config.encoding = "utf16" => width = 2
            /\ config.encoding = "ascii" => width = 1
        BY <1>1, <3>1, WidthIs
      <3> HIDE DEF u, width
      <3>4. u.n \in 1 .. 3 /\ u.n < width /\ p + u.n = Size
        BY <1>1, <1>2, <2>2, <3>2 DEF u
      <3>5. /\ config.encoding = "utf8" => \A k \in 2 .. u.n : Text[p + k] = "c"
            /\ config.encoding = "ascii" => u.n = 1
            /\ config.encoding = "utf16" => u.n <= 2 /\ p % 2 = 0
        <4>1. config.encoding = "utf8" => \A k \in 2 .. u.n : Text[p + k] = "c"
          BY <3>2 DEF Fits
        <4>2. config.encoding = "utf16" => p % 2 = 0
          BY <1>1 DEF Sync
        <4> QED BY <3>2, <3>3, <3>4, <4>1, <4>2
      <3>6. \A j \in p + 1 .. p + u.n - 1 : ~CharAt(j)
        BY <1>1, <3>4, <3>5, QuietInside
      <3> SUFFICES ASSUME NEW i \in Nat, i >= p, CharAt(i) PROVE FALSE
        OBVIOUS
      <3>7. i < Size
        BY CharIs
      <3>8. i # p
        BY <1>3, <2>2
      <3>9. i \in p + 1 .. p + u.n - 1
        BY <1>1, <3>4, <3>7, <3>8
      <3> QED BY <3>6, <3>9
    <2> QED BY <1>1, <2>1, <2>2
  <1>7. \A q \in Runs : q[2] <= p <=> q[2] <= Size
    <2> TAKE q \in Runs
    <2>1. PICK i \in Nat : i < q[2] /\ CharAt(i) /\ After(i) = q[2]
      BY EndsAtChar
    <2>2. i \in 0 .. p - 1
      BY <1>1, <1>6, <2>1
    <2>3. q[2] <= p /\ q[2] \in Nat
      BY <1>1, <2>1, <2>2, RunsAre DEF Sync
    <2> QED BY <1>1, <2>3
  <1>8. Upto(p) = Upto(Size)
    BY <1>7 DEF Upto
  <1> QED BY <1>5, <1>8

(* The first results of few results are all of them. *)
LEMMA FewResults ==
    ASSUME NEW out \in Seq(Entries), Len(out) <= MAX_RESULTS
    PROVE  FirstResults(out) = out
  <1>1. Len(out) \in Nat /\ MAX_RESULTS \in Nat
    BY ScanConstants
  <1>2. Lesser(Len(out), MAX_RESULTS) = Len(out) /\ \A i \in Nat : 0 + i = i
    BY <1>1 DEF Lesser
  <1>3. FirstResults(out) = [i \in 1 .. Len(out) |-> out[0 + i]]
    BY <1>2 DEF FirstResults, Slice
  <1>4. out = [i \in 1 .. Len(out) |-> out[i]]
    OBVIOUS
  <1> QED BY <1>1, <1>2, <1>3, <1>4

LEMMA ExtractKeeps ==
    ASSUME StringInv, ExtractStep
    PROVE  StringInv'
  <1> DEFINE stop == Lesser(at + config.chunk, Size)
             fed == feed(scanner, Slice(Text, at, stop - at), at)
             full == Len(fed.out) >= MAX_RESULTS
             last == IF stop = Size /\ ~full THEN flush(fed, stop, config.min_length) ELSE fed
  <1>1. /\ ~Scanned /\ config' = config /\ at' = stop
        /\ scanner' = [last EXCEPT !.out = FirstResults(@)]
        /\ truncated' = (full \/ Len(last.out) > MAX_RESULTS)
    BY DEF ExtractStep, Text, Size
  <1>2. ConfigTyped /\ Size \in Nat /\ MAX_RESULTS \in Nat /\ at \in 0 .. Size
    BY ScanConstants DEF StringInv, ConfigTyped, Size
  <1>3. stop \in at .. Size /\ stop \in Nat
    <2>1. config.chunk \in Nat
      BY <1>2 DEF ConfigTyped
    <2> QED BY <1>2, <2>1 DEF Lesser
  <1>4. PICK p \in Nat : ScannerAt(scanner, at, p)
    BY <1>1 DEF StringInv
  <1>5. PICK e \in Nat : ScannerAt(fed, stop, e)
    BY <1>2, <1>3, <1>4, FeedKeeps
  <1> HIDE DEF stop, fed
  <1>6. fed \in Scanners /\ fed.out \in Seq(Entries) /\ Len(fed.out) \in Nat
    <2>1. fed \in Scanners
      BY <1>2, <1>5, ScannerTyped
    <2> QED BY <2>1 DEF Scanners
  <1>7. ConfigTyped' /\ Size' = Size /\ at' \in 0 .. Size
    BY <1>1, <1>2, <1>3, SameRange
  <1>8. ASSUME NEW out, NEW cut \in BOOLEAN, scanner'.out = out, truncated' = cut, Scanned',
               Exact(out, cut)
        PROVE  StringInv'
    <2>1. Exact(scanner.out, truncated)'
      BY <1>1, <1>8, SameRange
    <2> QED BY <1>7, <1>8, <2>1 DEF StringInv
  <1>9. CASE full
    <2>1. last = fed /\ truncated' = TRUE
      BY <1>1, <1>9
    <2>2. scanner'.out = FirstResults(fed.out)
      BY <1>1, <1>6, <2>1 DEF Scanners
    <2>3. Exact(FirstResults(fed.out), TRUE)
      BY <1>2, <1>5, <1>9, CutIsExact
    <2>4. Scanned'
      BY <2>1 DEF Scanned
    <2> QED BY <1>8, <2>1, <2>2, <2>3, <2>4
  <1>10. CASE ~full /\ stop # Size
    <2>1. last = fed /\ Len(fed.out) < MAX_RESULTS
      BY <1>2, <1>6, <1>10
    <2>2. truncated' = FALSE
      <3>1. ~(Len(last.out) > MAX_RESULTS)
        BY <1>2, <1>6, <2>1
      <3> HIDE DEF last, full
      <3> QED BY <1>1, <1>10, <3>1, Zenon
    <2>3. FirstResults(fed.out) = fed.out
      BY <1>2, <1>6, <2>1, FewResults
    <2>4. scanner' = fed
      BY <1>1, <1>6, <2>1, <2>3 DEF Scanners
    <2>5. ~Scanned'
      <3>1. at' # Size /\ Size = Len(config.bytes)
        BY <1>1, <1>10 DEF Size, Text
      <3> QED BY <1>1, <2>2, <3>1 DEF Scanned
    <2>6. ScannerAt(scanner', at', e)
      BY <1>1, <1>5, <2>4
    <2>7. ScannerAt(scanner, at, e)'
      BY <1>1, <2>6, SameRange
    <2> QED BY <1>7, <2>2, <2>5, <2>7 DEF StringInv
  <1>11. CASE ~full /\ stop = Size
    <2>1. last = flush(fed, Size, config.min_length) /\ Len(fed.out) < MAX_RESULTS
      BY <1>2, <1>6, <1>11
    <2>2. Reports(last.out, Upto(Size))
      BY <1>2, <1>5, <1>11, <2>1, LastFlush
    <2>3. last.out \in Seq(Entries) /\ Len(last.out) <= MAX_RESULTS /\ last.out = last["out"]
      <3>1. last.out = fed.out \/ \E entry : last.out = Append(fed.out, entry)
        BY <1>6, <2>1 DEF flush, Scanners
      <3>2. Len(last.out) <= Len(fed.out) + 1
        BY <1>6, <3>1
      <3> QED BY <1>2, <1>6, <2>1, <2>2, <3>2 DEF Reports
    <2>4. truncated' = FALSE
      <3>1. ~(Len(last.out) > MAX_RESULTS)
        <4>1. Len(last.out) \in Nat /\ Len(last.out) <= MAX_RESULTS
          BY <2>3
        <4> HIDE DEF last
        <4> QED BY <1>2, <4>1
      <3> HIDE DEF last, full
      <3> QED BY <1>1, <1>11, <3>1, Zenon
    <2>5. scanner'.out = last.out
      <3>1. last = [last EXCEPT !.out = last.out] /\ "out" \in DOMAIN last
        BY <1>6, <2>1 DEF flush, Scanners
      <3>2. FirstResults(last.out) = last.out
        BY <2>3, FewResults
      <3> HIDE DEF last
      <3> QED BY <1>1, <3>1, <3>2
    <2>6. Exact(last.out, FALSE)
      BY <1>2, <2>2, AllIsExact
    <2>7. Scanned'
      <3>1. at' = Len(config'.bytes)
        BY <1>1, <1>11 DEF Size, Text
      <3> QED BY <3>1 DEF Scanned
    <2> HIDE DEF last
    <2> QED BY <1>8, <2>4, <2>5, <2>6, <2>7
  <1> QED BY <1>9, <1>10, <1>11

(* The search for strings reports exactly the runs of printable characters  *)
(* that are long enough, in their order, in whatever chunks the range was    *)
(* read, and past the limit the foremost of them (strings.rs extract,        *)
(* Scanner::feed).                                                           *)
THEOREM StringsAlwaysExact == PanelsSpec => []StringsAreExact
  <1>1. PanelsInit => StringInv
    BY StringsInitially DEF PanelsInit
  <1>2. StringInv /\ [PanelsNext]_panelsVars => StringInv'
    <2> SUFFICES ASSUME StringInv, [PanelsNext]_panelsVars PROVE StringInv'
      OBVIOUS
    <2>1. CASE UNCHANGED scanVars
      <3>1. config' = config /\ scanner' = scanner /\ at' = at /\ truncated' = truncated
        BY <2>1 DEF scanVars
      <3> QED BY <3>1, SameRange DEF StringInv, Scanned
    <2>2. CASE StringsStep
      BY <2>2, ExtractKeeps DEF StringsStep
    <2>3. PanelsNext => UNCHANGED scanVars \/ StringsStep
      BY DEF PanelsNext, EditTab, SaveTab, ReloadTab, TemplateStep, AnalysisStep, CompareStep,
             SearchStep, FindStep, RowsStep, algorithmVars
    <2> QED BY <2>1, <2>2, <2>3 DEF panelsVars, algorithmVars
  <1> QED BY <1>1, <1>2, StringsExactThen, PTL DEF PanelsSpec

=============================================================================
