------------------------ MODULE FileWatcherProofs ------------------------
(***************************************************************************)
(* The UI thread and the poll worker agree on what is polled, for any       *)
(* number of paths and whatever commands are under way.                    *)
(*                                                                         *)
(* The worker obeys its commands one after the other.  What the UI thread   *)
(* sends goes to the end of the channel, and taking commands from its front *)
(* moves a part of the work from "will be done" to "done"; so the proof is  *)
(* about how runs of commands compose.                                     *)
(***************************************************************************)
EXTENDS FileWatcher, TLAPS, FiniteSetTheorems, WellFoundedInduction

-----------------------------------------------------------------------------
(* Runs of commands. *)

(* What holds at 0, and at k if it holds at k - 1, holds up to n. *)
LEMMA Onward ==
    ASSUME NEW n \in Nat, NEW I, 0 \in I, \A k \in 1 .. n : k - 1 \in I => k \in I
    PROVE  \A k \in 0 .. n : k \in I
  <1> DEFINE Missed == (0 .. n) \ I
  <1> SUFFICES ASSUME Missed # {} PROVE FALSE
    OBVIOUS
  <1>1. Missed \in SUBSET Nat
    OBVIOUS
  <1>2. IsWellFoundedOn(OpToRel(<, Nat), Nat)
    BY NatLessThanWellFounded
  <1>3. PICK m \in Missed : \A k \in Missed : ~ (<<k, m>> \in OpToRel(<, Nat))
    BY <1>1, <1>2, WFMin, Zenon
  <1>4. \A k \in Missed : ~ (k < m)
    BY <1>1, <1>3 DEF OpToRel
  <1>5. m \in 0 .. n /\ m \notin I /\ m # 0
    BY <1>3
  <1>6. m \in 1 .. n /\ m - 1 \in 0 .. n /\ m - 1 < m
    BY <1>5
  <1>7. m - 1 \in I
    BY <1>4, <1>6
  <1> QED BY <1>5, <1>6, <1>7

(* p goes through what the worker tracks, command by command. *)
Passes(p, known, commands) ==
    /\ p[0] = known
    /\ \A k \in 1 .. Len(commands) : p[k] = Obeyed(p[k - 1], commands[k])

LEMMA AfterPasses ==
    ASSUME NEW S, NEW commands \in Seq(S), NEW known
    PROVE  \E p : Passes(p, known, commands) /\ After(known, commands) = p[Len(commands)]
  <1>0. PICK n \in Nat : n = Len(commands)
    OBVIOUS
  <1> DEFINE Step(h, k) == Obeyed(h, commands[k])
             Eqn(f, m) == f = [i \in 0 .. m |-> IF i = 0 THEN known ELSE Step(f[i - 1], i)]
             I == {m \in 0 .. n : \E f : Eqn(f, m)}
             p == CHOOSE f : Eqn(f, n)
  <1>1. After(known, commands) = p[n]
    BY <1>0 DEF After
  <1> HIDE DEF Step
  <1>2. 0 \in I
    <2> DEFINE f == [i \in 0 .. 0 |-> known]
    <2>1. Eqn(f, 0)
      OBVIOUS
    <2> HIDE DEF f, Eqn
    <2> QED BY <2>1
  <1>3. ASSUME NEW m \in 1 .. n, m - 1 \in I PROVE m \in I
    <2>1. PICK f : Eqn(f, m - 1)
      BY <1>3
    <2> DEFINE g == [i \in 0 .. m |-> IF i < m THEN f[i] ELSE Step(f[m - 1], m)]
    <2>2. \A k \in 0 .. m - 1 : f[k] = IF k = 0 THEN known ELSE Step(f[k - 1], k)
      BY <2>1, Zenon
    <2>3. ASSUME NEW k \in 0 .. m PROVE g[k] = IF k = 0 THEN known ELSE Step(g[k - 1], k)
      <3>1. CASE k = 0
        BY <3>1, <2>2
      <3>2. CASE k # 0
        <4>1. k - 1 \in 0 .. m /\ k - 1 < m
          BY <3>2
        <4>2. g[k - 1] = f[k - 1]
          BY <4>1
        <4>3. CASE k = m
          <5>1. g[k] = Step(f[m - 1], m)
            BY <4>3
          <5> QED BY <3>2, <4>2, <4>3, <5>1
        <4>4. CASE k < m
          <5>1. k \in 0 .. m - 1 /\ g[k] = f[k]
            BY <4>4
          <5>2. f[k] = Step(f[k - 1], k)
            BY <5>1, <2>2, <3>2
          <5> HIDE DEF g
          <5> QED BY <3>2, <4>2, <5>1, <5>2
        <4> QED BY <4>3, <4>4
      <3> QED BY <3>1, <3>2
    <2>4. g = [k \in 0 .. m |-> g[k]]
      OBVIOUS
    <2> HIDE DEF g
    <2>5. Eqn(g, m)
      BY <2>3, <2>4
    <2>6. m \in 0 .. n
      OBVIOUS
    <2> HIDE DEF Eqn
    <2> QED BY <2>5, <2>6
  <1> HIDE DEF I
  <1>4. n \in I
    <2>1. \A k \in 0 .. n : k \in I
      BY <1>2, <1>3, Onward
    <2> QED BY <2>1
  <1>5. Eqn(p, n)
    <2> HIDE DEF Eqn
    <2>1. \E f : Eqn(f, n)
      BY <1>4 DEF I
    <2> QED BY <2>1
  <1> HIDE DEF p
  <1>6. \A k \in 0 .. n : p[k] = IF k = 0 THEN known ELSE Step(p[k - 1], k)
    BY <1>5, Zenon
  <1>7. p[0] = known
    BY <1>6
  <1>8. ASSUME NEW k \in 1 .. n PROVE p[k] = Step(p[k - 1], k)
    <2>1. k \in 0 .. n /\ k # 0
      OBVIOUS
    <2> QED BY <1>6, <2>1
  <1>9. Passes(p, known, commands)
    BY <1>0, <1>7, <1>8 DEF Step, Passes
  <1> QED BY <1>0, <1>1, <1>9

(* Two such passages are the same. *)
LEMMA PassesAlike ==
    ASSUME NEW S, NEW commands \in Seq(S), NEW known, NEW p, NEW q,
           Passes(p, known, commands), Passes(q, known, commands)
    PROVE  \A k \in 0 .. Len(commands) : p[k] = q[k]
  <1>0. PICK n \in Nat : n = Len(commands)
    OBVIOUS
  <1> DEFINE I == {k \in 0 .. n : p[k] = q[k]}
  <1>1. 0 \in I
    BY DEF Passes
  <1>2. ASSUME NEW k \in 1 .. n, k - 1 \in I PROVE k \in I
    BY <1>0, <1>2 DEF Passes
  <1> HIDE DEF I
  <1>3. \A k \in 0 .. n : k \in I
    BY <1>1, <1>2, Onward
  <1> QED BY <1>0, <1>3 DEF I

LEMMA AfterIs ==
    ASSUME NEW S, NEW commands \in Seq(S), NEW known, NEW p, Passes(p, known, commands)
    PROVE  After(known, commands) = p[Len(commands)]
  <1>1. PICK q : Passes(q, known, commands) /\ After(known, commands) = q[Len(commands)]
    BY AfterPasses
  <1>2. Len(commands) \in 0 .. Len(commands)
    OBVIOUS
  <1> QED BY <1>1, <1>2, PassesAlike

LEMMA AfterNone ==
    ASSUME NEW known
    PROVE  After(known, << >>) = known
  <1>1. << >> \in Seq({}) /\ Len(<< >>) = 0
    OBVIOUS
  <1>2. PICK p : Passes(p, known, << >>) /\ After(known, << >>) = p[0]
    BY <1>1, AfterPasses
  <1> QED BY <1>2 DEF Passes

(* Obeying one list after another. *)
LEMMA AfterBoth ==
    ASSUME NEW S, NEW a \in Seq(S), NEW b \in Seq(S), NEW known
    PROVE  After(known, a \o b) = After(After(known, a), b)
  <1>1. PICK n \in Nat : n = Len(a)
    OBVIOUS
  <1>2. PICK m \in Nat : m = Len(b)
    OBVIOUS
  <1>3. PICK ab \in Seq(S) : ab = a \o b
    <2>1. a \o b \in Seq(S)
      OBVIOUS
    <2> QED BY <2>1, Zenon
  <1>4. /\ Len(ab) = n + m
        /\ \A k \in 1 .. n : ab[k] = a[k]
        /\ \A k \in 1 .. m : ab[n + k] = b[k]
    BY <1>1, <1>2, <1>3
  <1>5. PICK p : Passes(p, known, ab) /\ After(known, ab) = p[n + m]
    BY <1>4, AfterPasses
  <1>6. Passes(p, known, a)
    BY <1>1, <1>4, <1>5 DEF Passes
  <1>7. After(known, a) = p[n]
    BY <1>1, <1>6, AfterIs
  <1> DEFINE q == [k \in 0 .. m |-> p[n + k]]
  <1>8. ASSUME NEW k \in 1 .. m PROVE q[k] = Obeyed(q[k - 1], b[k])
    <2>1. n + k \in 1 .. n + m /\ (n + k) - 1 = n + (k - 1) /\ k - 1 \in 0 .. m /\ k \in 0 .. m
      OBVIOUS
    <2>2. p[n + k] = Obeyed(p[n + (k - 1)], ab[n + k])
      BY <1>4, <1>5, <2>1 DEF Passes
    <2> QED BY <1>4, <2>1, <2>2
  <1>9. q[0] = p[n] /\ q[m] = p[n + m]
    OBVIOUS
  <1> HIDE DEF q
  <1>10. Passes(q, p[n], b)
    BY <1>2, <1>8, <1>9 DEF Passes
  <1>11. After(p[n], b) = q[m]
    BY <1>2, <1>10, AfterIs
  <1> QED BY <1>3, <1>5, <1>7, <1>9, <1>11

LEMMA AfterOne ==
    ASSUME NEW S, NEW a \in Seq(S), NEW c \in S, NEW known
    PROVE  After(known, Append(a, c)) = Obeyed(After(known, a), c)
  <1>1. Append(a, c) = a \o <<c>> /\ <<c>> \in Seq(S) /\ Len(<<c>>) = 1 /\ <<c>>[1] = c
    OBVIOUS
  <1>2. PICK h : h = After(known, a)
    OBVIOUS
  <1>3. PICK p : Passes(p, h, <<c>>) /\ After(h, <<c>>) = p[1]
    BY <1>1, AfterPasses
  <1>4. p[1] = Obeyed(h, c)
    BY <1>1, <1>3 DEF Passes
  <1>5. After(known, a \o <<c>>) = After(h, <<c>>)
    BY <1>1, <1>2, AfterBoth
  <1> QED BY <1>1, <1>2, <1>3, <1>4, <1>5, Zenon

(* The paths a list of commands names, and the kind they all are of. *)
FilesOf(list) == {list[k].file : k \in 1 .. Len(list)}
AllAre(list, op) == \A k \in 1 .. Len(list) : list[k].op = op

(* A list of commands of one kind puts their paths under the worker's care, *)
(* or takes them from it.                                                  *)
LEMMA WatchAll ==
    ASSUME NEW S, NEW commands \in Seq(S), NEW known, AllAre(commands, "Watch")
    PROVE  DOMAIN After(known, commands) = DOMAIN known \cup FilesOf(commands)
  <1>0. PICK n \in Nat : n = Len(commands)
    OBVIOUS
  <1>1. PICK p : Passes(p, known, commands) /\ After(known, commands) = p[n]
    BY <1>0, AfterPasses
  <1> DEFINE Named(m) == {commands[k].file : k \in 1 .. m}
             I == {m \in 0 .. n : DOMAIN p[m] = DOMAIN known \cup Named(m)}
  <1>2. 0 \in I
    BY <1>1 DEF Passes
  <1>3. ASSUME NEW m \in 1 .. n, m - 1 \in I PROVE m \in I
    <2>1. p[m] = With(p[m - 1], commands[m].file, commands[m].snapshot)
      BY <1>0, <1>1 DEF Passes, Obeyed, AllAre
    <2>2. DOMAIN p[m] = DOMAIN p[m - 1] \cup {commands[m].file}
      BY <2>1 DEF With
    <2>3. Named(m) = Named(m - 1) \cup {commands[m].file}
      OBVIOUS
    <2>4. DOMAIN p[m - 1] = DOMAIN known \cup Named(m - 1)
      BY <1>3
    <2> HIDE DEF Named
    <2> QED BY <2>2, <2>3, <2>4
  <1> HIDE DEF I
  <1>4. n \in I
    <2>1. \A k \in 0 .. n : k \in I
      BY <1>2, <1>3, Onward
    <2> QED BY <2>1
  <1> QED BY <1>0, <1>1, <1>4 DEF I, FilesOf

LEMMA UnwatchAll ==
    ASSUME NEW S, NEW commands \in Seq(S), NEW known, AllAre(commands, "Unwatch")
    PROVE  DOMAIN After(known, commands) = DOMAIN known \ FilesOf(commands)
  <1>0. PICK n \in Nat : n = Len(commands)
    OBVIOUS
  <1>1. PICK p : Passes(p, known, commands) /\ After(known, commands) = p[n]
    BY <1>0, AfterPasses
  <1> DEFINE Named(m) == {commands[k].file : k \in 1 .. m}
             I == {m \in 0 .. n : DOMAIN p[m] = DOMAIN known \ Named(m)}
  <1>2. 0 \in I
    BY <1>1 DEF Passes
  <1>3. ASSUME NEW m \in 1 .. n, m - 1 \in I PROVE m \in I
    <2>1. p[m] = Without(p[m - 1], commands[m].file)
      BY <1>0, <1>1 DEF Passes, Obeyed, AllAre
    <2>2. DOMAIN p[m] = DOMAIN p[m - 1] \ {commands[m].file}
      BY <2>1 DEF Without
    <2>3. Named(m) = Named(m - 1) \cup {commands[m].file}
      OBVIOUS
    <2>4. DOMAIN p[m - 1] = DOMAIN known \ Named(m - 1)
      BY <1>3
    <2> HIDE DEF Named
    <2> QED BY <2>2, <2>3, <2>4
  <1> HIDE DEF I
  <1>4. n \in I
    <2>1. \A k \in 0 .. n : k \in I
      BY <1>2, <1>3, Onward
    <2> QED BY <2>1
  <1> QED BY <1>0, <1>1, <1>4 DEF I, FilesOf

-----------------------------------------------------------------------------
(* The channel. *)

Commands ==
    [op : {"Watch", "Unwatch", "Reset"}, file : Files, snapshot : Nat]
    \cup [op : {"SetInterval"}, on : BOOLEAN]

(* One command for each path of a set, in any order. *)
Sent(op, P, T) ==
    /\ \A c \in T : c \in Commands /\ c.op = op /\ c.file \in P
    /\ \A c, d \in T : c.file = d.file => c = d
    /\ \A f \in P : \E c \in T : c.file = f

LEMMA SentAre ==
    ASSUME NEW now \in [Files -> Nat], NEW P \in SUBSET Files,
           NEW op \in {"Watch", "Unwatch", "Reset"},
           NEW T, T = {[op |-> op, file |-> f, snapshot |-> now[f]] : f \in P}
    PROVE  Sent(op, P, T)
  <1>1. ASSUME NEW c \in T PROVE c \in Commands /\ c.op = op /\ c.file \in P
    BY DEF Commands
  <1>2. ASSUME NEW c \in T, NEW d \in T, c.file = d.file PROVE c = d
    BY <1>2
  <1>3. ASSUME NEW f \in P PROVE \E c \in T : c.file = f
    <2>1. [op |-> op, file |-> f, snapshot |-> now[f]] \in T
      OBVIOUS
    <2> QED BY <2>1
  <1> QED BY <1>1, <1>2, <1>3 DEF Sent

LEMMA OneEach ==
    ASSUME NEW P \in SUBSET Files, NEW op, NEW T, Sent(op, P, T), NEW list, list = SetToSeq(T)
    PROVE  list \in Seq(Commands) /\ AllAre(list, op) /\ FilesOf(list) = P
  <1>1. IsFiniteSet(P)
    BY WatcherConstants, FS_Subset
  <1>2. IsFiniteSet(T)
    <2>1. PICK g : g = [c \in T |-> c.file]
      OBVIOUS
    <2>2. g \in [T -> P] /\ \A c, d \in T : g[c] = g[d] => c = d
      BY <2>1 DEF Sent
    <2>3. g \in Injection(T, P)
      BY <2>2 DEF Injection, IsInjective
    <2> QED BY <1>1, <2>3, FS_Injection
  <1>3. PICK n \in Nat : n = Cardinality(T) /\ ExistsBijection(1 .. n, T)
    BY <1>2, FS_CardinalityType
  <1>4. \E q \in [1 .. n -> T] : IsInjective(q)
    BY <1>3 DEF ExistsBijection, Bijection, Injection, IsInjective
  <1>5. list \in [1 .. n -> T] /\ IsInjective(list)
    BY <1>3, <1>4, Zenon DEF SetToSeq
  <1>6. list \in Injection(1 .. n, T)
    BY <1>5 DEF Injection, IsInjective
  <1>7. Cardinality(1 .. n) = n
    BY FS_Interval
  <1>8. list \in Surjection(1 .. n, T)
    BY <1>2, <1>3, <1>6, <1>7, FS_Injection
  <1>9. list \in Seq(Commands) /\ Len(list) = n
    BY <1>5 DEF Sent
  <1>10. \A k \in 1 .. n : list[k].op = op /\ list[k].file \in P
    BY <1>5 DEF Sent
  <1>11. ASSUME NEW f \in P PROVE \E k \in 1 .. n : list[k].file = f
    <2>1. PICK c \in T : c.file = f
      BY DEF Sent
    <2> QED BY <1>8, <2>1 DEF Surjection
  <1> QED BY <1>9, <1>10, <1>11 DEF AllAre, FilesOf

Entries == [notify_active : BOOLEAN, polled : BOOLEAN]

(* The inductive invariant: the property, with the types of what it names. *)
WatcherTyped ==
    /\ disk \in [Files -> Nat] /\ writes \in [Files -> Nat]
    /\ poll_tx \in Seq(Commands)
    /\ DOMAIN watched \subseteq Files /\ watched \in [DOMAIN watched -> Entries]
    /\ DOMAIN shown \subseteq Files
    /\ polling \in [interval : BOOLEAN, poll_all : BOOLEAN]

PollInv == WatcherTyped /\ PollSetAgrees

-----------------------------------------------------------------------------
(* The actions. *)

LEMMA WatcherStart == WatcherInit => PollInv
  <1> SUFFICES ASSUME WatcherInit PROVE PollInv
    OBVIOUS
  <1>1. WatcherTyped
    <2>1. DOMAIN watched = {} /\ watched \in [{} -> Entries] /\ DOMAIN shown = {}
      BY DEF WatcherInit
    <2>2. polling \in [interval : BOOLEAN, poll_all : BOOLEAN]
      BY DEF WatcherInit
    <2>3. disk \in [Files -> Nat] /\ writes \in [Files -> Nat] /\ poll_tx \in Seq(Commands)
      BY DEF WatcherInit
    <2> QED BY <2>1, <2>2, <2>3 DEF WatcherTyped
  <1>2. After(tracked, poll_tx) = tracked
    BY AfterNone DEF WatcherInit
  <1>3. DOMAIN tracked = {} /\ DOMAIN watched = {}
    BY DEF WatcherInit
  <1>4. PollSetAgrees
    BY <1>2, <1>3 DEF PollSetAgrees, PolledOf
  <1> QED BY <1>1, <1>4 DEF PollInv

(* The worker does what was under way. *)
LEMMA TakeCommandsKeeps ==
    ASSUME PollInv, TakeCommands
    PROVE  PollInv'
  <1>1. tracked' = After(tracked, poll_tx) /\ poll_tx' = << >> /\ UNCHANGED watched
    BY DEF TakeCommands
  <1>2. WatcherTyped'
    BY <1>1 DEF TakeCommands, PollInv, WatcherTyped, diskSide
  <1>3. After(tracked', poll_tx') = tracked'
    BY <1>1, AfterNone
  <1>4. PollSetAgrees'
    BY <1>1, <1>3 DEF PollInv, PollSetAgrees, PolledOf
  <1> QED BY <1>2, <1>4 DEF PollInv

(* The paths a run of commands leaves depend on the paths it began with. *)
LEMMA SamePaths ==
    ASSUME NEW commands \in Seq(Commands), NEW a, NEW b, DOMAIN a = DOMAIN b
    PROVE  DOMAIN After(a, commands) = DOMAIN After(b, commands)
  <1>0. PICK n \in Nat : n = Len(commands)
    OBVIOUS
  <1>1. PICK p : Passes(p, a, commands) /\ After(a, commands) = p[n]
    BY <1>0, AfterPasses
  <1>2. PICK q : Passes(q, b, commands) /\ After(b, commands) = q[n]
    BY <1>0, AfterPasses
  <1> DEFINE I == {m \in 0 .. n : DOMAIN p[m] = DOMAIN q[m]}
  <1>3. 0 \in I
    BY <1>1, <1>2 DEF Passes
  <1>4. ASSUME NEW m \in 1 .. n, m - 1 \in I PROVE m \in I
    <2>1. PICK c \in Commands : c = commands[m]
      BY <1>0
    <2>2. PICK g : g = p[m - 1]
      OBVIOUS
    <2>3. PICK h : h = q[m - 1]
      OBVIOUS
    <2>4. p[m] = Obeyed(g, c) /\ q[m] = Obeyed(h, c) /\ DOMAIN g = DOMAIN h
      BY <1>0, <1>1, <1>2, <1>4, <2>1, <2>2, <2>3 DEF Passes
    <2>5. DOMAIN Obeyed(g, c) = DOMAIN Obeyed(h, c)
      <3>1. CASE c.op = "Watch"
        BY <2>4, <3>1 DEF Obeyed, With
      <3>2. CASE c.op = "Unwatch"
        BY <2>4, <3>2 DEF Obeyed, Without
      <3>3. CASE c.op = "Reset"
        BY <2>4, <3>3 DEF Obeyed, With
      <3>4. CASE c.op = "SetInterval"
        BY <2>4, <3>4 DEF Obeyed
      <3> QED BY <3>1, <3>2, <3>3, <3>4 DEF Commands
    <2> QED BY <2>4, <2>5
  <1> HIDE DEF I
  <1>5. n \in I
    <2>1. \A k \in 0 .. n : k \in I
      BY <1>3, <1>4, Onward
    <2> QED BY <2>1
  <1> QED BY <1>1, <1>2, <1>5 DEF I

(* A scan renews the snapshots and keeps the paths. *)
LEMMA ScanKeeps ==
    ASSUME PollInv, Scan
    PROVE  PollInv'
  <1>1. /\ DOMAIN tracked' = DOMAIN tracked /\ UNCHANGED <<poll_tx, watched>>
    BY DEF Scan
  <1>2. WatcherTyped'
    BY DEF Scan, PollInv, WatcherTyped, diskSide
  <1>3. DOMAIN After(tracked', poll_tx) = DOMAIN After(tracked, poll_tx)
    BY <1>1, SamePaths DEF PollInv, WatcherTyped
  <1>4. PollSetAgrees'
    BY <1>1, <1>3 DEF PollInv, PollSetAgrees, PolledOf
  <1> QED BY <1>2, <1>4 DEF PollInv

(* Paths are taken off and put on as the tabs come and go. *)
LEMMA TickKeeps ==
    ASSUME PollInv, Tick
    PROVE  PollInv'
  <1> DEFINE live == {f \in DOMAIN shown : auto_reload[f] # "Never"}
             stale == DOMAIN watched \ live
             fresh == live \ DOMAIN watched
  <1>1. PICK accepted \in SUBSET fresh :
          /\ watched' = [f \in live |-> IF Watched(f) THEN watched[f] ELSE NewEntry(f, accepted)]
          /\ poll_tx' = poll_tx \o ReconcileCommands(stale, fresh, accepted)
          /\ UNCHANGED <<diskSide, polling, workerSide, shown>>
    BY DEF Tick
  <1>2. WatcherTyped
    BY DEF PollInv
  <1>3. live \subseteq Files /\ fresh \subseteq Files /\ stale \subseteq Files
    BY <1>2 DEF WatcherTyped
  <1>a. PICK off : off = PolledOf(watched, stale)
    OBVIOUS
  <1>b. PICK on : on = {g \in fresh : NewEntry(g, accepted).polled}
    OBVIOUS
  <1>4. PICK u, U : U = {Command("Unwatch", f) : f \in off} /\ u = SetToSeq(U)
    OBVIOUS
  <1>5. PICK w, W : W = {Command("Watch", f) : f \in on} /\ w = SetToSeq(W)
    OBVIOUS
  <1>6. off \in SUBSET Files /\ on \in SUBSET Files
    BY <1>3, <1>a, <1>b DEF PolledOf
  <1>7. poll_tx' = poll_tx \o (u \o w)
    BY <1>1, <1>4, <1>5, <1>a, <1>b DEF ReconcileCommands
  <1>8. u \in Seq(Commands) /\ AllAre(u, "Unwatch") /\ FilesOf(u) = off
    <2>1. Sent("Unwatch", off, U)
      BY <1>2, <1>4, <1>6, SentAre DEF WatcherTyped, Command
    <2> QED BY <1>4, <1>6, <2>1, OneEach
  <1>9. w \in Seq(Commands) /\ AllAre(w, "Watch") /\ FilesOf(w) = on
    <2>1. Sent("Watch", on, W)
      BY <1>2, <1>5, <1>6, SentAre DEF WatcherTyped, Command
    <2> QED BY <1>5, <1>6, <2>1, OneEach
  <1>10. PICK h : h = After(tracked, poll_tx)
    OBVIOUS
  <1>11. After(tracked, poll_tx') = After(After(h, u), w)
    <2>1. u \o w \in Seq(Commands) /\ poll_tx \in Seq(Commands)
      BY <1>2, <1>8, <1>9 DEF WatcherTyped
    <2>2. After(tracked, poll_tx') = After(h, u \o w)
      BY <1>7, <1>10, <2>1, AfterBoth
    <2> QED BY <1>8, <1>9, <2>2, AfterBoth
  <1>12. DOMAIN After(tracked, poll_tx') = (DOMAIN h \ off) \cup on
    <2>1. DOMAIN After(h, u) = DOMAIN h \ off
      BY <1>8, UnwatchAll
    <2>2. PICK g : g = After(h, u)
      OBVIOUS
    <2>3. DOMAIN After(g, w) = DOMAIN g \cup on
      BY <1>9, WatchAll
    <2> QED BY <1>11, <2>1, <2>2, <2>3
  <1>13. DOMAIN h = PolledOf(watched, DOMAIN watched)
    BY <1>10 DEF PollInv, PollSetAgrees
  <1>14. PolledOf(watched', live) = (PolledOf(watched, DOMAIN watched) \ off) \cup on
    <2> HIDE DEF live
    <2>1. \A f \in live : watched'[f] = IF f \in DOMAIN watched THEN watched[f]
                                       ELSE NewEntry(f, accepted)
      BY <1>1 DEF Watched
    <2> QED BY <1>a, <1>b, <2>1 DEF PolledOf
  <1>15. DOMAIN watched' = live /\ tracked' = tracked
    BY <1>1 DEF workerSide
  <1>16. PollSetAgrees'
    <2> HIDE DEF live
    <2>1. DOMAIN After(tracked, poll_tx') = PolledOf(watched', live)
      BY <1>12, <1>13, <1>14
    <2> QED BY <1>15, <2>1 DEF PollSetAgrees, PolledOf
  <1>17. WatcherTyped'
    <2>1. poll_tx' \in Seq(Commands)
      BY <1>2, <1>7, <1>8, <1>9 DEF WatcherTyped
    <2>2. \A f \in live : NewEntry(f, accepted) \in Entries
      BY <1>2 DEF WatcherTyped, NewEntry, Entries
    <2>3. watched' \in [live -> Entries]
      BY <1>1, <1>2, <2>2 DEF WatcherTyped, Watched
    <2> QED BY <1>1, <1>2, <1>3, <1>15, <2>1, <2>3 DEF WatcherTyped, diskSide
  <1> QED BY <1>16, <1>17 DEF PollInv

(* The interval first, then the paths that change sides. *)
LEMMA SetPollingKeeps ==
    ASSUME PollInv, set_polling
    PROVE  PollInv'
  <1>1. WatcherTyped
    BY DEF PollInv
  <1> DEFINE Moved(prefs) ==
               IF prefs.poll_all = polling.poll_all THEN {}
               ELSE {f \in {g \in DOMAIN watched : watched[g].notify_active} :
                        watched[f].polled # prefs.poll_all}
             Op(prefs) == IF prefs.poll_all THEN "Watch" ELSE "Unwatch"
  <1>0. PICK prefs \in [interval : BOOLEAN, poll_all : BOOLEAN] :
          /\ polling' = prefs
          /\ poll_tx' = Append(poll_tx, [op |-> "SetInterval", on |-> prefs.interval])
                        \o SetToSeq({Command(Op(prefs), f) : f \in Moved(prefs)})
          /\ watched' = [f \in DOMAIN watched |->
                            IF f \in Moved(prefs) THEN Repolled(f, prefs) ELSE watched[f]]
          /\ UNCHANGED <<diskSide, workerSide, shown>>
    BY Zenon DEF set_polling
  <1>2. PICK moved :
          /\ moved = Moved(prefs)
          /\ polling' = prefs
          /\ poll_tx' = Append(poll_tx, [op |-> "SetInterval", on |-> prefs.interval])
                        \o SetToSeq({Command(Op(prefs), f) : f \in moved})
          /\ watched' = [f \in DOMAIN watched |->
                            IF f \in moved THEN Repolled(f, prefs) ELSE watched[f]]
          /\ UNCHANGED <<diskSide, workerSide, shown>>
    <2> HIDE DEF Moved, Op
    <2> QED BY <1>0, Zenon
  <1>3. /\ moved \in SUBSET Files /\ moved \subseteq DOMAIN watched
        /\ \A f \in moved : watched[f].notify_active /\ watched[f].polled # prefs.poll_all
    BY <1>1, <1>2 DEF WatcherTyped
  <1>4. PICK op : op = IF prefs.poll_all THEN "Watch" ELSE "Unwatch"
    OBVIOUS
  <1>5. PICK list, T : T = {Command(op, f) : f \in moved} /\ list = SetToSeq(T)
    OBVIOUS
  <1>6. list \in Seq(Commands) /\ AllAre(list, op) /\ FilesOf(list) = moved
    <2>1. op \in {"Watch", "Unwatch", "Reset"}
      BY <1>4
    <2>2. Sent(op, moved, T)
      BY <1>1, <1>3, <1>5, <2>1, SentAre DEF WatcherTyped, Command
    <2> QED BY <1>3, <1>5, <2>2, OneEach
  <1>7. PICK c \in Commands : c = [op |-> "SetInterval", on |-> prefs.interval]
    <2>1. [op |-> "SetInterval", on |-> prefs.interval] \in Commands
      BY <1>2 DEF Commands
    <2> QED BY <2>1
  <1>8. poll_tx' = Append(poll_tx, c) \o list
    BY <1>2, <1>4, <1>5, <1>7
  <1>9. poll_tx \in Seq(Commands) /\ Append(poll_tx, c) \in Seq(Commands)
    BY <1>1, <1>7 DEF WatcherTyped
  <1>10. PICK h : h = After(tracked, poll_tx)
    OBVIOUS
  <1>11. After(tracked, Append(poll_tx, c)) = h
    <2>1. After(tracked, Append(poll_tx, c)) = Obeyed(h, c)
      BY <1>7, <1>9, <1>10, AfterOne
    <2>2. Obeyed(h, c) = h
      BY <1>7 DEF Obeyed
    <2> QED BY <2>1, <2>2
  <1>12. After(tracked, poll_tx') = After(h, list)
    BY <1>6, <1>8, <1>9, <1>11, AfterBoth
  <1>13. DOMAIN h = PolledOf(watched, DOMAIN watched)
    BY <1>10 DEF PollInv, PollSetAgrees
  <1>14. \A f \in DOMAIN watched :
            watched'[f].polled = IF f \in moved THEN prefs.poll_all ELSE watched[f].polled
    <2> SUFFICES ASSUME NEW f \in DOMAIN watched
                 PROVE  watched'[f].polled
                          = IF f \in moved THEN prefs.poll_all ELSE watched[f].polled
      OBVIOUS
    <2>1. watched'[f] = IF f \in moved THEN Repolled(f, prefs) ELSE watched[f]
      BY <1>2
    <2>2. watched[f] \in Entries
      BY <1>1 DEF WatcherTyped
    <2> QED BY <1>3, <2>1, <2>2 DEF Repolled, Entries
  <1>15. DOMAIN watched' = DOMAIN watched /\ tracked' = tracked
    BY <1>2 DEF workerSide
  <1>16. PollSetAgrees'
    <2>1. CASE prefs.poll_all
      <3>1. DOMAIN After(h, list) = DOMAIN h \cup moved
        BY <1>4, <1>6, <2>1, WatchAll
      <3>2. PolledOf(watched', DOMAIN watched) = PolledOf(watched, DOMAIN watched) \cup moved
        BY <1>3, <1>14, <2>1 DEF PolledOf
      <3> QED BY <1>12, <1>13, <1>15, <3>1, <3>2 DEF PollSetAgrees, PolledOf
    <2>2. CASE ~ prefs.poll_all
      <3>1. DOMAIN After(h, list) = DOMAIN h \ moved
        BY <1>4, <1>6, <2>2, UnwatchAll
      <3>2. PolledOf(watched', DOMAIN watched) = PolledOf(watched, DOMAIN watched) \ moved
        BY <1>3, <1>14, <2>2 DEF PolledOf
      <3> QED BY <1>12, <1>13, <1>15, <3>1, <3>2 DEF PollSetAgrees, PolledOf
    <2> QED BY <2>1, <2>2
  <1>17. WatcherTyped'
    <2>1. poll_tx' \in Seq(Commands)
      BY <1>6, <1>8, <1>9
    <2>2. ASSUME NEW f \in DOMAIN watched PROVE watched'[f] \in Entries
      <3>1. watched'[f] = IF f \in moved THEN Repolled(f, prefs) ELSE watched[f]
        BY <1>2
      <3>2. watched[f] \in Entries
        BY <1>1 DEF WatcherTyped
      <3> QED BY <1>2, <3>1, <3>2 DEF Repolled, Entries
    <2>3. watched' \in [DOMAIN watched -> Entries]
      BY <1>2, <2>2
    <2> QED BY <1>1, <1>2, <1>15, <2>1, <2>3 DEF WatcherTyped, diskSide
  <1> QED BY <1>16, <1>17 DEF PollInv

(* A fresh snapshot puts no path under the worker's care. *)
LEMMA MarkSyncedKeeps ==
    ASSUME PollInv, mark_synced
    PROVE  PollInv'
  <1>1. WatcherTyped
    BY DEF PollInv
  <1>2. UNCHANGED <<disk, writes, watched, polling, tracked, shown>>
    BY DEF mark_synced, diskSide, workerSide
  <1>3. CASE poll_tx' = poll_tx
    BY <1>1, <1>2, <1>3 DEF PollInv, WatcherTyped, PollSetAgrees, PolledOf
  <1>4. ASSUME poll_tx' # poll_tx PROVE PollInv'
    <2>1. PICK f, c : /\ f = ui.file /\ Watched(f)
                      /\ c = Command("Reset", f) /\ poll_tx' = Append(poll_tx, c)
      BY <1>4 DEF mark_synced
    <2>2. f \in Files /\ disk[f] \in Nat
      BY <1>1, <2>1 DEF WatcherTyped, Watched
    <2>3. c \in Commands /\ c.op = "Reset"
      BY <2>1, <2>2 DEF Command, Commands
    <2>4. PICK h : h = After(tracked, poll_tx)
      OBVIOUS
    <2>5. poll_tx \in Seq(Commands)
      BY <1>1 DEF WatcherTyped
    <2>6. After(tracked, poll_tx') = Obeyed(h, c)
      BY <2>1, <2>3, <2>4, <2>5, AfterOne
    <2>7. DOMAIN Obeyed(h, c) = DOMAIN h
      BY <2>3 DEF Obeyed, With
    <2>8. PollSetAgrees'
      BY <1>2, <2>4, <2>6, <2>7 DEF PollInv, PollSetAgrees, PolledOf
    <2>9. WatcherTyped'
      BY <1>1, <1>2, <2>1, <2>3, <2>5 DEF WatcherTyped
    <2> QED BY <2>8, <2>9 DEF PollInv
  <1> QED BY <1>3, <1>4

(* The steps that leave the watcher, the channel and the worker alone. *)
LEMMA OthersKeep ==
    ASSUME PollInv, UNCHANGED <<watched, polling, poll_tx, tracked>>,
           disk' \in [Files -> Nat], writes' \in [Files -> Nat], DOMAIN shown' \subseteq Files
    PROVE  PollInv'
  BY DEF PollInv, WatcherTyped, PollSetAgrees, PolledOf

LEMMA WatcherStep == PollInv /\ [WatcherNext]_watcherVars => PollInv'
  <1> SUFFICES ASSUME PollInv, [WatcherNext]_watcherVars PROVE PollInv'
    OBVIOUS
  <1>1. disk \in [Files -> Nat] /\ writes \in [Files -> Nat] /\ DOMAIN shown \subseteq Files
    BY DEF PollInv, WatcherTyped
  <1>2. CASE Debounce
    BY <1>1, <1>2, OthersKeep DEF Debounce, workerSide
  <1>3. CASE Handle
    <2>1. UNCHANGED <<watched, polling, poll_tx, tracked, disk, writes>>
      BY <1>3 DEF Handle, diskSide, workerSide
    <2>2. DOMAIN shown' = DOMAIN shown
      BY <1>3 DEF Handle, Reload
    <2> QED BY <1>1, <2>1, <2>2, OthersKeep
  <1>4. CASE ResolveReload
    <2>1. UNCHANGED <<watched, polling, poll_tx, tracked, disk, writes>>
      BY <1>4 DEF ResolveReload, diskSide, workerSide
    <2>2. DOMAIN shown' = DOMAIN shown
      BY <1>4 DEF ResolveReload, Reload
    <2> QED BY <1>1, <2>1, <2>2, OthersKeep
  <1>5. ASSUME NEW f \in Files, OutsideWrite(f) PROVE PollInv'
    <2>1. UNCHANGED <<watched, polling, poll_tx, tracked, shown>>
      BY <1>5 DEF OutsideWrite, workerSide
    <2>2. writes' \in [Files -> Nat] /\ disk' \in [Files -> Nat]
      BY <1>1, <1>5 DEF OutsideWrite, NewVersion
    <2> QED BY <1>1, <2>1, <2>2, OthersKeep
  <1>6. ASSUME NEW f \in Files, OutsideRemove(f) PROVE PollInv'
    <2>1. UNCHANGED <<watched, polling, poll_tx, tracked, shown>>
      BY <1>6 DEF OutsideRemove, workerSide
    <2>2. writes' \in [Files -> Nat] /\ disk' \in [Files -> Nat]
      BY <1>1, <1>6 DEF OutsideRemove, Missing
    <2> QED BY <1>1, <2>1, <2>2, OthersKeep
  <1>7. ASSUME NEW f \in Files, OpenFile(f) \/ CloseFile(f) PROVE PollInv'
    <2>1. UNCHANGED <<watched, polling, poll_tx, tracked, disk, writes>>
      BY <1>7 DEF OpenFile, CloseFile, diskSide, workerSide
    <2>2. DOMAIN shown' \subseteq DOMAIN shown \cup {f}
      BY <1>7 DEF OpenFile, CloseFile, With, Without
    <2> QED BY <1>1, <2>1, <2>2, OthersKeep
  <1>8. ASSUME NEW f \in Files, Save(f) PROVE PollInv'
    <2>1. UNCHANGED <<watched, polling, poll_tx, tracked>> /\ DOMAIN shown' = DOMAIN shown
      BY <1>8 DEF Save, workerSide
    <2>2. writes' \in [Files -> Nat] /\ disk' \in [Files -> Nat]
      BY <1>1, <1>8 DEF Save, NewVersion
    <2> QED BY <1>1, <2>1, <2>2, OthersKeep
  <1>9. ASSUME NEW f \in Files, SetPref(f) PROVE PollInv'
    <2>1. UNCHANGED <<watched, polling, poll_tx, tracked, disk, writes, shown>>
      BY <1>9 DEF SetPref, diskSide, workerSide
    <2> QED BY <1>1, <2>1, OthersKeep
  <1>10. CASE UNCHANGED watcherVars
    BY <1>1, <1>10, OthersKeep DEF watcherVars, diskSide, workerSide
  <1> QED
    BY <1>2, <1>3, <1>4, <1>5, <1>6, <1>7, <1>8, <1>9, <1>10, TakeCommandsKeeps, ScanKeeps,
       TickKeeps, SetPollingKeeps, MarkSyncedKeeps
    DEF WatcherNext, WorkerStep, UiStep

(* Once the worker has obeyed the commands under way it polls exactly the   *)
(* entries the UI thread marked polled, for any number of paths, of waiting *)
(* commands and of changes (watch, unwatch, set_polling, mark_synced,       *)
(* poll_worker).                                                           *)
THEOREM PollSetAlwaysAgrees == WatcherSpec => []PollSetAgrees
  <1>1. PollInv => PollSetAgrees
    BY DEF PollInv
  <1> QED BY <1>1, WatcherStart, WatcherStep, PTL DEF WatcherSpec

==========================================================================
