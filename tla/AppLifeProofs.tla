-------------------------- MODULE AppLifeProofs --------------------------
(***************************************************************************)
(* Proofs about what outlives a process: the unsaved work of a program's    *)
(* files (FileSession), and the requests of launches that come and go       *)
(* (SingleInstance).                                                       *)
(***************************************************************************)
EXTENDS FileSession, SingleInstance, TLAPS, FiniteSetTheorems, WellFoundedInduction

-----------------------------------------------------------------------------
(***************************************************************************)
(* Unsaved work is not lost between sessions, and restored edits sit on the *)
(* bytes they were made on: for any number of files, sessions, units of     *)
(* work and changes on disk.                                               *)
(*                                                                         *)
(* The work itself says too little to be inductive.  What carries it is the *)
(* book-keeping of the one restore prompt and the queue behind it: an open  *)
(* tab whose file still has a sidecar is waiting for its answer, or was     *)
(* dismissed, or was passed over; a tab that waits has no work of its own;  *)
(* and the tab being closed is not one of those.                           *)
(***************************************************************************)

Sidecars == [stored : {TRUE}, mtime : Nat, work : SUBSET Nat, base : Nat]
OpenStates == [open : {TRUE}, base : Nat, work : SUBSET Nat, cut_on : Nat]
RestorePrompts == [file : Files, sidecar : Sidecars, clean : BOOLEAN]

(* The parts of the invariant that SessionNext can disturb. *)
TabsTyped == tab \in [Files -> OpenStates \cup {NoTab}]
SidecarsTyped == sidecar \in [Files -> Sidecars \cup {NoSidecar}]
LedgerTyped ==
    /\ disk \in [Files -> Nat]
    /\ layout \subseteq Files
    /\ made \in [Files -> Nat]
    /\ owed \in [Files -> SUBSET Nat]
    /\ signal \subseteq Files
    /\ pending_reload \in Files \cup {None}
    /\ pending_close \in Files \cup {None}

Distinct(queue) == \A i, j \in 1 .. Len(queue) : queue[i] = queue[j] => i = j

(* The prompt and the queue behind it. *)
PromptOK ==
    /\ pending_restore \in RestorePrompts \cup {NoPrompt}
    /\ restore_queue \in Seq(Files)
    /\ Distinct(restore_queue)
    /\ pending_restore = NoPrompt => restore_queue = << >>
    /\ pending_restore # NoPrompt =>
          /\ sidecar[pending_restore.file] = pending_restore.sidecar
          /\ pending_restore.file \notin ToSet(restore_queue)

WaitingIsFresh == \A f \in Unanswered : f \in Files /\ Open(f) /\ tab[f].work = {}
SidecarIsAsked ==
    \A f \in Files : Open(f) /\ sidecar[f].stored => f \in dismissed \cup unanswered \cup Unanswered
ClosingIsApart ==
    pending_close # None => Open(pending_close) /\ pending_close \notin Unanswered

StoppedHasNoTabs == ~running => \A f \in Files : ~Open(f)

(* The inductive invariant. *)
SessionInv ==
    /\ TabsTyped
    /\ SidecarsTyped
    /\ LedgerTyped
    /\ PromptOK
    /\ WaitingIsFresh
    /\ SidecarIsAsked
    /\ ClosingIsApart
    /\ StoppedHasNoTabs
    /\ WorkIsHeld

-----------------------------------------------------------------------------
(* The least element of a set of naturals. *)

(* A non-empty set of naturals has a least element, which Min chooses. *)
LEMMA MinOfNaturals ==
    ASSUME NEW T \in SUBSET Nat, T # {}
    PROVE  Min(T) \in T /\ \A k \in T : Min(T) <= k
  <1>1. IsWellFoundedOn(OpToRel(<, Nat), Nat)
    BY NatLessThanWellFounded
  <1>2. PICK m \in T : \A k \in T : ~ (<<k, m>> \in OpToRel(<, Nat))
    BY <1>1, WFMin, Zenon
  <1>3. \A k \in T : ~ (k < m)
    BY <1>2 DEF OpToRel
  <1>4. \A k \in T : m <= k
    BY <1>3
  <1> QED
    BY <1>4, Zenon DEF Min

(* SetToSeq of a finite set lists each of its elements once. *)
LEMMA ListOfSet ==
    ASSUME NEW S \in SUBSET Files
    PROVE  /\ SetToSeq(S) \in Seq(Files)
           /\ ToSet(SetToSeq(S)) = S
           /\ Distinct(SetToSeq(S))
  <1>1. IsFiniteSet(S)
    BY SessionConstants, FS_Subset
  <1> DEFINE n == Cardinality(S)
  <1>2. n \in Nat /\ ExistsBijection(1 .. n, S)
    BY <1>1, FS_CardinalityType
  <1>3. \E q \in [1 .. n -> S] : IsInjective(q)
    BY <1>2 DEF ExistsBijection, Bijection, Injection, IsInjective
  <1>4. SetToSeq(S) \in [1 .. n -> S] /\ IsInjective(SetToSeq(S))
    BY <1>3, Zenon DEF SetToSeq
  <1>5. SetToSeq(S) \in Injection(1 .. n, S)
    BY <1>4 DEF Injection, IsInjective
  <1>6. Cardinality(1 .. n) = n
    BY <1>2, FS_Interval
  <1>7. SetToSeq(S) \in Surjection(1 .. n, S)
    BY <1>1, <1>5, <1>6, FS_Injection
  <1>8. SetToSeq(S) \in Seq(Files) /\ Len(SetToSeq(S)) = n
    BY <1>2, <1>4
  <1>9. ToSet(SetToSeq(S)) = S
    BY <1>4, <1>7, <1>2 DEF ToSet, Surjection
  <1> QED
    BY <1>4, <1>8, <1>9 DEF Distinct, IsInjective

-----------------------------------------------------------------------------
(* The prompt. *)

(* What stage_next_restore leaves behind when no prompt is given: the first *)
(* queued tab with a sidecar, and nobody with a sidecar is passed over.     *)
LEMMA OfferedNext ==
    ASSUME SidecarsTyped', NEW queue \in Seq(Files), Distinct(queue), OfferNext(queue)
    PROVE  /\ PromptOK'
           /\ Unanswered' \subseteq ToSet(queue)
           /\ \A f \in ToSet(queue) : sidecar'[f].stored => f \in Unanswered'
  <1> DEFINE due == {i \in 1 .. Len(queue) : sidecar'[queue[i]].stored}
             next == Min(due)
  <1>1. CASE due = {}
    <2>1. pending_restore' = NoPrompt /\ restore_queue' = << >>
      BY <1>1 DEF OfferNext
    <2>2. Unanswered' = {}
      BY <2>1, SessionConstants DEF Unanswered, NoPrompt, ToSet
    <2>3. \A f \in ToSet(queue) : ~sidecar'[f].stored
      <3> SUFFICES ASSUME NEW i \in 1 .. Len(queue) PROVE ~sidecar'[queue[i]].stored
        BY DEF ToSet
      <3> QED
        BY <1>1 DEF SidecarsTyped, Sidecars, NoSidecar
    <2> QED
      BY <2>1, <2>2, <2>3 DEF PromptOK, Distinct
  <1>2. CASE due # {}
    <2>0. due \in SUBSET Nat
      OBVIOUS
    <2>1. next \in due /\ \A k \in due : next <= k
      <3> HIDE DEF due
      <3> QED
        BY <1>2, <2>0, MinOfNaturals
    <2> DEFINE f == queue[next]
    <2>2. next \in 1 .. Len(queue) /\ f \in Files /\ sidecar'[f] \in Sidecars
      BY <2>1 DEF SidecarsTyped, NoSidecar
    <2>3. /\ pending_restore' = [file |-> f, sidecar |-> sidecar'[f],
                                 clean |-> Clean(sidecar'[f], f)]
          /\ restore_queue' = SubSeq(queue, next + 1, Len(queue))
      BY <1>2 DEF OfferNext
    <2> HIDE DEF next, f
    <2>4. /\ restore_queue' \in Seq(Files)
          /\ Len(restore_queue') = Len(queue) - next
          /\ \A i \in 1 .. Len(restore_queue') : restore_queue'[i] = queue[next + i]
      BY <2>2, <2>3
    <2>5. pending_restore' \in RestorePrompts /\ pending_restore' # NoPrompt
          /\ pending_restore'.file = f /\ pending_restore'.sidecar = sidecar'[f]
      BY <2>2, <2>3, SessionConstants DEF RestorePrompts, Clean, NoPrompt
    <2>6. Distinct(restore_queue')
      <3> SUFFICES ASSUME NEW i \in 1 .. Len(restore_queue'), NEW j \in 1 .. Len(restore_queue'),
                          restore_queue'[i] = restore_queue'[j]
                   PROVE  i = j
        BY DEF Distinct
      <3>1. queue[next + i] = queue[next + j]
        BY <2>4
      <3>2. next + i \in 1 .. Len(queue) /\ next + j \in 1 .. Len(queue)
        BY <2>2, <2>4
      <3>3. next + i = next + j
        BY <3>1, <3>2 DEF Distinct
      <3> QED
        BY <3>3, <2>2
    <2>7. f \notin ToSet(restore_queue')
      <3> SUFFICES ASSUME NEW i \in 1 .. Len(restore_queue'), restore_queue'[i] = f
                   PROVE  FALSE
        BY DEF ToSet
      <3>1. queue[next + i] = queue[next]
        BY <2>4 DEF f
      <3>2. next + i \in 1 .. Len(queue)
        BY <2>2, <2>4
      <3>3. next + i = next
        BY <3>1, <3>2, <2>2 DEF Distinct
      <3> QED
        BY <3>3, <2>2
    <2>8. PromptOK'
      BY <2>4, <2>5, <2>6, <2>7 DEF PromptOK
    <2>9. Unanswered' = {f} \cup ToSet(restore_queue')
      BY <2>2, <2>4, <2>5, SessionConstants DEF Unanswered, ToSet
    <2>10. \A i \in 1 .. Len(queue) : sidecar'[queue[i]].stored => queue[i] \in Unanswered'
      <3> SUFFICES ASSUME NEW i \in 1 .. Len(queue), sidecar'[queue[i]].stored
                   PROVE  queue[i] \in Unanswered'
        OBVIOUS
      <3>1. i \in due
        OBVIOUS
      <3>2. CASE i = next
        BY <3>2, <2>9 DEF f
      <3>3. CASE i # next
        <4>1. i - next \in 1 .. Len(restore_queue')
          BY <3>1, <3>3, <2>1, <2>2, <2>4
        <4>2. restore_queue'[i - next] = queue[i]
          BY <4>1, <2>2, <2>4
        <4> QED
          BY <4>1, <4>2, <2>4, <2>9 DEF ToSet
      <3> QED
        BY <3>2, <3>3
    <2>11. Unanswered' \subseteq ToSet(queue)
      <3>1. f \in ToSet(queue)
        BY <2>2 DEF ToSet, f
      <3>2. ASSUME NEW i \in 1 .. Len(restore_queue')
            PROVE  restore_queue'[i] \in ToSet(queue)
        <4>1. next + i \in 1 .. Len(queue) /\ restore_queue'[i] = queue[next + i]
          BY <2>2, <2>4
        <4> QED BY <4>1 DEF ToSet
      <3>3. ToSet(restore_queue') \subseteq ToSet(queue)
        BY <3>2 DEF ToSet
      <3> QED BY <2>9, <3>1, <3>3
    <2> QED
      BY <2>8, <2>10, <2>11 DEF ToSet
  <1> QED
    BY <1>1, <1>2

-----------------------------------------------------------------------------
(* Tabs and sidecars. *)

(* A tab is either closed or carries base, work and cut_on. *)
LEMMA OpenTab ==
    ASSUME TabsTyped, NEW f \in Files
    PROVE  /\ Open(f) \in BOOLEAN
           /\ Open(f) => tab[f] \in OpenStates
           /\ ~Open(f) => tab[f] = NoTab
  <1>1. CASE tab[f] = NoTab
    BY <1>1 DEF Open, NoTab
  <1>2. CASE tab[f] \in OpenStates
    <2>1. tab[f].open \in {TRUE}
      BY <1>2, Zenon DEF OpenStates
    <2> QED
      BY <1>2, <2>1, Zenon DEF Open
  <1> QED
    BY <1>1, <1>2 DEF TabsTyped

(* A sidecar is either absent or carries its work. *)
LEMMA StoredSidecar ==
    ASSUME SidecarsTyped, NEW f \in Files
    PROVE  /\ sidecar[f].stored \in BOOLEAN
           /\ sidecar[f].stored => sidecar[f] \in Sidecars
           /\ ~sidecar[f].stored => sidecar[f] = NoSidecar
  <1>1. CASE sidecar[f] = NoSidecar
    BY <1>1 DEF NoSidecar
  <1>2. CASE sidecar[f] \in Sidecars
    <2>1. sidecar[f].stored \in {TRUE}
      BY <1>2, Zenon DEF Sidecars
    <2> QED
      BY <1>2, <2>1, Zenon
  <1> QED
    BY <1>1, <1>2 DEF SidecarsTyped

(* A new tab is open, clean and cut on the bytes it shows. *)
LEMMA FreshTabs ==
    ASSUME NEW content \in Nat
    PROVE  /\ FreshTab(content) \in OpenStates
           /\ FreshTab(content).open = TRUE
           /\ FreshTab(content).work = {}
           /\ FreshTab(content).cut_on = FreshTab(content).base
  BY DEF FreshTab, OpenStates

(* Whose answer is awaited. *)
LEMMA AwaitedAnswers ==
    ASSUME PromptOK
    PROVE  /\ Unanswered \subseteq Files
           /\ pending_restore = NoPrompt => Unanswered = {}
           /\ pending_restore # NoPrompt =>
                 /\ pending_restore.file \in Files
                 /\ pending_restore.file # None
                 /\ pending_restore.sidecar \in Sidecars
                 /\ Unanswered = {pending_restore.file} \cup ToSet(restore_queue)
  <1>1. ToSet(restore_queue) \subseteq Files
    BY DEF PromptOK, ToSet
  <1>2. CASE pending_restore = NoPrompt
    <2>1. ToSet(restore_queue) = {}
      BY <1>2 DEF PromptOK, ToSet
    <2> QED
      BY <1>2, <2>1, SessionConstants DEF Unanswered, NoPrompt
  <1>3. CASE pending_restore # NoPrompt
    <2>1. pending_restore \in RestorePrompts
      BY <1>3 DEF PromptOK
    <2>2. pending_restore.file \in Files /\ pending_restore.sidecar \in Sidecars
      BY <2>1 DEF RestorePrompts
    <2> QED
      BY <1>1, <1>3, <2>2, SessionConstants DEF Unanswered
  <1> QED
    BY <1>2, <1>3

-----------------------------------------------------------------------------
(* The initial state. *)

LEMMA SessionStart ==
    ASSUME SessionInit
    PROVE  SessionInv
  <1>1. Unanswered = {}
    BY SessionConstants DEF SessionInit, Unanswered, NoPrompt, ToSet
  <1>2. \A f \in Files : ~Open(f)
    BY DEF SessionInit, Open, NoTab
  <1>3. TabsTyped /\ SidecarsTyped /\ LedgerTyped
    BY SessionConstants DEF SessionInit, TabsTyped, SidecarsTyped, LedgerTyped
  <1>4. PromptOK
    BY DEF SessionInit, PromptOK, Distinct
  <1>5. WorkIsHeld
    BY DEF SessionInit, WorkIsHeld, Held
  <1>6. ClosingIsApart
    BY DEF SessionInit, ClosingIsApart
  <1> QED
    BY <1>1, <1>2, <1>3, <1>4, <1>5, <1>6
    DEF SessionInv, WaitingIsFresh, SidecarIsAsked, StoppedHasNoTabs

-----------------------------------------------------------------------------
(* The process. *)

(* Launch opens clean tabs, each with its sidecar offered or queued. *)
LEMMA StartKeeps ==
    ASSUME SessionInv, Start
    PROVE  SessionInv'
  <1> USE DEF SessionInv
  <1>1. /\ ~running /\ running'
        /\ sidecar' = sidecar /\ disk' = disk /\ layout' = layout
        /\ made' = made /\ owed' = owed
        /\ dismissed' = dismissed /\ unanswered' = unanswered
        /\ signal' = {} /\ pending_reload' = None /\ pending_close' = None
    BY DEF Start, diskSide, left
  <1>2. PICK initial \in {None} \cup (Files \ layout) :
          /\ tab' = [f \in Files |-> IF f \in layout \cup {initial}
                                     THEN FreshTab(disk[f]) ELSE NoTab]
          /\ StageNext(IF initial # None /\ sidecar[initial].stored
                       THEN Staged(initial) ELSE NoPrompt,
                       SetToSeq(layout))
    BY DEF Start
  <1> DEFINE queue == SetToSeq(layout)
  <1>3. queue \in Seq(Files) /\ ToSet(queue) = layout /\ Distinct(queue)
    BY ListOfSet DEF LedgerTyped
  <1>4. \A f \in Files : tab'[f] = IF f \in layout \cup {initial} THEN FreshTab(disk[f]) ELSE NoTab
    BY <1>2
  <1>5. TabsTyped'
    <2>1. \A f \in Files : FreshTab(disk[f]) \in OpenStates
      BY FreshTabs DEF LedgerTyped
    <2> QED
      BY <1>2, <2>1 DEF TabsTyped
  <1>6. \A f \in Files : Open(f)' => f \in layout \cup {initial} /\ tab'[f].work = {}
    <2> SUFFICES ASSUME NEW f \in Files, Open(f)'
                 PROVE  f \in layout \cup {initial} /\ tab'[f].work = {}
      OBVIOUS
    <2>1. ~NoTab.open
      BY DEF NoTab
    <2>2. tab'[f].open
      BY DEF Open
    <2>3. f \in layout \cup {initial} /\ tab'[f] = FreshTab(disk[f])
      BY <1>4, <2>1, <2>2
    <2>4. FreshTab(disk[f]).work = {}
      BY FreshTabs DEF LedgerTyped
    <2> QED
      BY <2>3, <2>4
  <1>7. \A f \in layout \cup ({initial} \ {None}) : f \in Files /\ Open(f)'
    BY <1>4, FreshTabs DEF Open, LedgerTyped
  <1>8. SidecarsTyped' /\ LedgerTyped' /\ ClosingIsApart' /\ StoppedHasNoTabs'
    BY <1>1 DEF SidecarsTyped, LedgerTyped, ClosingIsApart, StoppedHasNoTabs
  <1>9. /\ PromptOK'
        /\ Unanswered' \subseteq layout \cup ({initial} \ {None})
        /\ \A f \in Files : f \in layout \cup {initial} /\ sidecar'[f].stored => f \in Unanswered'
    <2> HIDE DEF queue
    <2>1. CASE initial # None /\ sidecar[initial].stored
      <3>1. initial \in Files /\ initial \notin layout /\ sidecar[initial] \in Sidecars
        BY <2>1, StoredSidecar
      <3>2. Staged(initial) \in RestorePrompts /\ Staged(initial) # NoPrompt
            /\ Staged(initial).file = initial /\ Staged(initial).sidecar = sidecar[initial]
        BY <2>1, <3>1 DEF Staged, Clean, RestorePrompts, NoPrompt
      <3>3. pending_restore' = Staged(initial) /\ restore_queue' = queue
        BY <1>2, <2>1, <3>2 DEF StageNext, queue
      <3>4. PromptOK'
        BY <1>1, <1>3, <3>1, <3>2, <3>3 DEF PromptOK
      <3>5. Unanswered' = {initial} \cup layout
        BY <1>3, <2>1, <3>2, <3>3, SessionConstants DEF Unanswered, LedgerTyped
      <3> QED
        BY <2>1, <3>4, <3>5
    <2>2. CASE ~(initial # None /\ sidecar[initial].stored)
      <3>1. OfferNext(queue)
        BY <1>2, <2>2, Zenon DEF StageNext, queue
      <3>2. /\ PromptOK'
            /\ Unanswered' \subseteq ToSet(queue)
            /\ \A f \in ToSet(queue) : sidecar'[f].stored => f \in Unanswered'
        BY <1>3, <1>8, <3>1, OfferedNext
      <3> QED
        BY <1>1, <1>3, <2>2, <3>2, SessionConstants DEF LedgerTyped
    <2> QED
      BY <2>1, <2>2
  <1>10. WaitingIsFresh'
    BY <1>6, <1>7, <1>9 DEF WaitingIsFresh
  <1>11. SidecarIsAsked'
    BY <1>6, <1>9 DEF SidecarIsAsked
  <1>12. WorkIsHeld'
    BY <1>1 DEF WorkIsHeld, Held, InTab, InSidecar, StoppedHasNoTabs
  <1> QED
    BY <1>5, <1>8, <1>9, <1>10, <1>11, <1>12

(* What every way of stopping leaves behind. *)
LEMMA StoppedState ==
    ASSUME LedgerTyped, Stopped
    PROVE  /\ TabsTyped' /\ PromptOK' /\ WaitingIsFresh' /\ SidecarIsAsked'
           /\ ClosingIsApart' /\ StoppedHasNoTabs'
           /\ \A f \in Files : ~Open(f)'
  <1>1. \A f \in Files : ~Open(f)'
    BY DEF Stopped, Open, NoTab
  <1>2. Unanswered' = {}
    BY SessionConstants DEF Stopped, Unanswered, NoPrompt, ToSet
  <1> QED
    BY <1>1, <1>2
    DEF Stopped, TabsTyped, PromptOK, Distinct, WaitingIsFresh, SidecarIsAsked,
        ClosingIsApart, StoppedHasNoTabs

(* Quitting stores the dirty tabs; a sidecar it overwrites or drops was     *)
(* waiting for an answer that never came.                                  *)
LEMMA QuitKeeps ==
    ASSUME SessionInv, Quit
    PROVE  SessionInv'
  <1> USE DEF SessionInv
  <1>1. Stopped /\ layout' = layout /\ dismissed' = dismissed
        /\ unanswered' = unanswered \cup Unanswered
    BY DEF Quit
  <1>2. PICK outcome \in [Files -> Outcomes] :
          /\ sidecar' = [f \in Files |-> persist_unsaved_on_quit(f, outcome[f])]
          /\ owed' = [f \in Files |-> IF Dirty(f) /\ outcome[f] # "done"
                                      THEN owed[f] \ tab[f].work ELSE owed[f]]
    BY DEF Quit
  <1>3. \A f \in Files : /\ sidecar'[f] \in Sidecars \cup {NoSidecar}
                         /\ Held(f)' \/ f \in (dismissed \cup unanswered)'
    <2> SUFFICES ASSUME NEW f \in Files
                 PROVE  /\ sidecar'[f] \in Sidecars \cup {NoSidecar}
                        /\ Held(f)' \/ f \in (dismissed \cup unanswered)'
      OBVIOUS
    <2>1. Held(f) \/ f \in dismissed \cup unanswered
      BY DEF WorkIsHeld
    <2>2. ~Open(f)'
      BY <1>1, StoppedState
    <2>3. CASE ~Open(f)
      <3>1. sidecar'[f] = sidecar[f] /\ owed'[f] = owed[f]
        BY <1>2, <2>3 DEF persist_unsaved_on_quit, Dirty
      <3> QED
        BY <1>1, <2>1, <2>2, <2>3, <3>1 DEF Held, InTab, InSidecar, SidecarsTyped
    <2>4. CASE Open(f) /\ sidecar[f].stored
      <3>1. f \in (dismissed \cup unanswered)'
        BY <1>1, <2>4 DEF SidecarIsAsked
      <3>2. Snapshot(f) \in Sidecars
        BY <2>4, OpenTab DEF Snapshot, Sidecars, OpenStates, LedgerTyped
      <3> QED
        BY <1>2, <3>1, <3>2 DEF persist_unsaved_on_quit, SidecarsTyped
    <2>5. CASE Open(f) /\ ~sidecar[f].stored
      <3>1. sidecar[f] = NoSidecar /\ tab[f] \in OpenStates
        BY <2>5, OpenTab, StoredSidecar
      <3>2. Snapshot(f) \in Sidecars /\ Snapshot(f).stored /\ Snapshot(f).work = tab[f].work
        BY <3>1 DEF Snapshot, Sidecars, OpenStates, LedgerTyped
      <3>3. sidecar'[f] = IF Dirty(f) /\ outcome[f] = "done" THEN Snapshot(f) ELSE NoSidecar
        BY <1>2, <2>5, <3>1 DEF persist_unsaved_on_quit
      <3>4. Held(f) => owed[f] \subseteq tab[f].work
        BY <2>5, <3>1 DEF Held, InTab, InSidecar, NoSidecar
      <3>5. CASE Dirty(f) /\ outcome[f] # "done"
        BY <1>1, <1>2, <2>1, <3>3, <3>4, <3>5 DEF Held
      <3>6. CASE Dirty(f) /\ outcome[f] = "done"
        <4>1. sidecar'[f] = Snapshot(f) /\ owed'[f] = owed[f]
          BY <1>2, <3>3, <3>6
        <4> QED
          BY <4>1, <1>1, <2>1, <3>2, <3>4 DEF Held, InSidecar
      <3>7. CASE ~Dirty(f)
        <4>1. sidecar'[f] = NoSidecar /\ owed'[f] = owed[f] /\ tab[f].work = {}
          BY <1>2, <2>5, <3>3, <3>7 DEF Dirty
        <4> QED
          BY <4>1, <1>1, <2>1, <3>4 DEF Held
      <3> QED
        BY <3>5, <3>6, <3>7
    <2> QED
      BY <2>3, <2>4, <2>5
  <1>4. SidecarsTyped'
    BY <1>2, <1>3 DEF SidecarsTyped
  <1>5. WorkIsHeld'
    BY <1>3 DEF WorkIsHeld
  <1>6. LedgerTyped'
    BY <1>1, <1>2 DEF LedgerTyped, Stopped
  <1> QED
    BY <1>1, <1>4, <1>5, <1>6, StoppedState

(* A crash leaves what the sidecars hold. *)
LEMMA CrashKeeps ==
    ASSUME SessionInv, Crash
    PROVE  SessionInv'
  <1> USE DEF SessionInv
  <1>1. Stopped /\ sidecar' = sidecar /\ layout' = layout
        /\ owed' = [f \in Files |->
                      owed[f] \cap IF sidecar[f].stored THEN sidecar[f].work ELSE {}]
    BY DEF Crash
  <1>2. WorkIsHeld'
    BY <1>1 DEF WorkIsHeld, Held, InSidecar
  <1>3. LedgerTyped' /\ SidecarsTyped'
    BY <1>1 DEF LedgerTyped, SidecarsTyped, Stopped
  <1> QED
    BY <1>1, <1>2, <1>3, StoppedState

(* Saving the layout only notes which tabs are open. *)
LEMMA SaveLayoutKeeps ==
    ASSUME SessionInv, SaveLayout
    PROVE  SessionInv'
  <1> USE DEF SessionInv
  <1>1. /\ disk' = disk /\ sidecar' = sidecar /\ running' = running /\ tab' = tab
        /\ signal' = signal /\ made' = made /\ owed' = owed
        /\ dismissed' = dismissed /\ unanswered' = unanswered
        /\ pending_reload' = pending_reload /\ pending_restore' = pending_restore
        /\ pending_close' = pending_close /\ restore_queue' = restore_queue
        /\ layout' = OpenTabs
    BY DEF SaveLayout, prompts, ledger, left
  <1>2. Unanswered' = Unanswered
    BY <1>1 DEF Unanswered
  <1>3. LedgerTyped'
    BY <1>1 DEF LedgerTyped, OpenTabs
  <1>4. TabsTyped' /\ SidecarsTyped' /\ PromptOK'
    BY <1>1 DEF TabsTyped, SidecarsTyped, PromptOK
  <1>5. WaitingIsFresh' /\ SidecarIsAsked' /\ ClosingIsApart' /\ StoppedHasNoTabs'
    BY <1>1, <1>2 DEF WaitingIsFresh, SidecarIsAsked, ClosingIsApart, StoppedHasNoTabs, Open
  <1>6. WorkIsHeld'
    BY <1>1 DEF WorkIsHeld, Held, InTab, InSidecar, Open
  <1> QED
    BY <1>3, <1>4, <1>5, <1>6

-----------------------------------------------------------------------------
(* The user and other programs. *)

(* A change on disk touches neither tabs nor sidecars. *)
LEMMA OutsideWriteKeeps ==
    ASSUME SessionInv, NEW f \in Files, OutsideWrite(f)
    PROVE  SessionInv'
  <1> USE DEF SessionInv
  <1>1. /\ sidecar' = sidecar /\ running' = running /\ tab' = tab
        /\ layout' = layout /\ made' = made /\ owed' = owed
        /\ dismissed' = dismissed /\ unanswered' = unanswered
        /\ pending_reload' = pending_reload /\ pending_restore' = pending_restore
        /\ pending_close' = pending_close /\ restore_queue' = restore_queue
        /\ disk' = [disk EXCEPT ![f] = @ + 1]
        /\ signal' \subseteq signal \cup {f}
    BY DEF OutsideWrite, prompts, ledger, left
  <1>2. Unanswered' = Unanswered
    BY <1>1 DEF Unanswered
  <1>3. LedgerTyped'
    BY <1>1 DEF LedgerTyped
  <1>4. TabsTyped' /\ SidecarsTyped' /\ PromptOK'
    BY <1>1 DEF TabsTyped, SidecarsTyped, PromptOK
  <1>5. WaitingIsFresh' /\ SidecarIsAsked' /\ ClosingIsApart' /\ StoppedHasNoTabs'
    BY <1>1, <1>2 DEF WaitingIsFresh, SidecarIsAsked, ClosingIsApart, StoppedHasNoTabs, Open
  <1>6. WorkIsHeld'
    BY <1>1 DEF WorkIsHeld, Held, InTab, InSidecar, Open
  <1> QED
    BY <1>3, <1>4, <1>5, <1>6

(* A file opened while a prompt is up is passed over, and noted as such. *)
LEMMA OpenFileKeeps ==
    ASSUME SessionInv, NEW f \in Files, OpenFile(f)
    PROVE  SessionInv'
  <1> USE DEF SessionInv
  <1>1. /\ disk' = disk /\ sidecar' = sidecar /\ layout' = layout /\ running' = running
        /\ running /\ made' = made /\ owed' = owed /\ signal' = signal
        /\ dismissed' = dismissed /\ pending_reload' = pending_reload
        /\ pending_close' = pending_close /\ restore_queue' = restore_queue
        /\ ~Open(f)
        /\ tab' = [tab EXCEPT ![f] = FreshTab(disk[f])]
        /\ pending_restore' = IF pending_restore = NoPrompt /\ sidecar[f].stored
                              THEN Staged(f) ELSE pending_restore
        /\ unanswered' = IF sidecar[f].stored /\ pending_restore # NoPrompt
                         THEN unanswered \cup {f} ELSE unanswered
    BY DEF OpenFile, diskSide
  <1>2. /\ FreshTab(disk[f]) \in OpenStates /\ FreshTab(disk[f]).open
        /\ FreshTab(disk[f]).work = {}
    BY FreshTabs DEF LedgerTyped
  <1>3. TabsTyped' /\ SidecarsTyped' /\ LedgerTyped'
    BY <1>1, <1>2 DEF TabsTyped, SidecarsTyped, LedgerTyped
  <1>4. tab'[f] = FreshTab(disk[f]) /\ \A g \in Files \ {f} : tab'[g] = tab[g]
    BY <1>1 DEF TabsTyped
  <1>5. /\ Open(f)' /\ tab'[f].work = {}
        /\ \A g \in Files \ {f} : Open(g)' = Open(g) /\ tab'[g] = tab[g]
    BY <1>2, <1>4 DEF Open
  <1>6. /\ PromptOK'
        /\ Unanswered' = IF pending_restore = NoPrompt /\ sidecar[f].stored
                         THEN {f} ELSE Unanswered
    <2>1. CASE pending_restore = NoPrompt /\ sidecar[f].stored
      <3>1. sidecar[f] \in Sidecars
        BY <2>1, StoredSidecar
      <3>2. /\ pending_restore' = Staged(f) /\ Staged(f) \in RestorePrompts
            /\ Staged(f) # NoPrompt /\ Staged(f).file = f /\ Staged(f).sidecar = sidecar[f]
        BY <1>1, <2>1, <3>1, SessionConstants DEF Staged, Clean, RestorePrompts, NoPrompt
      <3>3. restore_queue' = << >> /\ ToSet(restore_queue') = {}
        BY <1>1, <2>1 DEF PromptOK, ToSet
      <3>4. PromptOK'
        BY <1>1, <3>2, <3>3 DEF PromptOK, Distinct
      <3> QED
        BY <2>1, <3>2, <3>3, <3>4, SessionConstants DEF Unanswered
    <2>2. CASE ~(pending_restore = NoPrompt /\ sidecar[f].stored)
      <3>1. pending_restore' = pending_restore
        BY <1>1, <2>2
      <3> QED
        BY <1>1, <2>2, <3>1 DEF PromptOK, Unanswered
    <2> QED
      BY <2>1, <2>2
  <1>7. WaitingIsFresh'
    BY <1>5, <1>6 DEF WaitingIsFresh
  <1>8. SidecarIsAsked'
    BY <1>1, <1>5, <1>6, AwaitedAnswers DEF SidecarIsAsked
  <1>9. ClosingIsApart'
    BY <1>1, <1>5, <1>6 DEF ClosingIsApart, LedgerTyped
  <1>10. StoppedHasNoTabs'
    BY <1>1 DEF StoppedHasNoTabs
  <1>11. WorkIsHeld'
    BY <1>1, <1>5 DEF WorkIsHeld, Held, InTab, InSidecar
  <1> QED
    BY <1>3, <1>6, <1>7, <1>8, <1>9, <1>10, <1>11

(* The user edits, saves and closes while no answer is awaited. *)
LEMMA NobodyWaits ==
    ASSUME SessionInv, NoDialog
    PROVE  /\ Unanswered = {}
           /\ \A f \in Files : Open(f) /\ sidecar[f].stored => f \in dismissed \cup unanswered
  BY AwaitedAnswers DEF SessionInv, NoDialog, SidecarIsAsked

(* New work is in the tab. *)
LEMMA EditKeeps ==
    ASSUME SessionInv, NEW f \in Files, Edit(f)
    PROVE  SessionInv'
  <1> USE DEF SessionInv
  <1>1. /\ disk' = disk /\ sidecar' = sidecar /\ layout' = layout /\ running' = running
        /\ running /\ signal' = signal
        /\ dismissed' = dismissed /\ unanswered' = unanswered
        /\ pending_reload' = pending_reload /\ pending_restore' = pending_restore
        /\ pending_close' = pending_close /\ restore_queue' = restore_queue
        /\ Open(f) /\ NoDialog
        /\ made' = [made EXCEPT ![f] = @ + 1]
        /\ owed' = [owed EXCEPT ![f] = @ \cup {made'[f]}]
        /\ tab' = [tab EXCEPT ![f].work = @ \cup {made'[f]}]
    BY DEF Edit, diskSide, prompts, left
  <1>2. Unanswered = {} /\ Unanswered' = {}
    BY <1>1, NobodyWaits DEF Unanswered
  <1>3. made'[f] \in Nat /\ tab[f] \in OpenStates
    BY <1>1, OpenTab DEF LedgerTyped
  <1>4. /\ tab'[f] \in OpenStates /\ tab'[f].work = tab[f].work \cup {made'[f]}
        /\ \A g \in Files \ {f} : tab'[g] = tab[g]
    BY <1>1, <1>3 DEF TabsTyped, OpenStates
  <1>5. TabsTyped'
    BY <1>1, <1>4 DEF TabsTyped
  <1>6. Open(f)' /\ \A g \in Files \ {f} : Open(g)' = Open(g)
    BY <1>4 DEF Open, OpenStates
  <1>7. SidecarsTyped' /\ LedgerTyped' /\ PromptOK'
    BY <1>1, <1>3 DEF SidecarsTyped, LedgerTyped, PromptOK
  <1>8. WaitingIsFresh' /\ SidecarIsAsked' /\ ClosingIsApart' /\ StoppedHasNoTabs'
    BY <1>1, <1>2, <1>6, NobodyWaits
    DEF WaitingIsFresh, SidecarIsAsked, ClosingIsApart, StoppedHasNoTabs, NoDialog
  <1>9. WorkIsHeld'
    <2>1. owed'[f] = owed[f] \cup {made'[f]} /\ \A g \in Files \ {f} : owed'[g] = owed[g]
      BY <1>1 DEF LedgerTyped
    <2>2. InTab(f)' = InTab(f) \cup {made'[f]} /\ \A g \in Files \ {f} : InTab(g)' = InTab(g)
      BY <1>1, <1>4, <1>6 DEF InTab
    <2>3. \A g \in Files : InSidecar(g)' = InSidecar(g)
      BY <1>1 DEF InSidecar
    <2>4. \A g \in Files : Held(g) => Held(g)'
      BY <2>1, <2>2, <2>3 DEF Held
    <2> QED
      BY <1>1, <2>4 DEF WorkIsHeld
  <1> QED
    BY <1>5, <1>7, <1>8, <1>9

(* A written file owes nothing that its tab held, and has no sidecar; one   *)
(* it had was not being asked about.                                       *)
LEMMA WrittenFile ==
    ASSUME SessionInv, NEW f \in Files, Open(f), f \notin Unanswered, Written(f),
           layout' = layout, made' = made, dismissed' = dismissed, unanswered' = unanswered,
           pending_reload' \in Files \cup {None}, pending_close' \in Files \cup {None},
           pending_restore' = pending_restore, restore_queue' = restore_queue
    PROVE  /\ SidecarsTyped' /\ LedgerTyped' /\ PromptOK'
           /\ ~sidecar'[f].stored /\ \A g \in Files \ {f} : sidecar'[g] = sidecar[g]
           /\ Unanswered' = Unanswered
           /\ Held(f)' \/ f \in (dismissed \cup unanswered)'
           /\ \A g \in Files \ {f} : owed'[g] = owed[g]
           /\ disk'[f] \in Nat
  <1> USE DEF SessionInv
  <1>1. /\ disk' = [disk EXCEPT ![f] = @ + 1]
        /\ signal' = signal \cup {f}
        /\ sidecar' = [sidecar EXCEPT ![f] = NoSidecar]
        /\ owed' = [owed EXCEPT ![f] = @ \ tab[f].work]
    BY DEF Written
  <1>2. SidecarsTyped' /\ LedgerTyped' /\ disk'[f] \in Nat
    BY <1>1 DEF SidecarsTyped, LedgerTyped
  <1>3. ~sidecar'[f].stored /\ \A g \in Files \ {f} : sidecar'[g] = sidecar[g]
    BY <1>1 DEF SidecarsTyped, NoSidecar
  <1>4. Unanswered' = Unanswered
    BY DEF Unanswered
  <1>5. PromptOK'
    BY <1>3, AwaitedAnswers DEF PromptOK
  <1>6. Held(f)' \/ f \in (dismissed \cup unanswered)'
    <2>1. CASE sidecar[f].stored
      BY <2>1 DEF SidecarIsAsked
    <2>2. CASE ~sidecar[f].stored
      <3>1. Held(f) => owed[f] \subseteq tab[f].work
        BY <2>2 DEF Held, InTab, InSidecar
      <3> QED
        BY <1>1, <3>1 DEF WorkIsHeld, Held, LedgerTyped
    <2> QED
      BY <2>1, <2>2
  <1> QED
    BY <1>1, <1>2, <1>3, <1>4, <1>5, <1>6 DEF LedgerTyped

(* Saving moves the tab's work to the disk. *)
LEMMA SaveKeeps ==
    ASSUME SessionInv, NEW f \in Files, Save(f)
    PROVE  SessionInv'
  <1> USE DEF SessionInv
  <1>1. /\ running /\ running' = running /\ Open(f) /\ NoDialog /\ Written(f)
        /\ tab' = [tab EXCEPT ![f] = FreshTab(disk'[f])]
        /\ layout' = layout /\ made' = made
        /\ dismissed' = dismissed /\ unanswered' = unanswered
        /\ pending_reload' = pending_reload /\ pending_restore' = pending_restore
        /\ pending_close' = pending_close /\ restore_queue' = restore_queue
    BY DEF Save, prompts, left
  <1>2. Unanswered = {}
    BY <1>1, NobodyWaits
  <1>3. /\ SidecarsTyped' /\ LedgerTyped' /\ PromptOK'
        /\ ~sidecar'[f].stored /\ \A g \in Files \ {f} : sidecar'[g] = sidecar[g]
        /\ Unanswered' = {}
        /\ Held(f)' \/ f \in (dismissed \cup unanswered)'
        /\ \A g \in Files \ {f} : owed'[g] = owed[g]
        /\ disk'[f] \in Nat
    BY <1>1, <1>2, WrittenFile DEF LedgerTyped
  <1>4. FreshTab(disk'[f]) \in OpenStates /\ FreshTab(disk'[f]).open
    BY <1>3, FreshTabs
  <1>5. tab'[f] = FreshTab(disk'[f]) /\ \A g \in Files \ {f} : tab'[g] = tab[g]
    BY <1>1 DEF TabsTyped
  <1>6. Open(f)' /\ \A g \in Files \ {f} : Open(g)' = Open(g)
    BY <1>4, <1>5 DEF Open
  <1>7. TabsTyped'
    BY <1>1, <1>4 DEF TabsTyped
  <1>8. WaitingIsFresh' /\ SidecarIsAsked' /\ ClosingIsApart' /\ StoppedHasNoTabs'
    BY <1>1, <1>2, <1>3, <1>6, NobodyWaits
    DEF WaitingIsFresh, SidecarIsAsked, ClosingIsApart, StoppedHasNoTabs, NoDialog
  <1>9. WorkIsHeld'
    <2>1. \A g \in Files \ {f} : Held(g) => Held(g)'
      BY <1>3, <1>5, <1>6 DEF Held, InTab, InSidecar
    <2> QED
      BY <1>1, <1>3, <2>1 DEF WorkIsHeld
  <1> QED
    BY <1>3, <1>7, <1>8, <1>9

(* A clean tab closes at once; a dirty one is asked about first. *)
LEMMA CloseKeeps ==
    ASSUME SessionInv, NEW f \in Files, Close(f)
    PROVE  SessionInv'
  <1> USE DEF SessionInv
  <1>1. /\ disk' = disk /\ sidecar' = sidecar /\ layout' = layout /\ running' = running
        /\ running /\ signal' = signal /\ made' = made /\ owed' = owed
        /\ dismissed' = dismissed /\ unanswered' = unanswered
        /\ pending_reload' = pending_reload /\ pending_restore' = pending_restore
        /\ restore_queue' = restore_queue
        /\ Open(f) /\ NoDialog
        /\ IF Dirty(f)
           THEN pending_close' = f /\ tab' = tab
           ELSE tab' = [tab EXCEPT ![f] = NoTab] /\ pending_close' = pending_close
    BY DEF Close, diskSide, ledger, left
  <1>2. Unanswered = {} /\ Unanswered' = {}
    BY <1>1, NobodyWaits DEF Unanswered
  <1>3. SidecarsTyped' /\ LedgerTyped' /\ PromptOK'
    BY <1>1 DEF SidecarsTyped, LedgerTyped, PromptOK
  <1>4. CASE Dirty(f)
    <2>1. tab' = tab /\ pending_close' = f
      BY <1>1, <1>4
    <2>2. TabsTyped' /\ WaitingIsFresh' /\ SidecarIsAsked' /\ ClosingIsApart' /\ StoppedHasNoTabs'
      BY <1>1, <1>2, <2>1, NobodyWaits
      DEF TabsTyped, WaitingIsFresh, SidecarIsAsked, ClosingIsApart, StoppedHasNoTabs, Open
    <2>3. WorkIsHeld'
      BY <1>1, <2>1 DEF WorkIsHeld, Held, InTab, InSidecar, Open
    <2> QED
      BY <1>3, <2>2, <2>3
  <1>5. CASE ~Dirty(f)
    <2>1. tab' = [tab EXCEPT ![f] = NoTab] /\ pending_close' = None
      BY <1>1, <1>5 DEF NoDialog
    <2>2. ~Open(f)' /\ \A g \in Files \ {f} : Open(g)' = Open(g) /\ tab'[g] = tab[g]
      BY <2>1 DEF Open, TabsTyped, NoTab
    <2>3. TabsTyped' /\ WaitingIsFresh' /\ SidecarIsAsked' /\ ClosingIsApart' /\ StoppedHasNoTabs'
      BY <1>1, <1>2, <2>1, <2>2, NobodyWaits
      DEF TabsTyped, WaitingIsFresh, SidecarIsAsked, ClosingIsApart, StoppedHasNoTabs
    <2>4. InTab(f) = {} /\ InTab(f)' = {} /\ \A g \in Files \ {f} : InTab(g)' = InTab(g)
      BY <1>1, <1>5, <2>2 DEF InTab, Dirty
    <2>5. WorkIsHeld'
      BY <1>1, <2>4 DEF WorkIsHeld, Held, InSidecar
    <2> QED
      BY <1>3, <2>3, <2>5
  <1> QED
    BY <1>4, <1>5

(* Saved, thrown away or kept: the closing tab was not waiting for the      *)
(* restore prompt.                                                         *)
LEMMA ResolveCloseKeeps ==
    ASSUME SessionInv, ResolveClose
    PROVE  SessionInv'
  <1> USE DEF SessionInv
  <1>0. PICK f \in Files : f = pending_close
    BY DEF ResolveClose, LedgerTyped
  <1>1. /\ running /\ f # None /\ pending_close' = None
        /\ layout' = layout /\ running' = running /\ made' = made
        /\ dismissed' = dismissed /\ unanswered' = unanswered
        /\ pending_reload' = pending_reload /\ pending_restore' = pending_restore
        /\ restore_queue' = restore_queue
    BY <1>0 DEF ResolveClose, left
  <1>2. \/ Written(f) /\ tab' = [tab EXCEPT ![f] = NoTab]
        \/ /\ tab' = [tab EXCEPT ![f] = NoTab]
           /\ owed' = [owed EXCEPT ![f] = @ \ tab[f].work]
           /\ UNCHANGED <<disk, signal, sidecar>>
        \/ UNCHANGED <<tab, owed, disk, signal, sidecar>>
    BY <1>0 DEF ResolveClose
  <1>3. Open(f) /\ f \notin Unanswered
    BY <1>0, <1>1 DEF ClosingIsApart
  <1>4. Unanswered' = Unanswered
    BY <1>1 DEF Unanswered
  <1>5. ClosingIsApart' /\ StoppedHasNoTabs'
    BY <1>1 DEF ClosingIsApart, StoppedHasNoTabs
  <1>6. ASSUME tab' = [tab EXCEPT ![f] = NoTab],
               \A g \in Files \ {f} : sidecar'[g] = sidecar[g] /\ owed'[g] = owed[g],
               Held(f)' \/ f \in (dismissed \cup unanswered)'
        PROVE  TabsTyped' /\ WaitingIsFresh' /\ SidecarIsAsked' /\ WorkIsHeld'
    <2>1. ~Open(f)' /\ \A g \in Files \ {f} : Open(g)' = Open(g) /\ tab'[g] = tab[g]
      BY <1>3, <1>6 DEF Open, TabsTyped, NoTab
    <2>2. TabsTyped'
      BY <1>3, <1>6 DEF TabsTyped
    <2>3. WaitingIsFresh' /\ SidecarIsAsked'
      BY <1>1, <1>3, <1>4, <1>6, <2>1 DEF WaitingIsFresh, SidecarIsAsked
    <2>4. \A g \in Files \ {f} : Held(g) => Held(g)'
      BY <1>6, <2>1 DEF Held, InTab, InSidecar
    <2>5. WorkIsHeld'
      BY <1>1, <1>3, <1>6, <2>4 DEF WorkIsHeld
    <2> QED
      BY <2>2, <2>3, <2>5
  <1>7. CASE Written(f) /\ tab' = [tab EXCEPT ![f] = NoTab]
    <2>1. /\ SidecarsTyped' /\ LedgerTyped' /\ PromptOK'
          /\ \A g \in Files \ {f} : sidecar'[g] = sidecar[g] /\ owed'[g] = owed[g]
          /\ Held(f)' \/ f \in (dismissed \cup unanswered)'
      BY <1>1, <1>3, <1>7, WrittenFile DEF LedgerTyped
    <2> QED
      BY <1>5, <1>6, <1>7, <2>1
  <1>8. CASE /\ tab' = [tab EXCEPT ![f] = NoTab]
             /\ owed' = [owed EXCEPT ![f] = @ \ tab[f].work]
             /\ UNCHANGED <<disk, signal, sidecar>>
    <2>1. SidecarsTyped' /\ LedgerTyped' /\ PromptOK'
      BY <1>1, <1>3, <1>8 DEF SidecarsTyped, LedgerTyped, PromptOK
    <2>2. owed'[f] = owed[f] \ InTab(f) /\ \A g \in Files \ {f} : owed'[g] = owed[g]
      BY <1>3, <1>8 DEF LedgerTyped, InTab
    <2>3. Held(f) => Held(f)'
      BY <1>8, <2>2 DEF Held, InSidecar
    <2>4. Held(f)' \/ f \in (dismissed \cup unanswered)'
      BY <1>1, <1>3, <2>3 DEF WorkIsHeld
    <2> QED
      BY <1>5, <1>6, <1>8, <2>1, <2>2, <2>4
  <1>9. CASE UNCHANGED <<tab, owed, disk, signal, sidecar>>
    <2>1. TabsTyped' /\ SidecarsTyped' /\ LedgerTyped' /\ PromptOK'
      BY <1>1, <1>9 DEF TabsTyped, SidecarsTyped, LedgerTyped, PromptOK
    <2>2. WaitingIsFresh' /\ SidecarIsAsked' /\ WorkIsHeld'
      BY <1>1, <1>4, <1>9
      DEF WaitingIsFresh, SidecarIsAsked, WorkIsHeld, Held, InTab, InSidecar, Open
    <2> QED
      BY <1>5, <2>1, <2>2
  <1> QED
    BY <1>2, <1>7, <1>8, <1>9

-----------------------------------------------------------------------------
(* A change on disk. *)

(* A reload keeps a tab open or closed; what it drops of the tab's work is  *)
(* what the user gave up.                                                  *)
LEMMA ReloadedTab ==
    ASSUME TabsTyped, LedgerTyped, NEW f \in Files, NEW decision
    PROVE  /\ Reloaded(f, decision) \in OpenStates \cup {NoTab}
           /\ Reloaded(f, decision).open = Open(f)
           /\ Open(f) => /\ Reloaded(f, decision) \in OpenStates
                         /\ Reloaded(f, decision).work = tab[f].work \ GivenUp(f, decision)
                         /\ tab[f].cut_on = tab[f].base =>
                               Reloaded(f, decision).cut_on = Reloaded(f, decision).base
  <1>1. CASE ~Open(f)
    BY <1>1, OpenTab DEF Reloaded, Open
  <1>2. CASE Open(f) /\ decision = "Ignore"
    BY <1>2, OpenTab DEF Reloaded, Open, GivenUp
  <1>3. CASE Open(f) /\ decision = "DiscardEdits"
    <2>1. FreshTab(disk[f]) \in OpenStates /\ FreshTab(disk[f]).open = TRUE
          /\ FreshTab(disk[f]).work = {} /\ FreshTab(disk[f]).cut_on = FreshTab(disk[f]).base
      BY FreshTabs DEF LedgerTyped
    <2>2. Reloaded(f, decision) = FreshTab(disk[f])
      BY <1>3 DEF Reloaded
    <2>3. Open(f) = TRUE
      BY <1>3, OpenTab
    <2> QED
      BY <1>3, <2>1, <2>2, <2>3 DEF GivenUp
  <1>4. CASE Open(f) /\ decision \notin {"Ignore", "DiscardEdits"}
    <2>1. Reloaded(f, decision) = [tab[f] EXCEPT !.base = disk[f], !.cut_on = disk[f]]
      BY <1>4 DEF Reloaded
    <2>2. tab[f] \in OpenStates /\ disk[f] \in Nat
      BY <1>4, OpenTab DEF LedgerTyped
    <2>3. /\ Reloaded(f, decision) \in OpenStates
          /\ Reloaded(f, decision).work = tab[f].work
          /\ Reloaded(f, decision).base = disk[f] /\ Reloaded(f, decision).cut_on = disk[f]
      BY <2>1, <2>2 DEF OpenStates
    <2>4. Reloaded(f, decision).open \in {TRUE}
      BY <2>3, Zenon DEF OpenStates
    <2>5. Open(f) = TRUE
      BY <1>4, OpenTab
    <2> QED
      BY <1>4, <2>3, <2>4, <2>5 DEF GivenUp
  <1> QED
    BY <1>1, <1>2, <1>3, <1>4

(* The invariant through a reload of one tab. *)
LEMMA ReloadKeeps ==
    ASSUME SessionInv, NEW f \in Files, NEW decision,
           \/ /\ tab' = [tab EXCEPT ![f] = Reloaded(f, decision)]
              /\ owed' = [owed EXCEPT ![f] = @ \ GivenUp(f, decision)]
           \/ UNCHANGED <<tab, owed>>,
           disk' = disk, sidecar' = sidecar, layout' = layout, running' = running, made' = made,
           dismissed' = dismissed, unanswered' = unanswered, signal' \subseteq signal,
           pending_reload' \in Files \cup {None}, pending_restore' = pending_restore,
           pending_close' = pending_close, restore_queue' = restore_queue
    PROVE  SessionInv'
  <1> USE DEF SessionInv
  <1>1. Unanswered' = Unanswered
    BY DEF Unanswered
  <1>2. LedgerTyped' /\ SidecarsTyped' /\ PromptOK'
    BY DEF LedgerTyped, SidecarsTyped, PromptOK
  <1>3. CASE /\ tab' = [tab EXCEPT ![f] = Reloaded(f, decision)]
             /\ owed' = [owed EXCEPT ![f] = @ \ GivenUp(f, decision)]
    <2>1. tab'[f] = Reloaded(f, decision) /\ \A g \in Files \ {f} : tab'[g] = tab[g]
      BY <1>3 DEF TabsTyped
    <2>2. \A g \in Files : Open(g)' = Open(g)
      BY <2>1, ReloadedTab DEF Open
    <2>3. TabsTyped'
      BY <1>3, ReloadedTab DEF TabsTyped
    <2>4. Open(f) => tab'[f].work = tab[f].work \ GivenUp(f, decision)
      BY <2>1, ReloadedTab
    <2>5. WaitingIsFresh' /\ SidecarIsAsked' /\ ClosingIsApart' /\ StoppedHasNoTabs'
      BY <1>1, <2>1, <2>2, <2>4
      DEF WaitingIsFresh, SidecarIsAsked, ClosingIsApart, StoppedHasNoTabs, LedgerTyped
    <2>6. /\ owed'[f] = owed[f] \ GivenUp(f, decision)
          /\ \A g \in Files \ {f} : owed'[g] = owed[g]
      BY <1>3 DEF LedgerTyped
    <2>7. /\ InTab(f)' = InTab(f) \ GivenUp(f, decision)
          /\ \A g \in Files \ {f} : InTab(g)' = InTab(g)
      BY <2>1, <2>2, <2>4 DEF InTab
    <2>8. \A g \in Files : InSidecar(g)' = InSidecar(g)
      BY DEF InSidecar
    <2>9. \A g \in Files : Held(g) => Held(g)'
      BY <2>6, <2>7, <2>8 DEF Held
    <2>10. WorkIsHeld'
      BY <2>9 DEF WorkIsHeld
    <2> QED
      BY <1>2, <2>3, <2>5, <2>10
  <1>4. CASE UNCHANGED <<tab, owed>>
    <2>1. TabsTyped' /\ WaitingIsFresh' /\ SidecarIsAsked' /\ ClosingIsApart' /\ StoppedHasNoTabs'
      BY <1>1, <1>4
      DEF TabsTyped, WaitingIsFresh, SidecarIsAsked, ClosingIsApart, StoppedHasNoTabs, Open
    <2>2. WorkIsHeld'
      BY <1>4 DEF WorkIsHeld, Held, InTab, InSidecar, Open
    <2> QED
      BY <1>2, <2>1, <2>2
  <1> QED
    BY <1>3, <1>4

LEMMA ExternalChangeKeeps ==
    ASSUME SessionInv, NEW f \in Files, ExternalChange(f)
    PROVE  SessionInv'
  <1>1. /\ disk' = disk /\ sidecar' = sidecar /\ layout' = layout /\ running' = running
        /\ made' = made /\ dismissed' = dismissed /\ unanswered' = unanswered
        /\ signal' \subseteq signal /\ pending_restore' = pending_restore
        /\ pending_close' = pending_close /\ restore_queue' = restore_queue
    BY DEF ExternalChange, diskSide, left
  <1>2. pending_reload' \in Files \cup {None}
    BY DEF ExternalChange, SessionInv, LedgerTyped
  <1>3. \/ /\ tab' = [tab EXCEPT ![f] = Reloaded(f, "DiscardEdits")]
           /\ owed' = [owed EXCEPT ![f] = @ \ GivenUp(f, "DiscardEdits")]
        \/ UNCHANGED <<tab, owed>>
    BY DEF ExternalChange
  <1> QED
    BY <1>1, <1>2, <1>3, ReloadKeeps

LEMMA ResolveReloadKeeps ==
    ASSUME SessionInv, ResolveReload
    PROVE  SessionInv'
  <1>1. /\ disk' = disk /\ sidecar' = sidecar /\ layout' = layout /\ running' = running
        /\ made' = made /\ dismissed' = dismissed /\ unanswered' = unanswered
        /\ signal' = signal /\ pending_restore' = pending_restore
        /\ pending_close' = pending_close /\ restore_queue' = restore_queue
        /\ pending_reload' = None /\ pending_reload # None
    BY DEF ResolveReload, diskSide, left
  <1>2. PICK decision \in {"DiscardEdits", "KeepEdits", "Ignore"} :
          \/ /\ tab' = [tab EXCEPT ![pending_reload] = Reloaded(pending_reload, decision)]
             /\ owed' = [owed EXCEPT ![pending_reload] = @ \ GivenUp(pending_reload, decision)]
          \/ UNCHANGED <<tab, owed>>
    BY DEF ResolveReload
  <1>3. pending_reload \in Files
    BY <1>1 DEF SessionInv, LedgerTyped
  <1> QED
    BY <1>1, <1>2, <1>3, ReloadKeeps

-----------------------------------------------------------------------------
(* The restore prompt. *)

(* Once a prompt is answered, or put away and noted as such, the next       *)
(* queued tab that has a sidecar gets its turn.                            *)
LEMMA PromptAnswered ==
    ASSUME SessionInv, pending_restore # NoPrompt, StageNext(NoPrompt, restore_queue),
           NEW f \in Files, f = pending_restore.file,
           SidecarsTyped',
           \A g \in Files : Open(g)' = Open(g),
           \A g \in Files \ {f} : tab'[g] = tab[g] /\ sidecar'[g] = sidecar[g],
           ~sidecar'[f].stored \/ f \in dismissed',
           dismissed \subseteq dismissed', unanswered' = unanswered,
           pending_close' = pending_close
    PROVE  PromptOK' /\ WaitingIsFresh' /\ SidecarIsAsked' /\ ClosingIsApart'
  <1> USE DEF SessionInv
  <1>1. OfferNext(restore_queue)
    BY DEF StageNext
  <1>2. restore_queue \in Seq(Files) /\ Distinct(restore_queue)
    BY DEF PromptOK
  <1>3. /\ PromptOK'
        /\ Unanswered' \subseteq ToSet(restore_queue)
        /\ \A g \in ToSet(restore_queue) : sidecar'[g].stored => g \in Unanswered'
    BY <1>1, <1>2, OfferedNext
  <1>4. Unanswered = {f} \cup ToSet(restore_queue) /\ f \notin ToSet(restore_queue)
        /\ Unanswered \subseteq Files
    BY AwaitedAnswers DEF PromptOK
  <1>5. WaitingIsFresh'
    BY <1>3, <1>4 DEF WaitingIsFresh
  <1>6. SidecarIsAsked'
    BY <1>3, <1>4 DEF SidecarIsAsked
  <1>7. ClosingIsApart'
    BY <1>3, <1>4 DEF ClosingIsApart, LedgerTyped
  <1> QED
    BY <1>3, <1>5, <1>6, <1>7

(* A restore puts the sidecar's work into a tab that has none of its own,   *)
(* or leaves the sidecar and says so.                                      *)
LEMMA RestoreKeeps ==
    ASSUME SessionInv, Restore
    PROVE  SessionInv'
  <1> USE DEF SessionInv
  <1>1. pending_restore # NoPrompt
    BY DEF Restore
  <1>2. PICK f \in Files : f = pending_restore.file
    BY <1>1, AwaitedAnswers
  <1>3. /\ f \in Unanswered /\ Open(f) /\ tab[f] \in OpenStates /\ tab[f].work = {}
        /\ pending_restore.sidecar \in Sidecars /\ sidecar[f] = pending_restore.sidecar
    BY <1>1, <1>2, AwaitedAnswers, OpenTab DEF WaitingIsFresh, PromptOK
  <1>4. /\ disk' = disk /\ layout' = layout /\ running' = running /\ running
        /\ signal' = signal /\ made' = made /\ unanswered' = unanswered
        /\ pending_reload' = pending_reload /\ pending_close' = pending_close
        /\ StageNext(NoPrompt, restore_queue)
    BY DEF Restore
  <1>5. CASE MayRestore(pending_restore)
    <2> DEFINE cut == IF pending_restore.clean THEN pending_restore.sidecar.base ELSE tab[f].base
    <2>1. /\ tab' = [tab EXCEPT ![f].work = pending_restore.sidecar.work, ![f].cut_on = cut]
          /\ sidecar' = [sidecar EXCEPT ![f] = NoSidecar]
          /\ owed' = [owed EXCEPT ![f] = @]
          /\ dismissed' = dismissed
      BY <1>2, <1>3, <1>5 DEF Restore
    <2>2. cut \in Nat /\ pending_restore.sidecar.work \in SUBSET Nat
      BY <1>3 DEF Sidecars, OpenStates
    <2> HIDE DEF cut
    <2>3. /\ tab'[f] \in OpenStates /\ tab'[f].work = pending_restore.sidecar.work
          /\ \A g \in Files \ {f} : tab'[g] = tab[g]
      BY <1>3, <2>1, <2>2 DEF TabsTyped, OpenStates
    <2>4. TabsTyped'
      BY <2>1, <2>3 DEF TabsTyped
    <2>5. \A g \in Files : Open(g)' = Open(g)
      <3>1. tab'[f].open \in {TRUE}
        BY <2>3, Zenon DEF OpenStates
      <3>2. tab[f].open \in {TRUE}
        BY <1>3, Zenon DEF OpenStates
      <3> QED
        BY <2>3, <3>1, <3>2 DEF Open
    <2>6. ~sidecar'[f].stored /\ \A g \in Files \ {f} : sidecar'[g] = sidecar[g]
      BY <2>1 DEF SidecarsTyped, NoSidecar
    <2>7. SidecarsTyped' /\ LedgerTyped' /\ StoppedHasNoTabs'
      BY <1>4, <2>1 DEF SidecarsTyped, LedgerTyped, StoppedHasNoTabs
    <2>8. PromptOK' /\ WaitingIsFresh' /\ SidecarIsAsked' /\ ClosingIsApart'
      BY <1>1, <1>2, <1>4, <2>1, <2>3, <2>5, <2>6, <2>7, PromptAnswered
    <2>9. \A g \in Files : owed'[g] = owed[g]
      BY <2>1 DEF LedgerTyped
    <2>10. Held(f) => Held(f)'
      <3>1. InTab(f) = {} /\ InSidecar(f) \subseteq sidecar[f].work
        BY <1>3 DEF InTab, InSidecar, Sidecars
      <3>2. InTab(f)' = sidecar[f].work
        BY <1>3, <2>3, <2>5 DEF InTab
      <3> QED
        BY <2>9, <3>1, <3>2 DEF Held
    <2>11. \A g \in Files \ {f} : Held(g) => Held(g)'
      BY <2>3, <2>5, <2>6, <2>9 DEF Held, InTab, InSidecar
    <2>12. WorkIsHeld'
      BY <1>4, <2>1, <2>10, <2>11 DEF WorkIsHeld
    <2> QED
      BY <2>4, <2>7, <2>8, <2>12
  <1>6. CASE ~MayRestore(pending_restore)
    <2>1. /\ dismissed' = dismissed \cup {f} /\ tab' = tab /\ sidecar' = sidecar /\ owed' = owed
      BY <1>2, <1>6 DEF Restore
    <2>2. TabsTyped' /\ SidecarsTyped' /\ LedgerTyped' /\ StoppedHasNoTabs'
      BY <1>4, <2>1 DEF TabsTyped, SidecarsTyped, LedgerTyped, StoppedHasNoTabs
    <2>3. \A g \in Files : Open(g)' = Open(g)
      BY <2>1 DEF Open
    <2>4. PromptOK' /\ WaitingIsFresh' /\ SidecarIsAsked' /\ ClosingIsApart'
      BY <1>1, <1>2, <1>4, <2>1, <2>2, <2>3, PromptAnswered
    <2>5. WorkIsHeld'
      BY <1>4, <2>1 DEF WorkIsHeld, Held, InTab, InSidecar, Open
    <2> QED
      BY <2>2, <2>4, <2>5
  <1> QED
    BY <1>5, <1>6

(* Discarding gives up the sidecar's work; the tab has none of its own. *)
LEMMA DiscardSidecarKeeps ==
    ASSUME SessionInv, DiscardSidecar
    PROVE  SessionInv'
  <1> USE DEF SessionInv
  <1>1. pending_restore # NoPrompt
    BY DEF DiscardSidecar
  <1>2. PICK f \in Files : f = pending_restore.file
    BY <1>1, AwaitedAnswers
  <1>3. /\ f \in Unanswered /\ Open(f) /\ tab[f].work = {}
        /\ sidecar[f] \in Sidecars /\ sidecar[f] = pending_restore.sidecar
    BY <1>1, <1>2, AwaitedAnswers, OpenTab DEF WaitingIsFresh, PromptOK
  <1>4. /\ disk' = disk /\ layout' = layout /\ running' = running /\ running /\ tab' = tab
        /\ signal' = signal /\ made' = made /\ unanswered' = unanswered /\ dismissed' = dismissed
        /\ pending_reload' = pending_reload /\ pending_close' = pending_close
        /\ StageNext(NoPrompt, restore_queue)
        /\ sidecar' = [sidecar EXCEPT ![f] = NoSidecar]
        /\ owed' = [owed EXCEPT ![f] = @ \ (sidecar[f].work \ {})]
    BY <1>2, <1>3 DEF DiscardSidecar, left
  <1>5. ~sidecar'[f].stored /\ \A g \in Files \ {f} : sidecar'[g] = sidecar[g]
    BY <1>4 DEF SidecarsTyped, NoSidecar
  <1>6. TabsTyped' /\ SidecarsTyped' /\ LedgerTyped' /\ StoppedHasNoTabs'
    BY <1>4 DEF TabsTyped, SidecarsTyped, LedgerTyped, StoppedHasNoTabs
  <1>7. \A g \in Files : Open(g)' = Open(g)
    BY <1>4 DEF Open
  <1>8. PromptOK' /\ WaitingIsFresh' /\ SidecarIsAsked' /\ ClosingIsApart'
    BY <1>1, <1>2, <1>4, <1>5, <1>6, <1>7, PromptAnswered
  <1>9. Held(f) => Held(f)'
    <2>1. InTab(f) = {} /\ InSidecar(f) \subseteq sidecar[f].work
      BY <1>3 DEF InTab, InSidecar, Sidecars
    <2>2. owed'[f] = owed[f] \ sidecar[f].work
      BY <1>4 DEF LedgerTyped
    <2> QED
      BY <2>1, <2>2 DEF Held
  <1>10. \A g \in Files \ {f} : Held(g) => Held(g)'
    BY <1>4, <1>5, <1>7 DEF Held, InTab, InSidecar, LedgerTyped
  <1>11. WorkIsHeld'
    BY <1>4, <1>9, <1>10 DEF WorkIsHeld
  <1> QED
    BY <1>6, <1>8, <1>11

LEMMA DismissRestoreKeeps ==
    ASSUME SessionInv, DismissRestore
    PROVE  SessionInv'
  <1> USE DEF SessionInv
  <1>1. pending_restore # NoPrompt
    BY DEF DismissRestore
  <1>2. PICK f \in Files : f = pending_restore.file
    BY <1>1, AwaitedAnswers
  <1>3. /\ disk' = disk /\ layout' = layout /\ running' = running /\ running /\ tab' = tab
        /\ signal' = signal /\ made' = made /\ owed' = owed /\ unanswered' = unanswered
        /\ pending_reload' = pending_reload /\ pending_close' = pending_close
        /\ StageNext(NoPrompt, restore_queue)
        /\ sidecar' = sidecar /\ dismissed' = dismissed \cup {f}
    BY <1>2 DEF DismissRestore
  <1>4. TabsTyped' /\ SidecarsTyped' /\ LedgerTyped' /\ StoppedHasNoTabs'
    BY <1>3 DEF TabsTyped, SidecarsTyped, LedgerTyped, StoppedHasNoTabs
  <1>5. \A g \in Files : Open(g)' = Open(g)
    BY <1>3 DEF Open
  <1>6. PromptOK' /\ WaitingIsFresh' /\ SidecarIsAsked' /\ ClosingIsApart'
    BY <1>1, <1>2, <1>3, <1>4, <1>5, PromptAnswered
  <1>7. WorkIsHeld'
    BY <1>3 DEF WorkIsHeld, Held, InTab, InSidecar, Open
  <1> QED
    BY <1>4, <1>6, <1>7

-----------------------------------------------------------------------------
(* The theorems. *)

LEMMA SessionStep ==
    ASSUME SessionInv, [SessionNext]_sessionVars
    PROVE  SessionInv'
  <1>1. CASE SessionNext
    BY <1>1, StartKeeps, QuitKeeps, CrashKeeps, SaveLayoutKeeps, OutsideWriteKeeps,
       OpenFileKeeps, EditKeeps, SaveKeeps, CloseKeeps, ExternalChangeKeeps,
       ResolveCloseKeeps, ResolveReloadKeeps, RestoreKeeps, DiscardSidecarKeeps,
       DismissRestoreKeeps, Zenon
    DEF SessionNext
  <1>2. CASE UNCHANGED sessionVars
    <2>1. /\ disk' = disk /\ sidecar' = sidecar /\ layout' = layout /\ running' = running
          /\ tab' = tab /\ signal' = signal /\ made' = made /\ owed' = owed
          /\ dismissed' = dismissed /\ unanswered' = unanswered
          /\ pending_reload' = pending_reload /\ pending_restore' = pending_restore
          /\ pending_close' = pending_close /\ restore_queue' = restore_queue
      BY <1>2 DEF sessionVars, diskSide, prompts, ledger, left
    <2> QED
      BY <2>1
      DEF SessionInv, TabsTyped, SidecarsTyped, LedgerTyped, PromptOK, WaitingIsFresh,
          SidecarIsAsked, ClosingIsApart, StoppedHasNoTabs, WorkIsHeld, Held, InTab,
          InSidecar, Open, Unanswered
  <1> QED
    BY <1>1, <1>2

(* Whatever the user does with prompts, quits and restarts, and however     *)
(* often the process is killed, the restore prompt, its queue, the tabs and *)
(* the sidecars agree (stage_next_restore, persist_unsaved_on_quit).       *)
THEOREM SessionIsConsistent == SessionSpec => []SessionInv
  BY SessionStart, SessionStep, PTL DEF SessionSpec

(* Work the user has neither saved nor given up is in the tab or in the     *)
(* file's sidecar, unless a restore prompt for that file once went          *)
(* unanswered.                                                             *)
THEOREM WorkIsHeldAlways == SessionSpec => []WorkIsHeld
  <1>1. SessionInv => WorkIsHeld
    BY DEF SessionInv
  <1> QED
    BY <1>1, SessionIsConsistent, PTL

-----------------------------------------------------------------------------
(* Restored edits. *)

(* The steps that put bytes or work into a tab: a fresh tab is cut on what  *)
(* it shows, a reload re-anchors, and a clean sidecar is only applied to    *)
(* the bytes it was made on.                                               *)
LEMMA RestoredOnItsBaseStep ==
    ASSUME Digested, SessionInv, RestoredOnItsBase, [SessionNext]_sessionVars
    PROVE  RestoredOnItsBase'
  <1> USE DEF SessionInv
  <1> DEFINE Anchored(t) == t.open => t.cut_on = t.base
  <1>0. /\ \A f \in Files : Anchored(tab[f])
        /\ Anchored(NoTab)
        /\ \A content \in Nat : Anchored(FreshTab(content))
        /\ \A f \in Files : disk[f] \in Nat
    BY FreshTabs DEF RestoredOnItsBase, Open, NoTab, LedgerTyped
  <1>1. SUFFICES \A f \in Files : Anchored(tab'[f])
    BY DEF RestoredOnItsBase, Open
  <1>2. ASSUME NEW f \in Files, NEW t, Anchored(t), tab' = [tab EXCEPT ![f] = t]
        PROVE  \A g \in Files : Anchored(tab'[g])
    <2>1. \A g \in Files : tab'[g] = IF g = f THEN t ELSE tab[g]
      BY <1>2 DEF TabsTyped
    <2> HIDE DEF Anchored
    <2> QED
      BY <1>0, <1>2, <2>1
  <1>3. CASE Start
    <2>1. PICK initial :
            tab' = [f \in Files |-> IF f \in layout \cup {initial} THEN FreshTab(disk[f]) ELSE NoTab]
      BY <1>3 DEF Start
    <2> HIDE DEF Anchored
    <2> QED
      BY <1>0, <2>1
  <1>4. CASE Quit \/ Crash
    <2>1. tab' = [f \in Files |-> NoTab]
      BY <1>4 DEF Quit, Crash, Stopped
    <2> HIDE DEF Anchored
    <2> QED
      BY <1>0, <2>1
  <1>5. CASE UNCHANGED tab
    <2> HIDE DEF Anchored
    <2> QED
      BY <1>0, <1>5
  <1>6. ASSUME NEW f \in Files, OpenFile(f) PROVE \A g \in Files : Anchored(tab'[g])
    BY <1>0, <1>2, <1>6, Zenon DEF OpenFile
  <1>7. ASSUME NEW f \in Files, Edit(f) PROVE \A g \in Files : Anchored(tab'[g])
    <2>1. Open(f) /\ tab' = [tab EXCEPT ![f].work = @ \cup {made'[f]}]
      BY <1>7 DEF Edit
    <2>2. tab[f] \in OpenStates
      BY <2>1, OpenTab
    <2> DEFINE t == [tab[f] EXCEPT !.work = @ \cup {made'[f]}]
    <2>3. tab' = [tab EXCEPT ![f] = t]
      BY <2>1 DEF TabsTyped
    <2>4. t.cut_on = tab[f].cut_on /\ t.base = tab[f].base
      BY <2>2 DEF OpenStates
    <2>5. Anchored(t)
      BY <2>1, <2>4 DEF RestoredOnItsBase
    <2> HIDE DEF t, Anchored
    <2> QED
      BY <1>2, <2>3, <2>5
  <1>8. ASSUME NEW f \in Files, Save(f) PROVE \A g \in Files : Anchored(tab'[g])
    <2>1. tab' = [tab EXCEPT ![f] = FreshTab(disk'[f])] /\ disk' = [disk EXCEPT ![f] = @ + 1]
      BY <1>8 DEF Save, Written
    <2>2. disk'[f] \in Nat
      BY <1>0, <2>1 DEF LedgerTyped
    <2> HIDE DEF Anchored
    <2> QED
      BY <1>0, <1>2, <2>1, <2>2
  <1>9. ASSUME NEW f \in Files, Close(f) PROVE \A g \in Files : Anchored(tab'[g])
    <2>1. tab' = tab \/ tab' = [tab EXCEPT ![f] = NoTab]
      BY <1>9 DEF Close
    <2> HIDE DEF Anchored
    <2> QED
      BY <1>0, <1>2, <1>5, <2>1
  <1>10. ASSUME NEW f \in Files, NEW decision, tab' = [tab EXCEPT ![f] = Reloaded(f, decision)]
         PROVE  \A g \in Files : Anchored(tab'[g])
    <2>1. Anchored(Reloaded(f, decision))
      BY ReloadedTab DEF RestoredOnItsBase
    <2> HIDE DEF Anchored
    <2> QED
      BY <1>2, <1>10, <2>1
  <1>11. ASSUME NEW f \in Files, ExternalChange(f) PROVE \A g \in Files : Anchored(tab'[g])
    <2>1. UNCHANGED tab \/ tab' = [tab EXCEPT ![f] = Reloaded(f, "DiscardEdits")]
      BY <1>11 DEF ExternalChange
    <2> HIDE DEF Anchored
    <2> QED
      BY <1>5, <1>10, <2>1
  <1>12. CASE ResolveReload
    <2>1. /\ pending_reload \in Files
          /\ \E decision \in {"DiscardEdits", "KeepEdits", "Ignore"} :
                UNCHANGED tab \/ tab' = [tab EXCEPT ![pending_reload] = Reloaded(pending_reload, decision)]
      BY <1>12 DEF ResolveReload, LedgerTyped
    <2> HIDE DEF Anchored
    <2> QED
      BY <1>5, <1>10, <2>1
  <1>13. CASE ResolveClose
    <2>1. /\ pending_close \in Files
          /\ UNCHANGED tab \/ tab' = [tab EXCEPT ![pending_close] = NoTab]
      BY <1>13 DEF ResolveClose, LedgerTyped
    <2> HIDE DEF Anchored
    <2> QED
      BY <1>0, <1>2, <1>5, <2>1
  <1>14. CASE Restore
    <2>1. PICK f \in Files : f = pending_restore.file /\ pending_restore # NoPrompt
      BY <1>14, AwaitedAnswers DEF Restore
    <2>2. CASE ~MayRestore(pending_restore) \/ ~Open(f)
      <3>1. UNCHANGED tab
        BY <1>14, <2>1, <2>2 DEF Restore
      <3> QED
        BY <1>5, <3>1
    <2>3. CASE MayRestore(pending_restore) /\ Open(f)
      <3> DEFINE cut == IF pending_restore.clean THEN pending_restore.sidecar.base ELSE tab[f].base
                 t == [tab[f] EXCEPT !.work = pending_restore.sidecar.work, !.cut_on = cut]
      <3>1. tab' = [tab EXCEPT ![f].work = pending_restore.sidecar.work, ![f].cut_on = cut]
        BY <1>14, <2>1, <2>3 DEF Restore
      <3>2. cut = tab[f].base
        BY <2>1, <2>3 DEF MayRestore, PaneShows
      <3>3. tab[f] \in OpenStates
        BY <2>3, OpenTab
      <3>4. tab' = [tab EXCEPT ![f] = t]
        BY <3>1 DEF TabsTyped
      <3>5. Anchored(t)
        BY <3>2, <3>3 DEF OpenStates
      <3> HIDE DEF t, Anchored
      <3> QED
        BY <1>2, <3>4, <3>5
    <2> QED
      BY <2>2, <2>3
  <1>15. CASE SaveLayout \/ DiscardSidecar \/ DismissRestore \/ \E f \in Files : OutsideWrite(f)
    <2>1. UNCHANGED tab
      BY <1>15 DEF SaveLayout, DiscardSidecar, DismissRestore, OutsideWrite
    <2> QED
      BY <1>5, <2>1
  <1>16. CASE UNCHANGED sessionVars
    <2>1. UNCHANGED tab
      BY <1>16 DEF sessionVars
    <2> QED
      BY <1>5, <2>1
  <1> HIDE DEF Anchored
  <1> QED
    BY <1>3, <1>4, <1>6, <1>7, <1>8, <1>9, <1>11, <1>12, <1>13, <1>14, <1>15, <1>16, Zenon
    DEF SessionNext

(* For files within the digest limit, restored edits sit on the bytes they  *)
(* were made on, however the file was changed, reloaded or saved before     *)
(* the answer (resolve_restore).                                           *)
THEOREM RestoredOnItsBaseAlways ==
    ASSUME Digested
    PROVE  SessionSpec => []RestoredOnItsBase
  <1>1. SessionInit => RestoredOnItsBase
    BY DEF SessionInit, RestoredOnItsBase, Open, NoTab
  <1>2. SessionInv /\ RestoredOnItsBase /\ [SessionNext]_sessionVars => RestoredOnItsBase'
    BY RestoredOnItsBaseStep
  <1> QED
    BY <1>1, <1>2, SessionIsConsistent, PTL DEF SessionSpec

-----------------------------------------------------------------------------
(***************************************************************************)
(* No request is mislaid, for any number of processes: whatever launches,   *)
(* binds, takeovers of the name and deaths fall together, a file list is    *)
(* held by one live process, was opened once, or went with its holder or    *)
(* with the window that was to open it.                                    *)
(*                                                                         *)
(* The argument follows a request's way.  It is its process's own until     *)
(* that process has opened it or written all of it; then it waits, once, at *)
(* the one listener its stream leads to; then it is in that listener's      *)
(* channel, and the stream is gone.  What makes the hand-over exact is that *)
(* a client which believes it is connected is still waiting at its listener *)
(* if that listener lives.                                                 *)
(***************************************************************************)

Labels == {"unborn", "probe", "send", "boot", "window", "run", "closed", "exited", "dead"}
Streams == [to : Procs \cup {Nobody}, sent : {"nothing", "prefix", "whole"}]

InstanceTyped ==
    /\ pc \in [Procs -> Labels]
    /\ owner \in Procs \cup {Nobody}
    /\ listening \subseteq Procs
    /\ backlog \in [Procs -> Seq(Procs)]
    /\ reading \in [Procs -> Procs \cup {Nobody}]
    /\ stream \in [Procs -> Streams]
    /\ channel \in [Procs -> Seq(Requests)]
    /\ urls \in [Procs -> Seq(Requests)]
    /\ asked \subseteq Requests
    /\ opened \in [Requests -> Nat]
    /\ lost \subseteq Requests

(* A connection waits at one listener, once. *)
WaitsOnce ==
    \A q \in Procs :
       /\ Distinct(backlog[q])
       /\ reading[q] \notin ToSet(backlog[q])
       /\ \A c \in Waiting(q) :
             q \in listening /\ stream[c].to = q /\ pc[c] \in {"send", "exited", "dead"}

ListenersLive == \A q \in listening : pc[q] \in {"window", "run", "closed"}

(* A client that is sending is still waiting at its listener, if that one   *)
(* lives.                                                                  *)
SenderWaits ==
    \A c \in Procs : pc[c] = "send" =>
       /\ stream[c].to \in Procs
       /\ \A q \in Procs : stream[c].to = q =>
             /\ pc[q] \in {"window", "run", "closed", "dead"}
             /\ q \in listening => c \in Waiting(q)

WholeIsSent == \A c \in Procs : stream[c].sent = "whole" => pc[c] = "exited"

(* What a process has received came from a client whose stream is gone. *)
ReceivedIsApart ==
    \A q \in Procs :
       /\ channel[q] # << >> => pc[q] \in {"window", "run"}
       /\ urls[q] # << >> => pc[q] \in {"boot", "window", "run"}
       /\ \A r \in ToSet(channel[q]) :
             \E c \in Procs : r = FilesOf(c) /\ pc[c] = "exited" /\ stream[c] = NoStream
       /\ ToSet(urls[q]) \subseteq {OpenWith(q)}

AskedFirst ==
    \A p \in Procs :
       /\ pc[p] = "unborn" => FilesOf(p) \notin asked
       /\ pc[p] \in {"probe", "send"} => FilesOf(p) \in asked

(* Where a request is. *)
Holders(r) == {p \in Procs : Live(p) /\ r \in HeldBy(p)}
Untouched(r) == opened[r] = 0 /\ Holders(r) = {} /\ r \notin lost
Settled(r) ==
    \/ opened[r] = 1 /\ Holders(r) = {} /\ r \notin lost
    \/ opened[r] = 0 /\ (\E p \in Procs : Holders(r) = {p}) /\ r \notin lost
    \/ opened[r] = 0 /\ Holders(r) = {} /\ r \in lost
Accounted == \A r \in Requests : IF r \in asked THEN Settled(r) ELSE Untouched(r)

(* The inductive invariant. *)
InstanceInv ==
    /\ InstanceTyped
    /\ WaitsOnce
    /\ ListenersLive
    /\ SenderWaits
    /\ WholeIsSent
    /\ ReceivedIsApart
    /\ AskedFirst
    /\ Accounted

-----------------------------------------------------------------------------
(* Sequences as queues. *)

LEMMA InQueue ==
    ASSUME NEW S, NEW seq \in Seq(S), NEW i \in 1 .. Len(seq)
    PROVE  seq[i] \in ToSet(seq)
  BY DEF ToSet

(* What a queue holds after something joined it. *)
LEMMA Joined ==
    ASSUME NEW S, NEW seq \in Seq(S), NEW x \in S
    PROVE  /\ Append(seq, x) \in Seq(S)
           /\ ToSet(Append(seq, x)) = ToSet(seq) \cup {x}
           /\ Distinct(seq) /\ x \notin ToSet(seq) => Distinct(Append(seq, x))
  <1>1. /\ Append(seq, x) \in Seq(S) /\ Len(Append(seq, x)) = Len(seq) + 1 /\ Len(seq) \in Nat
        /\ Append(seq, x)[Len(seq) + 1] = x
        /\ \A i \in 1 .. Len(seq) : Append(seq, x)[i] = seq[i]
    OBVIOUS
  <1>2. ToSet(Append(seq, x)) = ToSet(seq) \cup {x}
    <2>1. \A y \in ToSet(Append(seq, x)) : y \in ToSet(seq) \cup {x}
      BY <1>1 DEF ToSet
    <2>2. \A y \in ToSet(seq) : y \in ToSet(Append(seq, x))
      BY <1>1 DEF ToSet
    <2>3. x \in ToSet(Append(seq, x))
      BY <1>1 DEF ToSet
    <2> QED
      BY <2>1, <2>2, <2>3
  <1>3. ASSUME Distinct(seq), x \notin ToSet(seq) PROVE Distinct(Append(seq, x))
    <2> SUFFICES ASSUME NEW i \in 1 .. Len(seq) + 1, NEW j \in 1 .. Len(seq) + 1,
                        Append(seq, x)[i] = Append(seq, x)[j]
                 PROVE  i = j
      BY <1>1 DEF Distinct
    <2>1. \A k \in 1 .. Len(seq) : seq[k] # x
      BY <1>3 DEF ToSet
    <2>2. CASE i = Len(seq) + 1
      BY <1>1, <2>1, <2>2
    <2>3. CASE j = Len(seq) + 1
      BY <1>1, <2>1, <2>3
    <2>4. CASE i \in 1 .. Len(seq) /\ j \in 1 .. Len(seq)
      <3>1. seq[i] = seq[j]
        BY <1>1, <2>4
      <3> QED
        BY <1>3, <2>4, <3>1 DEF Distinct
    <2> QED
      BY <1>1, <2>2, <2>3, <2>4
  <1> QED
    BY <1>1, <1>2, <1>3

(* What a queue holds after its head was taken. *)
LEMMA Taken ==
    ASSUME NEW S, NEW seq \in Seq(S), seq # << >>
    PROVE  /\ Head(seq) \in S /\ Tail(seq) \in Seq(S)
           /\ ToSet(seq) = ToSet(Tail(seq)) \cup {Head(seq)}
           /\ Distinct(seq) => Distinct(Tail(seq)) /\ Head(seq) \notin ToSet(Tail(seq))
  <1>1. /\ Head(seq) = seq[1] /\ Head(seq) \in S /\ Tail(seq) \in Seq(S)
        /\ Len(seq) \in Nat \ {0} /\ Len(Tail(seq)) = Len(seq) - 1
        /\ \A i \in 1 .. Len(Tail(seq)) : Tail(seq)[i] = seq[i + 1]
    OBVIOUS
  <1>2. ToSet(seq) = ToSet(Tail(seq)) \cup {Head(seq)}
    <2>1. ASSUME NEW i \in 1 .. Len(seq) PROVE seq[i] \in ToSet(Tail(seq)) \cup {Head(seq)}
      <3>1. CASE i = 1
        BY <1>1, <3>1
      <3>2. CASE i # 1
        <4>1. i - 1 \in 1 .. Len(Tail(seq)) /\ Tail(seq)[i - 1] = seq[i]
          BY <1>1, <3>2
        <4> QED
          BY <1>1, <4>1, InQueue
      <3> QED
        BY <3>1, <3>2
    <2>2. ASSUME NEW i \in 1 .. Len(Tail(seq)) PROVE Tail(seq)[i] \in ToSet(seq)
      <3>1. i + 1 \in 1 .. Len(seq) /\ Tail(seq)[i] = seq[i + 1]
        BY <1>1
      <3> QED
        BY <1>1, <3>1 DEF ToSet
    <2>3. Head(seq) \in ToSet(seq)
      BY <1>1 DEF ToSet
    <2> QED
      BY <1>1, <2>1, <2>2, <2>3, SMTT(60) DEF ToSet
  <1>3. ASSUME Distinct(seq) PROVE Distinct(Tail(seq)) /\ Head(seq) \notin ToSet(Tail(seq))
    <2>1. ASSUME NEW i \in 1 .. Len(Tail(seq)), NEW j \in 1 .. Len(Tail(seq)),
                 Tail(seq)[i] = Tail(seq)[j]
          PROVE  i = j
      <3>1. i + 1 \in 1 .. Len(seq) /\ j + 1 \in 1 .. Len(seq) /\ seq[i + 1] = seq[j + 1]
        BY <1>1, <2>1
      <3>2. i + 1 = j + 1
        BY <1>3, <3>1 DEF Distinct
      <3> QED
        BY <3>2
    <2>2. ASSUME NEW i \in 1 .. Len(Tail(seq)), Tail(seq)[i] = Head(seq) PROVE FALSE
      <3>1. i + 1 \in 1 .. Len(seq) /\ 1 \in 1 .. Len(seq) /\ seq[i + 1] = seq[1]
        BY <1>1, <2>2
      <3>2. i + 1 = 1
        BY <1>3, <3>1 DEF Distinct
      <3> QED
        BY <3>2
    <2> QED
      BY <1>1, <2>1, <2>2 DEF Distinct, ToSet
  <1> QED
    BY <1>1, <1>2, <1>3

LEMMA EmptyQueue == ToSet(<< >>) = {} /\ Distinct(<< >>)
  BY DEF ToSet, Distinct

-----------------------------------------------------------------------------
(* Requests. *)

(* File lists and "Open With" requests are told apart, and by process. *)
LEMMA RequestNames ==
    ASSUME NEW p \in Procs, NEW q \in Procs
    PROVE  /\ FilesOf(p) \in Requests /\ OpenWith(p) \in Requests
           /\ FilesOf(p) # OpenWith(q)
           /\ FilesOf(p) = FilesOf(q) => p = q
           /\ OpenWith(p) = OpenWith(q) => p = q
  BY DEF FilesOf, OpenWith, Requests

(* Connections are processes'. *)
LEMMA ClientsAreProcs ==
    ASSUME InstanceTyped, NEW q \in Procs
    PROVE  Waiting(q) \subseteq Procs
  BY DEF InstanceTyped, ToSet, Waiting

(* What is held is a request. *)
LEMMA HeldAreRequests ==
    ASSUME InstanceTyped, NEW p \in Procs
    PROVE  HeldBy(p) \subseteq Requests
  <1>1. ToSet(channel[p]) \subseteq Requests /\ ToSet(urls[p]) \subseteq Requests
        /\ Waiting(p) \subseteq Procs
    BY DEF InstanceTyped, ToSet, Waiting
  <1> QED
    BY <1>1, RequestNames DEF HeldBy, Own, Delivered

(* A step that moves no request keeps the account. *)
LEMMA NothingMoved ==
    ASSUME Accounted, asked' = asked, opened' = opened, lost' = lost,
           \A p \in Procs : Live(p)' = Live(p),
           \A p \in Procs : Live(p) => HeldBy(p)' = HeldBy(p)
    PROVE  Accounted'
  <1>1. \A r \in Requests : Holders(r)' = Holders(r)
    BY DEF Holders
  <1> QED
    BY <1>1 DEF Accounted, Settled, Untouched

(* Only the listener of its stream can be serving a client. *)
LEMMA OneListener ==
    ASSUME WaitsOnce, NEW q \in Procs, NEW p \in Procs, NEW c \in Waiting(q), c \in Waiting(p)
    PROVE  p = q
  BY DEF WaitsOnce

(* A step of nobody who has received anything, or is gone. *)
LEMMA ReceivedKept ==
    ASSUME ReceivedIsApart, channel' = channel, urls' = urls,
           \A c \in Procs : pc[c] = "exited" /\ stream[c] = NoStream
                            => pc'[c] = "exited" /\ stream'[c] = NoStream,
           \A q \in Procs : pc[q] \in {"window", "run"} => pc'[q] \in {"window", "run"},
           \A q \in Procs : pc[q] = "boot" => pc'[q] \in {"boot", "window", "run"}
    PROVE  ReceivedIsApart'
  <1>1. \A q \in Procs : \A r \in ToSet(channel[q]) :
           \E c \in Procs : r = FilesOf(c) /\ pc'[c] = "exited" /\ stream'[c] = NoStream
    BY DEF ReceivedIsApart
  <1> QED
    BY <1>1 DEF ReceivedIsApart

-----------------------------------------------------------------------------
(* The initial state. *)

LEMMA InstanceStart ==
    ASSUME InstanceInit
    PROVE  InstanceInv
  <1>1. InstanceTyped
    BY ProcsAssumption DEF InstanceInit, InstanceTyped, Labels, Streams, NoStream
  <1>2. \A q \in Procs : ToSet(backlog[q]) = {} /\ Waiting(q) = {} /\ ToSet(channel[q]) = {}
                         /\ ToSet(urls[q]) = {} /\ Distinct(backlog[q]) /\ reading[q] = Nobody
    BY EmptyQueue DEF InstanceInit, Waiting
  <1>3. WaitsOnce /\ ListenersLive /\ SenderWaits /\ ReceivedIsApart /\ AskedFirst
    BY <1>2 DEF InstanceInit, WaitsOnce, ListenersLive, SenderWaits, ReceivedIsApart, AskedFirst
  <1>4. WholeIsSent
    BY DEF InstanceInit, WholeIsSent, NoStream
  <1>5. \A r : Holders(r) = {}
    BY DEF InstanceInit, Holders, Live
  <1>6. Accounted
    BY <1>5 DEF InstanceInit, Accounted, Untouched
  <1> QED
    BY <1>1, <1>3, <1>4, <1>6 DEF InstanceInv

-----------------------------------------------------------------------------
(* The launch. *)

(* A process that was never there holds nothing. *)
LEMMA LaunchKeeps ==
    ASSUME InstanceInv, NEW p \in Procs, Launch(p)
    PROVE  InstanceInv'
  <1> USE DEF InstanceInv
  <1>1. /\ owner' = owner /\ listening' = listening /\ backlog' = backlog /\ reading' = reading
        /\ channel' = channel /\ urls' = urls /\ stream' = stream /\ opened' = opened /\ lost' = lost
        /\ pc[p] = "unborn"
    BY DEF Launch, arrivals
  <1>2. \/ pc' = [pc EXCEPT ![p] = "probe"] /\ asked' = asked \cup {FilesOf(p)}
        \/ pc' = [pc EXCEPT ![p] = "boot"] /\ asked' = asked
    BY DEF Launch, Goto
  <1>3. /\ pc'[p] \in {"probe", "boot"} /\ \A q \in Procs \ {p} : pc'[q] = pc[q]
        /\ asked \subseteq asked'
        /\ \A q \in Procs \ {p} : FilesOf(q) \in asked' <=> FilesOf(q) \in asked
        /\ pc'[p] = "probe" => FilesOf(p) \in asked'
    BY <1>2, RequestNames DEF InstanceTyped
  <1>4. InstanceTyped'
    BY <1>1, <1>2, RequestNames DEF InstanceTyped, Labels
  <1>5. \A q \in Procs : Waiting(q)' = Waiting(q)
    BY <1>1 DEF Waiting
  <1>6. p \notin listening /\ Waiting(p) = {} /\ channel[p] = << >> /\ urls[p] = << >>
    BY <1>1 DEF ListenersLive, WaitsOnce, ReceivedIsApart
  <1>7. WaitsOnce'
    <2>1. \A q \in Procs : \A c \in Waiting(q) : pc'[c] = pc[c]
      BY <1>1, <1>3, ClientsAreProcs DEF WaitsOnce
    <2> QED
      BY <1>1, <1>5, <2>1 DEF WaitsOnce
  <1>8. ListenersLive' /\ WholeIsSent' /\ AskedFirst'
    BY <1>1, <1>3, <1>6 DEF ListenersLive, WholeIsSent, AskedFirst, InstanceTyped
  <1>9. SenderWaits'
    BY <1>1, <1>3, <1>5 DEF SenderWaits
  <1>10. ReceivedIsApart'
    BY <1>1, <1>3, ReceivedKept
  <1>11. \A q \in Procs \ {p} : Live(q)' = Live(q) /\ HeldBy(q)' = HeldBy(q)
    BY <1>1, <1>3, <1>5 DEF Live, HeldBy, Own, Delivered
  <1>12. ~Live(p) /\ Live(p)' /\ HeldBy(p)' = {FilesOf(p)} \cap asked'
    <2>1. Delivered(p)' = {} /\ ToSet(channel[p])' = {} /\ ToSet(urls[p])' = {}
      BY <1>1, <1>5, <1>6, EmptyQueue DEF Delivered
    <2> QED
      BY <1>1, <1>3, <2>1 DEF Live, HeldBy, Own
  <1>13. Accounted'
    <2> SUFFICES ASSUME NEW r \in Requests
                 PROVE  IF r \in asked' THEN Settled(r)' ELSE Untouched(r)'
      BY DEF Accounted
    <2>1. CASE r \in asked' /\ r \notin asked
      <3>1. r = FilesOf(p)
        BY <1>2, <2>1
      <3>2. Untouched(r)
        BY <2>1 DEF Accounted
      <3>3. Holders(r)' = {p}
        BY <1>11, <1>12, <2>1, <3>1, <3>2 DEF Holders, Untouched
      <3> QED
        BY <1>1, <2>1, <3>2, <3>3 DEF Settled, Untouched
    <2>2. CASE r \in asked' <=> r \in asked
      <3>1. r \notin HeldBy(p)'
        <4>1. CASE FilesOf(p) \in asked'
          BY <1>1, <2>2, <1>12, <4>1 DEF AskedFirst
        <4>2. CASE FilesOf(p) \notin asked'
          BY <1>12, <4>2
        <4> QED
          BY <4>1, <4>2
      <3>2. Holders(r)' = Holders(r)
        BY <1>11, <1>12, <3>1 DEF Holders
      <3> QED
        BY <1>1, <2>2, <3>2 DEF Accounted, Settled, Untouched
    <2> QED
      BY <1>3, <2>1, <2>2
  <1> QED
    BY <1>4, <1>7, <1>8, <1>9, <1>10, <1>13

(* A client that connects waits at the owner; its request is still its own. *)
LEMMA ConnectKeeps ==
    ASSUME InstanceInv, NEW p \in Procs, Connect(p)
    PROVE  InstanceInv'
  <1> USE DEF InstanceInv
  <1>1. /\ owner' = owner /\ listening' = listening /\ reading' = reading
        /\ channel' = channel /\ urls' = urls /\ opened' = opened /\ lost' = lost /\ asked' = asked
        /\ pc[p] = "probe" /\ FilesOf(p) \in asked
    BY DEF Connect, requestSide, AskedFirst
  <1>2. \A q \in Procs : p \notin Waiting(q)
    BY <1>1 DEF WaitsOnce
  <1>3. ASSUME NEW label \in {"send", "boot"}, pc' = [pc EXCEPT ![p] = label]
        PROVE  /\ pc'[p] = label /\ \A q \in Procs \ {p} : pc'[q] = pc[q]
               /\ \A q \in Procs : pc[q] = "exited" => pc'[q] = "exited"
               /\ \A q \in Procs : Live(q)' = Live(q) /\ Own(q)' = Own(q)
               /\ ListenersLive' /\ AskedFirst'
    <2>1. pc'[p] = label /\ \A q \in Procs \ {p} : pc'[q] = pc[q]
      BY <1>3 DEF InstanceTyped
    <2> QED
      BY <1>1, <2>1 DEF Live, Own, ListenersLive, AskedFirst, InstanceTyped
  <1>4. CASE owner \in listening
    <2>1. /\ pc' = [pc EXCEPT ![p] = "send"]
          /\ backlog' = [backlog EXCEPT ![owner] = Append(@, p)]
          /\ stream' = [stream EXCEPT ![p] = [to |-> owner, sent |-> "nothing"]]
      BY <1>4 DEF Connect, Goto
    <2>2. PICK o \in listening : o = owner
      BY <1>4
    <2>3. o \in Procs /\ pc[o] \in {"window", "run", "closed"} /\ o # p
      BY <1>1, <2>2 DEF ListenersLive, InstanceTyped
    <2>4. /\ backlog'[o] = Append(backlog[o], p) /\ \A q \in Procs \ {o} : backlog'[q] = backlog[q]
          /\ stream'[p] = [to |-> o, sent |-> "nothing"]
          /\ \A q \in Procs \ {p} : stream'[q] = stream[q]
      BY <2>1, <2>2, <2>3 DEF InstanceTyped
    <2>5. /\ backlog[o] \in Seq(Procs) /\ backlog'[o] \in Seq(Procs)
          /\ ToSet(backlog'[o]) = ToSet(backlog[o]) \cup {p} /\ Distinct(backlog'[o])
          /\ reading[o] # p
      BY <1>2, <2>3, <2>4, Joined, ProcsAssumption DEF InstanceTyped, WaitsOnce, Waiting
    <2>6. Waiting(o)' = Waiting(o) \cup {p} /\ \A q \in Procs \ {o} : Waiting(q)' = Waiting(q)
      BY <1>1, <2>4, <2>5 DEF Waiting
    <2>7. InstanceTyped'
      BY <1>1, <2>1, <2>2, <2>3, <2>5 DEF InstanceTyped, Labels, Streams
    <2>8. /\ pc'[p] = "send" /\ \A q \in Procs \ {p} : pc'[q] = pc[q]
          /\ \A q \in Procs : Live(q)' = Live(q) /\ Own(q)' = Own(q)
          /\ ListenersLive' /\ AskedFirst'
      BY <1>3, <2>1
    <2>9. WaitsOnce'
      <3>1. ASSUME NEW q \in Procs
            PROVE  Distinct(backlog'[q]) /\ reading'[q] \notin ToSet(backlog'[q])
        BY <1>1, <2>4, <2>5, ZenonT(60) DEF WaitsOnce
      <3>2. ASSUME NEW q \in Procs, NEW c \in Waiting(q)'
            PROVE  q \in listening' /\ stream'[c].to = q /\ pc'[c] \in {"send", "exited", "dead"}
        <4>1. CASE c = p
          <5>1. q = o
            BY <1>2, <2>6, <3>2, <4>1
          <5> QED
            BY <1>1, <2>2, <2>4, <2>8, <4>1, <5>1
        <4>2. CASE c # p
          <5>1. c \in Waiting(q) /\ c \in Procs
            BY <2>6, <3>2, <4>2, ClientsAreProcs
          <5> QED
            BY <1>1, <2>4, <2>8, <4>2, <5>1 DEF WaitsOnce
        <4> QED
          BY <4>1, <4>2
      <3> QED
        BY <3>1, <3>2 DEF WaitsOnce
    <2>10. SenderWaits'
      <3> SUFFICES ASSUME NEW c \in Procs, pc'[c] = "send"
                   PROVE  /\ stream'[c].to \in Procs
                          /\ \A q \in Procs : stream'[c].to = q =>
                                /\ pc'[q] \in {"window", "run", "closed", "dead"}
                                /\ q \in listening' => c \in Waiting(q)'
        BY DEF SenderWaits
      <3>1. CASE c = p
        BY <2>3, <2>4, <2>6, <2>8, <3>1
      <3>2. CASE c # p
        <4>1. stream'[c] = stream[c] /\ pc[c] = "send"
          BY <2>4, <2>8, <3>2
        <4>2. \A q \in Procs : pc[q] \in {"window", "run", "closed", "dead"} => pc'[q] = pc[q]
          BY <1>1, <2>8
        <4>3. \A q \in Procs : Waiting(q) \subseteq Waiting(q)'
          BY <2>6
        <4> QED
          BY <1>1, <4>1, <4>2, <4>3 DEF SenderWaits
      <3> QED
        BY <3>1, <3>2
    <2>11. WholeIsSent'
      BY <2>4, <2>8 DEF WholeIsSent
    <2>12. ReceivedIsApart'
      BY <1>1, <2>4, <2>8, ReceivedKept
    <2>13. \A q \in Procs : Delivered(q)' = Delivered(q)
      <3> SUFFICES ASSUME NEW q \in Procs
                   PROVE  {c \in Waiting(q)' : stream'[c].sent = "whole"}
                          = {c \in Waiting(q) : stream[c].sent = "whole"}
        BY DEF Delivered
      <3>1. \A c \in Waiting(q) : stream'[c] = stream[c]
        BY <1>2, <2>4, ClientsAreProcs
      <3>2. \A c \in Waiting(q)' : c \in Waiting(q) \/ c = p
        BY <2>6
      <3>3. stream'[p].sent # "whole" /\ Waiting(q) \subseteq Waiting(q)'
        BY <2>4, <2>6
      <3> QED
        BY <3>1, <3>2, <3>3
    <2>14. Accounted'
      <3>1. \A q \in Procs : HeldBy(q)' = HeldBy(q)
        BY <1>1, <2>8, <2>13 DEF HeldBy
      <3> QED
        BY <1>1, <2>8, <3>1, NothingMoved
    <2> QED
      BY <2>7, <2>8, <2>9, <2>10, <2>11, <2>12, <2>14
  <1>5. CASE owner \notin listening
    <2>1. pc' = [pc EXCEPT ![p] = "boot"] /\ backlog' = backlog /\ stream' = stream
      BY <1>5 DEF Connect, Goto
    <2>2. /\ pc'[p] = "boot" /\ \A q \in Procs \ {p} : pc'[q] = pc[q]
          /\ \A q \in Procs : Live(q)' = Live(q) /\ Own(q)' = Own(q)
          /\ ListenersLive' /\ AskedFirst'
      BY <1>3, <2>1
    <2>3. InstanceTyped'
      BY <1>1, <2>1 DEF InstanceTyped, Labels
    <2>4. \A q \in Procs : Waiting(q)' = Waiting(q) /\ Delivered(q)' = Delivered(q)
      BY <1>1, <2>1 DEF Waiting, Delivered
    <2>5. WaitsOnce'
      <3>1. \A q \in Procs : \A c \in Waiting(q) : pc'[c] = pc[c]
        BY <1>2, <2>2, ClientsAreProcs
      <3> QED
        BY <1>1, <2>1, <2>4, <3>1 DEF WaitsOnce
    <2>6. SenderWaits' /\ WholeIsSent'
      BY <1>1, <2>1, <2>2, <2>4 DEF SenderWaits, WholeIsSent
    <2>7. ReceivedIsApart'
      BY <1>1, <2>1, <2>2, ReceivedKept
    <2>8. Accounted'
      <3>1. \A q \in Procs : HeldBy(q)' = HeldBy(q)
        BY <1>1, <2>2, <2>4 DEF HeldBy
      <3> QED
        BY <1>1, <2>2, <3>1, NothingMoved
    <2> QED
      BY <2>2, <2>3, <2>5, <2>6, <2>7, <2>8
  <1> QED
    BY <1>4, <1>5

(* A message that is written in full changes hands: the client gives it up  *)
(* and the listener, where the client still waits, has it.  A client whose  *)
(* listener is gone waits nowhere.                                         *)
LEMMA SendKeeps ==
    ASSUME InstanceInv, NEW p \in Procs, Send(p)
    PROVE  InstanceInv'
  <1> USE DEF InstanceInv
  <1>1. /\ owner' = owner /\ listening' = listening /\ backlog' = backlog /\ reading' = reading
        /\ channel' = channel /\ urls' = urls /\ opened' = opened /\ lost' = lost /\ asked' = asked
        /\ pc[p] = "send" /\ FilesOf(p) \in asked
    BY DEF Send, arrivals, requestSide, AskedFirst
  <1>2. PICK o \in Procs : stream[p].to = o
    BY <1>1 DEF SenderWaits
  <1>3. /\ pc[o] \in {"window", "run", "closed", "dead"} /\ o # p
        /\ o \in listening => p \in Waiting(o)
        /\ stream[p].sent # "whole" /\ stream[p] \in Streams
    BY <1>1, <1>2 DEF SenderWaits, WholeIsSent, InstanceTyped
  <1>4. \A q \in Procs : Waiting(q)' = Waiting(q)
    BY <1>1 DEF Waiting
  <1>5. CASE o \notin listening
    <2>1. pc' = [pc EXCEPT ![p] = "boot"] /\ stream' = [stream EXCEPT ![p] = NoStream]
      BY <1>2, <1>5 DEF Send, Goto
    <2>2. /\ pc'[p] = "boot" /\ \A q \in Procs \ {p} : pc'[q] = pc[q] /\ stream'[q] = stream[q]
          /\ stream'[p] = NoStream
      BY <2>1 DEF InstanceTyped
    <2>3. \A q \in Procs : p \notin Waiting(q)
      BY <1>2, <1>5 DEF WaitsOnce
    <2>4. InstanceTyped'
      BY <1>1, <2>1 DEF InstanceTyped, Labels, Streams, NoStream
    <2>5. WaitsOnce'
      <3>1. \A q \in Procs : \A c \in Waiting(q) : pc'[c] = pc[c] /\ stream'[c] = stream[c]
        BY <2>2, <2>3, ClientsAreProcs
      <3> QED
        BY <1>1, <1>4, <3>1 DEF WaitsOnce
    <2>6. ListenersLive' /\ AskedFirst' /\ WholeIsSent'
      <3>1. ListenersLive' /\ AskedFirst'
        BY <1>1, <2>2 DEF ListenersLive, AskedFirst, InstanceTyped
      <3>2. NoStream.sent # "whole"
        BY DEF NoStream
      <3>3. WholeIsSent'
        BY <2>2, <3>2 DEF WholeIsSent
      <3> QED
        BY <3>1, <3>3
    <2>7. SenderWaits'
      BY <1>1, <1>4, <2>2 DEF SenderWaits
    <2>8. ReceivedIsApart'
      BY <1>1, <2>2, ReceivedKept
    <2>9. Accounted'
      <3>1. \A q \in Procs : Live(q)' = Live(q) /\ Own(q)' = Own(q)
        BY <1>1, <2>2 DEF Live, Own
      <3>2. \A q \in Procs : \A c \in Waiting(q) : stream'[c] = stream[c]
        BY <2>2, <2>3, ClientsAreProcs
      <3>3. \A q \in Procs : Delivered(q)' = Delivered(q)
        BY <1>4, <3>2 DEF Delivered
      <3>4. \A q \in Procs : HeldBy(q)' = HeldBy(q)
        BY <1>1, <3>1, <3>3 DEF HeldBy
      <3> QED
        BY <1>1, <3>1, <3>4, NothingMoved
    <2> QED
      BY <2>4, <2>5, <2>6, <2>7, <2>8, <2>9
  <1>6. CASE o \in listening /\ stream[p].sent = "nothing"
    <2>1. pc' = pc /\ stream' = [stream EXCEPT ![p].sent = "prefix"]
      BY <1>2, <1>6 DEF Send
    <2>2. /\ stream'[p] = [stream[p] EXCEPT !.sent = "prefix"]
          /\ \A q \in Procs \ {p} : stream'[q] = stream[q]
      BY <2>1 DEF InstanceTyped
    <2>3. stream'[p].to = o /\ stream'[p].sent = "prefix" /\ stream'[p] \in Streams
      BY <1>2, <1>3, <2>2 DEF Streams
    <2>4. InstanceTyped'
      BY <1>1, <2>1, <2>3 DEF InstanceTyped
    <2>5. \A c \in Procs : stream'[c].to = stream[c].to /\ (stream'[c].sent = "whole" <=> stream[c].sent = "whole")
      BY <1>2, <1>3, <2>2, <2>3
    <2>6. WaitsOnce'
      BY <1>1, <1>4, <2>1, <2>5, ClientsAreProcs DEF WaitsOnce
    <2>7. ListenersLive' /\ AskedFirst' /\ WholeIsSent'
      BY <1>1, <2>1, <2>5 DEF ListenersLive, AskedFirst, WholeIsSent
    <2>8. SenderWaits'
      BY <1>1, <1>4, <2>1, <2>5 DEF SenderWaits
    <2>9. ReceivedIsApart'
      BY <1>1, <2>1, <2>2, ReceivedKept
    <2>10. Accounted'
      <3>1. \A q \in Procs : Live(q)' = Live(q) /\ Own(q)' = Own(q)
        BY <1>1, <2>1 DEF Live, Own
      <3>2. \A q \in Procs : {c \in Waiting(q)' : stream'[c].sent = "whole"}
                             = {c \in Waiting(q) : stream[c].sent = "whole"}
        BY <1>4, <2>5, ClientsAreProcs
      <3>3. \A q \in Procs : Delivered(q)' = Delivered(q)
        BY <3>2 DEF Delivered
      <3>4. \A q \in Procs : HeldBy(q)' = HeldBy(q)
        BY <1>1, <3>1, <3>3 DEF HeldBy
      <3> QED
        BY <1>1, <3>1, <3>4, NothingMoved
    <2> QED
      BY <2>4, <2>6, <2>7, <2>8, <2>9, <2>10
  <1>7. CASE o \in listening /\ stream[p].sent # "nothing"
    <2>1. pc' = [pc EXCEPT ![p] = "exited"] /\ stream' = [stream EXCEPT ![p].sent = "whole"]
      BY <1>2, <1>7 DEF Send, Goto
    <2>2. /\ stream'[p] = [stream[p] EXCEPT !.sent = "whole"]
          /\ pc'[p] = "exited"
          /\ \A q \in Procs \ {p} : stream'[q] = stream[q] /\ pc'[q] = pc[q]
      BY <2>1 DEF InstanceTyped
    <2>3. stream'[p].to = o /\ stream'[p].sent = "whole" /\ stream'[p] \in Streams
      BY <1>2, <1>3, <2>2 DEF Streams
    <2>4. InstanceTyped'
      BY <1>1, <2>1, <2>3 DEF InstanceTyped, Labels
    <2>5. WaitsOnce'
      <3>1. \A c \in Procs : /\ stream'[c].to = stream[c].to
                             /\ pc[c] \in {"send", "exited", "dead"}
                                => pc'[c] \in {"send", "exited", "dead"}
        BY <1>2, <2>2, <2>3
      <3> QED
        BY <1>1, <1>4, <3>1, ClientsAreProcs DEF WaitsOnce
    <2>6. ListenersLive' /\ AskedFirst' /\ WholeIsSent'
      BY <1>1, <2>2 DEF ListenersLive, AskedFirst, WholeIsSent, InstanceTyped
    <2>7. SenderWaits'
      BY <1>1, <1>4, <2>2 DEF SenderWaits
    <2>8. ReceivedIsApart'
      BY <1>1, <2>2, ReceivedKept
    <2>9. /\ \A q \in Procs \ {p} : Live(q)' = Live(q) /\ Own(q)' = Own(q)
          /\ Live(p) /\ ~Live(p)' /\ FilesOf(p) \in HeldBy(p) /\ HeldBy(p) \subseteq {FilesOf(p)}
      <3>1. p \notin listening /\ Waiting(p) = {} /\ channel[p] = << >> /\ urls[p] = << >>
        BY <1>1 DEF ListenersLive, WaitsOnce, ReceivedIsApart
      <3> QED
        BY <1>1, <2>2, <3>1, EmptyQueue DEF Live, Own, HeldBy, Delivered
    <2>10. /\ Delivered(o)' = Delivered(o) \cup {FilesOf(p)}
           /\ \A q \in Procs \ {o} : Delivered(q)' = Delivered(q)
      <3>1. p \in Waiting(o) /\ \A q \in Procs \ {o} : p \notin Waiting(q)
        BY <1>3, <1>7, OneListener
      <3>2. {c \in Waiting(o)' : stream'[c].sent = "whole"}
            = {c \in Waiting(o) : stream[c].sent = "whole"} \cup {p}
        <4>1. \A c \in Waiting(o) \ {p} : stream'[c] = stream[c]
          BY <2>2, ClientsAreProcs
        <4> QED
          BY <1>4, <2>3, <3>1, <4>1
      <3>3. \A q \in Procs \ {o} : {c \in Waiting(q)' : stream'[c].sent = "whole"}
                                   = {c \in Waiting(q) : stream[c].sent = "whole"}
        BY <1>4, <2>2, <3>1, ClientsAreProcs
      <3> QED
        BY <3>2, <3>3 DEF Delivered
    <2>11. /\ HeldBy(o)' = HeldBy(o) \cup {FilesOf(p)}
           /\ \A q \in Procs \ {o, p} : HeldBy(q)' = HeldBy(q)
      BY <1>1, <1>3, <2>9, <2>10 DEF HeldBy
    <2>12. Live(o) /\ Live(o)'
      BY <1>3, <1>7, <2>2 DEF Live, ListenersLive
    <2>13. Accounted'
      <3> SUFFICES ASSUME NEW r \in Requests
                   PROVE  IF r \in asked' THEN Settled(r)' ELSE Untouched(r)'
        BY DEF Accounted
      <3>1. CASE r = FilesOf(p)
        <4>1. p \in Holders(r)
          BY <2>9, <3>1 DEF Holders
        <4>2. opened[r] = 0 /\ Holders(r) = {p} /\ r \notin lost /\ r \in asked
          BY <1>1, <3>1, <4>1 DEF Accounted, Settled
        <4>3. Holders(r)' = {o}
          BY <2>9, <2>11, <2>12, <3>1, <4>2 DEF Holders
        <4> QED
          BY <1>1, <4>2, <4>3 DEF Settled
      <3>2. CASE r # FilesOf(p)
        <4>1. Holders(r)' = Holders(r)
          BY <2>9, <2>11, <3>2, <2>12 DEF Holders
        <4> QED
          BY <1>1, <4>1 DEF Accounted, Settled, Untouched
      <3> QED
        BY <3>1, <3>2
    <2> QED
      BY <2>4, <2>5, <2>6, <2>7, <2>8, <2>13
  <1> QED
    BY <1>5, <1>6, <1>7

(* Binding, or going on without a listener. *)
LEMMA BindKeeps ==
    ASSUME InstanceInv, NEW p \in Procs, Bind(p)
    PROVE  InstanceInv'
  <1> USE DEF InstanceInv
  <1>1. /\ backlog' = backlog /\ reading' = reading /\ stream' = stream
        /\ channel' = channel /\ urls' = urls /\ opened' = opened /\ lost' = lost /\ asked' = asked
        /\ pc[p] = "boot" /\ pc' = [pc EXCEPT ![p] = "window"]
        /\ listening \subseteq listening' /\ listening' \subseteq listening \cup {p}
        /\ owner' \in {owner, p}
    BY DEF Bind, Goto, arrivals, requestSide
  <1>2. pc'[p] = "window" /\ \A q \in Procs \ {p} : pc'[q] = pc[q]
    BY <1>1 DEF InstanceTyped
  <1>3. \A q \in Procs : Waiting(q)' = Waiting(q) /\ Delivered(q)' = Delivered(q)
    BY <1>1 DEF Waiting, Delivered
  <1>4. InstanceTyped'
    BY <1>1 DEF InstanceTyped, Labels
  <1>5. WaitsOnce'
    <2>1. \A q \in Procs : \A c \in Waiting(q) : pc'[c] = pc[c]
      BY <1>1, <1>2, ClientsAreProcs DEF WaitsOnce
    <2> QED
      BY <1>1, <1>3, <2>1 DEF WaitsOnce
  <1>6. ListenersLive' /\ AskedFirst' /\ WholeIsSent'
    BY <1>1, <1>2 DEF ListenersLive, AskedFirst, WholeIsSent, InstanceTyped
  <1>7. SenderWaits'
    BY <1>1, <1>2, <1>3 DEF SenderWaits
  <1>8. ReceivedIsApart'
    BY <1>1, <1>2, ReceivedKept
  <1>9. Accounted'
    <2>1. \A q \in Procs : Live(q)' = Live(q) /\ Own(q)' = Own(q)
      BY <1>1, <1>2 DEF Live, Own
    <2>2. \A q \in Procs : HeldBy(q)' = HeldBy(q)
      BY <1>1, <1>3, <2>1 DEF HeldBy
    <2> QED
      BY <1>1, <2>1, <2>2, NothingMoved
  <1> QED
    BY <1>4, <1>5, <1>6, <1>7, <1>8, <1>9

(* A process's own file list is nowhere else when its window opens it. *)
LEMMA OwnIsApart ==
    ASSUME InstanceInv, NEW p \in Procs, pc[p] # "exited"
    PROVE  \A q \in Procs : /\ FilesOf(p) \notin Delivered(q)
                            /\ FilesOf(p) \notin ToSet(channel[q])
                            /\ FilesOf(p) \notin ToSet(urls[q])
  <1> SUFFICES ASSUME NEW q \in Procs
               PROVE  /\ FilesOf(p) \notin Delivered(q)
                      /\ FilesOf(p) \notin ToSet(channel[q])
                      /\ FilesOf(p) \notin ToSet(urls[q])
    OBVIOUS
  <1>1. \A c \in Waiting(q) : stream[c].sent = "whole" => c # p
    BY ClientsAreProcs DEF InstanceInv, WholeIsSent
  <1>2. FilesOf(p) \notin Delivered(q)
    BY <1>1, RequestNames, ClientsAreProcs DEF Delivered, InstanceInv
  <1>3. FilesOf(p) \notin ToSet(channel[q])
    BY RequestNames DEF InstanceInv, ReceivedIsApart
  <1>4. FilesOf(p) \notin ToSet(urls[q])
    BY RequestNames DEF InstanceInv, ReceivedIsApart
  <1> QED
    BY <1>2, <1>3, <1>4

LEMMA OpenWindowKeeps ==
    ASSUME InstanceInv, NEW p \in Procs, OpenWindow(p)
    PROVE  InstanceInv'
  <1> USE DEF InstanceInv
  <1>1. /\ owner' = owner /\ listening' = listening /\ backlog' = backlog /\ reading' = reading
        /\ channel' = channel /\ urls' = urls /\ stream' = stream /\ asked' = asked /\ lost' = lost
        /\ pc[p] = "window" /\ pc' = [pc EXCEPT ![p] = "run"]
        /\ opened' = Bump(opened, {FilesOf(p)} \cap asked)
    BY DEF OpenWindow, Goto, arrivals
  <1>2. pc'[p] = "run" /\ \A q \in Procs \ {p} : pc'[q] = pc[q]
    BY <1>1 DEF InstanceTyped
  <1>3. \A q \in Procs : Waiting(q)' = Waiting(q) /\ Delivered(q)' = Delivered(q)
    BY <1>1 DEF Waiting, Delivered
  <1>4. \A r \in Requests : opened'[r] = opened[r] + IF r \in {FilesOf(p)} \cap asked THEN 1 ELSE 0
    BY <1>1 DEF Bump
  <1>5. InstanceTyped'
    <2>1. opened' \in [Requests -> Nat]
      BY <1>1 DEF Bump, InstanceTyped
    <2> QED
      BY <1>1, <2>1 DEF InstanceTyped, Labels
  <1>6. WaitsOnce'
    <2>1. \A q \in Procs : \A c \in Waiting(q) : pc'[c] = pc[c]
      BY <1>1, <1>2, ClientsAreProcs DEF WaitsOnce
    <2> QED
      BY <1>1, <1>3, <2>1 DEF WaitsOnce
  <1>7. ListenersLive' /\ AskedFirst' /\ WholeIsSent'
    BY <1>1, <1>2 DEF ListenersLive, AskedFirst, WholeIsSent, InstanceTyped
  <1>8. SenderWaits'
    BY <1>1, <1>2, <1>3 DEF SenderWaits
  <1>9. ReceivedIsApart'
    BY <1>1, <1>2, ReceivedKept
  <1>10. /\ \A q \in Procs : Live(q)' = Live(q)
         /\ \A q \in Procs \ {p} : HeldBy(q)' = HeldBy(q)
         /\ HeldBy(p)' = HeldBy(p) \ ({FilesOf(p)} \cap asked)
         /\ FilesOf(p) \in asked => FilesOf(p) \in HeldBy(p)
    <2>1. Own(p) = {FilesOf(p)} \cap asked /\ Own(p)' = {}
      BY <1>1, <1>2 DEF Own
    <2> QED
      BY <1>1, <1>2, <1>3, <2>1, OwnIsApart DEF Live, HeldBy, Own
  <1>11. Accounted'
    <2> SUFFICES ASSUME NEW r \in Requests
                 PROVE  IF r \in asked' THEN Settled(r)' ELSE Untouched(r)'
      BY DEF Accounted
    <2>1. CASE r = FilesOf(p) /\ r \in asked
      <3>1. p \in Holders(r)
        BY <1>1, <1>10, <2>1 DEF Holders, Live
      <3>2. opened[r] = 0 /\ Holders(r) = {p} /\ r \notin lost
        BY <2>1, <3>1 DEF Accounted, Settled
      <3>3. Holders(r)' = {}
        BY <1>10, <2>1, <3>2 DEF Holders
      <3> QED
        BY <1>1, <1>4, <2>1, <3>2, <3>3 DEF Settled
    <2>2. CASE ~(r = FilesOf(p) /\ r \in asked)
      <3>1. Holders(r)' = Holders(r)
        BY <1>10, <2>2 DEF Holders
      <3>2. opened'[r] = opened[r]
        BY <1>4, <2>2 DEF InstanceTyped
      <3> QED
        BY <1>1, <3>1, <3>2 DEF Accounted, Settled, Untouched
    <2> QED
      BY <2>1, <2>2
  <1> QED
    BY <1>5, <1>6, <1>7, <1>8, <1>9, <1>11

-----------------------------------------------------------------------------
(* The listener thread. *)

(* Accepting a connection does not change who waits. *)
LEMMA AcceptKeeps ==
    ASSUME InstanceInv, NEW p \in Procs, Accept(p)
    PROVE  InstanceInv'
  <1> USE DEF InstanceInv
  <1>1. /\ pc' = pc /\ owner' = owner /\ listening' = listening /\ stream' = stream
        /\ channel' = channel /\ urls' = urls /\ opened' = opened /\ lost' = lost /\ asked' = asked
        /\ reading[p] = Nobody /\ backlog[p] # << >>
        /\ reading' = [reading EXCEPT ![p] = Head(backlog[p])]
        /\ backlog' = [backlog EXCEPT ![p] = Tail(@)]
    BY DEF Accept, requestSide
  <1>2. /\ reading'[p] = Head(backlog[p]) /\ backlog'[p] = Tail(backlog[p])
        /\ \A q \in Procs \ {p} : reading'[q] = reading[q] /\ backlog'[q] = backlog[q]
    BY <1>1 DEF InstanceTyped
  <1>3. /\ Head(backlog[p]) \in Procs /\ Tail(backlog[p]) \in Seq(Procs)
        /\ ToSet(backlog[p]) = ToSet(Tail(backlog[p])) \cup {Head(backlog[p])}
        /\ Distinct(Tail(backlog[p])) /\ Head(backlog[p]) \notin ToSet(Tail(backlog[p]))
    BY <1>1, Taken DEF InstanceTyped, WaitsOnce
  <1>4. \A q \in Procs : Waiting(q)' = Waiting(q)
    BY <1>1, <1>2, <1>3, ProcsAssumption DEF Waiting
  <1>5. InstanceTyped'
    BY <1>1, <1>3 DEF InstanceTyped
  <1>6. WaitsOnce'
    BY <1>1, <1>2, <1>3, <1>4 DEF WaitsOnce
  <1>7. ListenersLive' /\ AskedFirst' /\ WholeIsSent' /\ SenderWaits' /\ ReceivedIsApart'
    <2>1. ListenersLive' /\ AskedFirst' /\ WholeIsSent'
      BY <1>1 DEF ListenersLive, AskedFirst, WholeIsSent
    <2>2. SenderWaits'
      BY <1>1, <1>4 DEF SenderWaits
    <2>3. ReceivedIsApart'
      BY <1>1 DEF ReceivedIsApart
    <2> QED
      BY <2>1, <2>2, <2>3
  <1>8. Accounted'
    <2>1. \A q \in Procs : Live(q)' = Live(q) /\ HeldBy(q)' = HeldBy(q)
      BY <1>1, <1>4 DEF Live, HeldBy, Own, Delivered
    <2> QED
      BY <1>1, <2>1, NothingMoved
  <1> QED
    BY <1>5, <1>6, <1>7, <1>8

(* A whole message moves from the stream to the channel; a client that went *)
(* away without one had nothing waiting.                                   *)
LEMMA ReadMessageKeeps ==
    ASSUME InstanceInv, NEW p \in Procs, ReadMessage(p)
    PROVE  InstanceInv'
  <1> USE DEF InstanceInv
  <1>1. PICK c \in Procs : c = reading[p]
    BY DEF ReadMessage, InstanceTyped
  <1>2. /\ pc' = pc /\ owner' = owner /\ listening' = listening /\ backlog' = backlog
        /\ urls' = urls /\ opened' = opened /\ lost' = lost /\ asked' = asked
        /\ p \in listening
        /\ reading' = [reading EXCEPT ![p] = Nobody]
        /\ stream' = [stream EXCEPT ![c] = NoStream]
        /\ \/ /\ stream[c].sent = "whole" /\ pc[p] # "closed"
              /\ channel' = [channel EXCEPT ![p] = Append(@, FilesOf(c))]
           \/ stream[c].sent # "whole" /\ ~Live(c) /\ channel' = channel
    BY <1>1 DEF ReadMessage, requestSide
  <1>3. /\ reading'[p] = Nobody /\ \A q \in Procs \ {p} : reading'[q] = reading[q]
        /\ stream'[c] = NoStream /\ \A q \in Procs \ {c} : stream'[q] = stream[q]
    BY <1>2 DEF InstanceTyped
  <1>4. /\ c \in Waiting(p) /\ \A q \in Procs \ {p} : c \notin Waiting(q)
        /\ pc[c] \in {"send", "exited", "dead"} /\ c \notin ToSet(backlog[p])
    BY <1>1, OneListener, ProcsAssumption DEF Waiting, WaitsOnce
  <1>5. Waiting(p)' = Waiting(p) \ {c} /\ \A q \in Procs \ {p} : Waiting(q)' = Waiting(q)
    BY <1>1, <1>2, <1>3, <1>4 DEF Waiting
  <1>6. pc[c] \in {"exited", "dead"}
    BY <1>2, <1>4 DEF WholeIsSent, Live
  <1>7. InstanceTyped'
    <2>1. stream' \in [Procs -> Streams] /\ reading' \in [Procs -> Procs \cup {Nobody}]
      BY <1>2 DEF InstanceTyped, Streams, NoStream
    <2>2. channel' \in [Procs -> Seq(Requests)]
      <3>1. channel[p] \in Seq(Requests) /\ FilesOf(c) \in Requests
        BY RequestNames DEF InstanceTyped
      <3>2. Append(channel[p], FilesOf(c)) \in Seq(Requests)
        BY <3>1
      <3> QED
        BY <1>2, <3>2 DEF InstanceTyped
    <2> QED
      BY <1>2, <2>1, <2>2 DEF InstanceTyped
  <1>8. WaitsOnce'
    <2>1. \A q \in Procs : \A d \in Waiting(q)' : d \in Waiting(q) /\ d # c /\ d \in Procs
      BY <1>4, <1>5, ClientsAreProcs
    <2>2. \A q \in Procs : reading'[q] \notin ToSet(backlog[q])
      BY <1>3, ProcsAssumption DEF WaitsOnce, InstanceTyped, ToSet
    <2> QED
      BY <1>2, <1>3, <2>1, <2>2 DEF WaitsOnce
  <1>9. ListenersLive' /\ AskedFirst' /\ WholeIsSent'
    <2>1. NoStream.sent # "whole"
      BY DEF NoStream
    <2> QED
      BY <1>2, <1>3, <2>1 DEF ListenersLive, AskedFirst, WholeIsSent
  <1>10. SenderWaits'
    <2>1. \A d \in Procs : pc'[d] = "send" => d # c /\ pc[d] = "send" /\ stream'[d] = stream[d]
      BY <1>2, <1>3, <1>6
    <2>2. \A d, q \in Procs : d # c /\ d \in Waiting(q) => d \in Waiting(q)'
      BY <1>5
    <2> QED
      BY <1>2, <2>1, <2>2 DEF SenderWaits
  <1>11. CASE stream[c].sent = "whole"
    <2>1. channel' = [channel EXCEPT ![p] = Append(@, FilesOf(c))] /\ pc[c] = "exited"
      BY <1>2, <1>11 DEF WholeIsSent
    <2>2. /\ channel'[p] = Append(channel[p], FilesOf(c)) /\ channel[p] \in Seq(Requests)
          /\ \A q \in Procs \ {p} : channel'[q] = channel[q]
      BY <2>1 DEF InstanceTyped
    <2>3. ToSet(channel'[p]) = ToSet(channel[p]) \cup {FilesOf(c)}
      BY <2>2, Joined, RequestNames
    <2>4. ReceivedIsApart'
      <3>1. \A q \in Procs : channel'[q] # << >> => pc'[q] \in {"window", "run"}
        BY <1>2, <2>2 DEF ReceivedIsApart, ListenersLive
      <3>2. ASSUME NEW q \in Procs, NEW r \in ToSet(channel'[q])
            PROVE  \E d \in Procs : r = FilesOf(d) /\ pc'[d] = "exited" /\ stream'[d] = NoStream
        <4>1. CASE r = FilesOf(c)
          BY <1>2, <1>3, <2>1, <4>1
        <4>2. CASE r # FilesOf(c)
          <5>1. r \in ToSet(channel[q])
            BY <2>2, <2>3, <3>2, <4>2
          <5>2. PICK d \in Procs : r = FilesOf(d) /\ pc[d] = "exited" /\ stream[d] = NoStream
            BY <5>1 DEF ReceivedIsApart
          <5> QED
            BY <1>2, <1>3, <5>2
        <4> QED
          BY <4>1, <4>2
      <3> QED
        BY <1>2, <3>1, <3>2 DEF ReceivedIsApart
    <2>5. {d \in Waiting(p) : stream[d].sent = "whole"}
          = {d \in Waiting(p)' : stream'[d].sent = "whole"} \cup {c}
      <3>1. \A d \in Waiting(p) \ {c} : stream'[d] = stream[d]
        BY <1>3, ClientsAreProcs
      <3> QED
        BY <1>4, <1>5, <1>11, <3>1
    <2>6. Delivered(p) = Delivered(p)' \cup {FilesOf(c)}
      BY <2>5 DEF Delivered
    <2>7. \A q \in Procs \ {p} : Delivered(q)' = Delivered(q)
      <3>1. \A q \in Procs \ {p} : \A d \in Waiting(q) : stream'[d] = stream[d]
        BY <1>3, <1>4, ClientsAreProcs
      <3> QED
        BY <1>5, <3>1 DEF Delivered
    <2>8. \A q \in Procs : Live(q)' = Live(q) /\ HeldBy(q)' = HeldBy(q)
      BY <1>2, <2>2, <2>3, <2>6, <2>7 DEF Live, HeldBy, Own
    <2>9. Accounted'
      BY <1>2, <2>8, NothingMoved
    <2> QED
      BY <1>7, <1>8, <1>9, <1>10, <2>4, <2>9
  <1>12. CASE stream[c].sent # "whole"
    <2>1. channel' = channel
      BY <1>2, <1>12
    <2>2. ReceivedIsApart'
      BY <1>2, <1>3, <2>1, ReceivedKept
    <2>3. \A q \in Procs : {d \in Waiting(q)' : stream'[d].sent = "whole"}
                           = {d \in Waiting(q) : stream[d].sent = "whole"}
      <3>1. \A q \in Procs : \A d \in Waiting(q) \ {c} : d \in Waiting(q)' /\ stream'[d] = stream[d]
        BY <1>3, <1>5, ClientsAreProcs
      <3>2. \A q \in Procs : Waiting(q)' \subseteq Waiting(q) \ {c}
        BY <1>4, <1>5
      <3> QED
        BY <1>12, <3>1, <3>2
    <2>4. \A q \in Procs : Live(q)' = Live(q) /\ HeldBy(q)' = HeldBy(q)
      BY <1>2, <2>1, <2>3 DEF Live, HeldBy, Own, Delivered
    <2>5. Accounted'
      BY <1>2, <2>4, NothingMoved
    <2> QED
      BY <1>7, <1>8, <1>9, <1>10, <2>2, <2>5
  <1> QED
    BY <1>11, <1>12

-----------------------------------------------------------------------------
(* The window. *)

(* An "Open With" is new, and its process has it, or nobody.                *)
LEMMA OpenUrlsKeeps ==
    ASSUME InstanceInv, NEW p \in Procs, OpenUrls(p)
    PROVE  InstanceInv'
  <1> USE DEF InstanceInv
  <1>1. /\ pc' = pc /\ owner' = owner /\ listening' = listening /\ stream' = stream
        /\ channel' = channel /\ opened' = opened
        /\ reading' = reading /\ backlog' = backlog
        /\ OpenWith(p) \notin asked
        /\ asked' = asked \cup {OpenWith(p)}
        /\ \/ /\ pc[p] \in {"boot", "window", "run"} /\ lost' = lost
              /\ urls' = [urls EXCEPT ![p] = Append(@, OpenWith(p))]
           \/ /\ pc[p] = "closed" /\ urls' = urls
              /\ lost' = lost \cup {OpenWith(p)}
    BY DEF OpenUrls
  <1>2. /\ \A q \in Procs \ {p} : urls'[q] = urls[q]
        /\ urls[p] \in Seq(Requests) /\ OpenWith(p) \in Requests
        /\ urls' \in [Procs -> Seq(Requests)]
    <2>1. urls[p] \in Seq(Requests) /\ OpenWith(p) \in Requests
      BY RequestNames DEF InstanceTyped
    <2>2. Append(urls[p], OpenWith(p)) \in Seq(Requests)
      BY <2>1
    <2>3. urls' = urls \/ urls' = [urls EXCEPT ![p] = Append(urls[p], OpenWith(p))]
      BY <1>1
    <2> QED
      BY <2>1, <2>2, <2>3 DEF InstanceTyped
  <1>3. /\ urls'[p] \in Seq(Requests)
        /\ \/ /\ pc[p] \in {"boot", "window", "run"} /\ lost' = lost
              /\ ToSet(urls'[p]) = ToSet(urls[p]) \cup {OpenWith(p)}
           \/ /\ pc[p] = "closed" /\ urls'[p] = urls[p]
              /\ lost' = lost \cup {OpenWith(p)}
    <2>1. CASE urls' = urls
      BY <1>1, <1>2, <2>1, Joined DEF InstanceTyped
    <2>2. CASE urls' = [urls EXCEPT ![p] = Append(@, OpenWith(p))] /\ lost' = lost
      <3>1. urls'[p] = Append(urls[p], OpenWith(p))
        BY <2>2 DEF InstanceTyped
      <3>2. urls'[p] \in Seq(Requests) /\ ToSet(urls'[p]) = ToSet(urls[p]) \cup {OpenWith(p)}
        BY <1>2, <3>1, Joined
      <3> QED
        BY <1>1, <2>2, <3>2
    <2> QED
      BY <1>1, <2>1, <2>2
  <1>4. \A q \in Procs : Waiting(q)' = Waiting(q) /\ Delivered(q)' = Delivered(q)
    BY <1>1 DEF Waiting, Delivered
  <1>5. InstanceTyped'
    <2>1. lost' \subseteq Requests
      BY <1>1, <1>2 DEF InstanceTyped
    <2> QED
      BY <1>1, <1>2, <2>1 DEF InstanceTyped
  <1>6. WaitsOnce' /\ ListenersLive' /\ WholeIsSent'
    BY <1>1, <1>4 DEF WaitsOnce, ListenersLive, WholeIsSent
  <1>7. SenderWaits'
    BY <1>1, <1>4 DEF SenderWaits
  <1>8. \A q \in Procs : FilesOf(q) \in asked' <=> FilesOf(q) \in asked
    BY <1>1, RequestNames
  <1>9. AskedFirst'
    BY <1>1, <1>8 DEF AskedFirst
  <1>10. ReceivedIsApart'
    <2>1. /\ urls'[p] # << >> => pc[p] \in {"boot", "window", "run"}
          /\ ToSet(urls'[p]) \subseteq {OpenWith(p)}
      BY <1>3 DEF ReceivedIsApart
    <2>2. /\ pc' = pc /\ channel' = channel /\ stream' = stream
          /\ \A q \in Procs \ {p} : urls'[q] = urls[q]
      BY <1>1, <1>2
    <2> SUFFICES ASSUME NEW q \in Procs
                 PROVE  /\ channel'[q] # << >> => pc'[q] \in {"window", "run"}
                        /\ urls'[q] # << >> => pc'[q] \in {"boot", "window", "run"}
                        /\ \A r \in ToSet(channel'[q]) :
                              \E c \in Procs : /\ r = FilesOf(c) /\ pc'[c] = "exited"
                                                /\ stream'[c] = NoStream
                        /\ ToSet(urls'[q]) \subseteq {OpenWith(q)}
      BY DEF ReceivedIsApart
    <2>3. /\ channel[q] # << >> => pc[q] \in {"window", "run"}
          /\ \A r \in ToSet(channel[q]) :
                \E c \in Procs : r = FilesOf(c) /\ pc[c] = "exited" /\ stream[c] = NoStream
      BY DEF ReceivedIsApart
    <2>4. /\ urls'[q] # << >> => pc[q] \in {"boot", "window", "run"}
          /\ ToSet(urls'[q]) \subseteq {OpenWith(q)}
      BY <2>1, <2>2 DEF ReceivedIsApart
    <2> QED
      BY <2>2, <2>3, <2>4
  <1>11. /\ \A q \in Procs : Live(q)' = Live(q)
         /\ \A q \in Procs \ {p} : HeldBy(q)' = HeldBy(q)
         /\ \/ lost' = lost /\ HeldBy(p)' = HeldBy(p) \cup {OpenWith(p)}
            \/ lost' = lost \cup {OpenWith(p)} /\ HeldBy(p)' = HeldBy(p)
         /\ Live(p)
    <2>1. \A q \in Procs : Own(q)' = Own(q)
      BY <1>1, <1>8 DEF Own
    <2> QED
      BY <1>1, <1>2, <1>3, <1>4, <2>1 DEF Live, HeldBy
  <1>12. Accounted'
    <2> SUFFICES ASSUME NEW r \in Requests
                 PROVE  IF r \in asked' THEN Settled(r)' ELSE Untouched(r)'
      BY DEF Accounted
    <2>1. CASE r = OpenWith(p)
      <3>1. Untouched(r) /\ r \in asked' /\ opened'[r] = 0
        BY <1>1, <2>1 DEF Accounted, Untouched
      <3>2. CASE lost' = lost /\ HeldBy(p)' = HeldBy(p) \cup {OpenWith(p)}
        <4>1. Holders(r)' = {p}
          BY <1>11, <2>1, <3>1, <3>2 DEF Holders, Untouched
        <4> QED
          BY <3>1, <3>2, <4>1 DEF Settled, Untouched
      <3>3. CASE lost' = lost \cup {OpenWith(p)} /\ HeldBy(p)' = HeldBy(p)
        <4>1. Holders(r)' = {}
          BY <1>11, <3>1, <3>3 DEF Holders, Untouched
        <4> QED
          BY <2>1, <3>1, <3>3, <4>1 DEF Settled
      <3> QED
        BY <1>11, <3>2, <3>3
    <2>2. CASE r # OpenWith(p)
      <3>1. Holders(r)' = Holders(r) /\ (r \in lost' <=> r \in lost)
        BY <1>11, <2>2 DEF Holders
      <3> QED
        BY <1>1, <2>2, <3>1 DEF Accounted, Settled, Untouched
    <2> QED
      BY <2>1, <2>2
  <1> QED
    BY <1>5, <1>6, <1>7, <1>9, <1>10, <1>12

(* What has arrived is opened once: nobody else had it. *)
LEMMA PollKeeps ==
    ASSUME InstanceInv, NEW p \in Procs, Poll(p)
    PROVE  InstanceInv'
  <1> USE DEF InstanceInv
  <1> DEFINE arrived == ToSet(channel[p]) \cup ToSet(urls[p])
  <1>1. /\ pc' = pc /\ owner' = owner /\ listening' = listening /\ stream' = stream
        /\ lost' = lost /\ asked' = asked /\ reading' = reading /\ backlog' = backlog
        /\ pc[p] = "run"
        /\ opened' = Bump(opened, arrived)
        /\ channel' = [channel EXCEPT ![p] = << >>]
        /\ urls' = [urls EXCEPT ![p] = << >>]
    BY DEF Poll
  <1>2. /\ channel'[p] = << >> /\ urls'[p] = << >>
        /\ \A q \in Procs \ {p} : urls'[q] = urls[q] /\ channel'[q] = channel[q]
    BY <1>1 DEF InstanceTyped
  <1>3. \A q \in Procs : Waiting(q)' = Waiting(q) /\ Delivered(q)' = Delivered(q)
    BY <1>1 DEF Waiting, Delivered
  <1>4. \A r \in Requests : opened'[r] = opened[r] + IF r \in arrived THEN 1 ELSE 0
    BY <1>1 DEF Bump
  <1>5. InstanceTyped'
    <2>1. opened' \in [Requests -> Nat]
      BY <1>1 DEF Bump, InstanceTyped
    <2>2. channel' \in [Procs -> Seq(Requests)] /\ urls' \in [Procs -> Seq(Requests)]
      BY <1>1 DEF InstanceTyped
    <2> QED
      BY <1>1, <2>1, <2>2 DEF InstanceTyped
  <1>6. WaitsOnce' /\ ListenersLive' /\ WholeIsSent' /\ AskedFirst'
    BY <1>1, <1>3 DEF WaitsOnce, ListenersLive, WholeIsSent, AskedFirst
  <1>7. SenderWaits'
    BY <1>1, <1>3 DEF SenderWaits
  <1>8. ReceivedIsApart'
    BY <1>1, <1>2, EmptyQueue DEF ReceivedIsApart
  <1>9. \A r \in arrived : r \notin Own(p) /\ r \notin Delivered(p)
    <2>1. Own(p) = {}
      BY <1>1 DEF Own
    <2>2. \A r \in ToSet(channel[p]) : r \notin Delivered(p)
      <3> SUFFICES ASSUME NEW r \in ToSet(channel[p]), NEW d \in Waiting(p),
                          stream[d].sent = "whole", r = FilesOf(d)
                   PROVE  FALSE
        BY DEF Delivered
      <3>1. PICK c \in Procs : r = FilesOf(c) /\ stream[c] = NoStream
        BY DEF ReceivedIsApart
      <3>2. c = d
        BY <3>1, RequestNames, ClientsAreProcs
      <3> QED
        BY <3>1, <3>2 DEF NoStream
    <2>3. \A r \in ToSet(urls[p]) : r \notin Delivered(p)
      BY RequestNames, ClientsAreProcs DEF ReceivedIsApart, Delivered
    <2> QED
      BY <2>1, <2>2, <2>3
  <1>10. /\ \A q \in Procs : Live(q)' = Live(q)
         /\ \A q \in Procs \ {p} : HeldBy(q)' = HeldBy(q)
         /\ HeldBy(p)' = HeldBy(p) \ arrived /\ Live(p) /\ arrived \subseteq HeldBy(p)
    <2>1. \A q \in Procs : Own(q)' = Own(q)
      BY <1>1 DEF Own
    <2> QED
      BY <1>1, <1>2, <1>3, <1>9, <2>1, EmptyQueue DEF Live, HeldBy
  <1>11. Accounted'
    <2> HIDE DEF arrived
    <2> SUFFICES ASSUME NEW r \in Requests
                 PROVE  IF r \in asked' THEN Settled(r)' ELSE Untouched(r)'
      BY DEF Accounted
    <2>1. CASE r \in arrived
      <3>1. p \in Holders(r)
        BY <1>10, <2>1 DEF Holders
      <3>2. opened[r] = 0 /\ Holders(r) = {p} /\ r \notin lost /\ r \in asked
        BY <3>1 DEF Accounted, Settled, Untouched
      <3>3. Holders(r)' = {}
        BY <1>10, <2>1, <3>2 DEF Holders
      <3> QED
        BY <1>1, <1>4, <2>1, <3>2, <3>3 DEF Settled
    <2>2. CASE r \notin arrived
      <3>1. Holders(r)' = Holders(r)
        BY <1>10, <2>2 DEF Holders
      <3>2. opened'[r] = opened[r]
        BY <1>4, <2>2 DEF InstanceTyped
      <3> QED
        BY <1>1, <3>1, <3>2 DEF Accounted, Settled, Untouched
    <2> QED
      BY <2>1, <2>2
  <1> QED
    BY <1>5, <1>6, <1>7, <1>8, <1>11

(* What a process gives up with its listener was held by it alone.          *)
GivesUp(p) ==
    /\ Live(p) /\ HangUp(p)
    /\ lost' = lost \cup HeldBy(p)
    /\ owner' \in {owner, Nobody}
    /\ channel' = [channel EXCEPT ![p] = << >>]
    /\ urls' = [urls EXCEPT ![p] = << >>]
    /\ asked' = asked /\ opened' = opened

LEMMA GivesUpKeeps ==
    ASSUME InstanceInv, NEW p \in Procs, GivesUp(p),
           \/ pc' = [pc EXCEPT ![p] = "dead"]
           \/ pc[p] = "closed" /\ pc' = pc
    PROVE  InstanceInv'
  <1> USE DEF InstanceInv
  <1>1. /\ Live(p)
        /\ lost' = lost \cup HeldBy(p)
        /\ listening' = listening \ {p}
        /\ owner' \in {owner, Nobody}
        /\ stream' = [c \in Procs |->
                        IF c \in Waiting(p) /\ pc[c] # "send" THEN NoStream ELSE stream[c]]
        /\ backlog' = [backlog EXCEPT ![p] = << >>]
        /\ reading' = [reading EXCEPT ![p] = Nobody]
        /\ channel' = [channel EXCEPT ![p] = << >>]
        /\ urls' = [urls EXCEPT ![p] = << >>]
        /\ asked' = asked /\ opened' = opened
    BY DEF GivesUp, HangUp
  <1>2. /\ channel'[p] = << >> /\ urls'[p] = << >> /\ backlog'[p] = << >> /\ reading'[p] = Nobody
        /\ pc'[p] = "dead" \/ (pc[p] = "closed" /\ pc'[p] = "closed")
        /\ \A q \in Procs \ {p} : /\ urls'[q] = urls[q] /\ channel'[q] = channel[q]
                                   /\ backlog'[q] = backlog[q] /\ reading'[q] = reading[q]
                                   /\ pc'[q] = pc[q]
    <2>1. /\ channel'[p] = << >> /\ urls'[p] = << >> /\ backlog'[p] = << >> /\ reading'[p] = Nobody
          /\ \A q \in Procs \ {p} : /\ urls'[q] = urls[q] /\ channel'[q] = channel[q]
                                     /\ backlog'[q] = backlog[q] /\ reading'[q] = reading[q]
      BY <1>1 DEF InstanceTyped
    <2>2. CASE pc' = [pc EXCEPT ![p] = "dead"]
      <3>1. pc'[p] = "dead" /\ \A q \in Procs \ {p} : pc'[q] = pc[q]
        BY <2>2 DEF InstanceTyped
      <3> QED
        BY <2>1, <3>1
    <2>3. CASE pc[p] = "closed" /\ pc' = pc
      BY <2>1, <2>3
    <2> QED
      BY <2>2, <2>3
  <1>3. Waiting(p)' = {} /\ \A q \in Procs \ {p} : Waiting(q)' = Waiting(q)
    BY <1>2, EmptyQueue DEF Waiting
  <1>4. pc[p] # "exited" /\ pc[p] # "dead"
    BY <1>1 DEF Live
  <1>5. InstanceTyped'
    <2>1. stream' \in [Procs -> Streams]
      BY <1>1 DEF InstanceTyped, Streams, NoStream
    <2>2. HeldBy(p) \subseteq Requests
      BY HeldAreRequests
    <2>3. channel' \in [Procs -> Seq(Requests)] /\ urls' \in [Procs -> Seq(Requests)]
          /\ backlog' \in [Procs -> Seq(Procs)] /\ reading' \in [Procs -> Procs \cup {Nobody}]
      BY <1>1 DEF InstanceTyped
    <2>4. pc' \in [Procs -> Labels] /\ owner' \in Procs \cup {Nobody}
      BY <1>1 DEF InstanceTyped, Labels
    <2>5. lost' \subseteq Requests /\ listening' \subseteq Procs
      BY <1>1, <2>2 DEF InstanceTyped
    <2> QED
      BY <1>1, <2>1, <2>3, <2>4, <2>5 DEF InstanceTyped
  <1>6. \A q \in Procs \ {p} : \A c \in Waiting(q) : c \in Procs /\ c \notin Waiting(p) /\ stream'[c] = stream[c]
    BY <1>1, OneListener, ClientsAreProcs
  <1>7. WaitsOnce'
    <2>1. ASSUME NEW q \in Procs
          PROVE  Distinct(backlog'[q]) /\ reading'[q] \notin ToSet(backlog'[q])
      BY <1>2, EmptyQueue DEF WaitsOnce
    <2>2. ASSUME NEW q \in Procs, NEW c \in Waiting(q)'
          PROVE  q \in listening' /\ stream'[c].to = q /\ pc'[c] \in {"send", "exited", "dead"}
      <3>1. q # p /\ c \in Waiting(q)
        BY <1>3, <2>2
      <3> QED
        BY <1>1, <1>2, <1>6, <3>1 DEF WaitsOnce
    <2> QED
      BY <2>1, <2>2 DEF WaitsOnce
  <1>8. ListenersLive' /\ AskedFirst'
    BY <1>1, <1>2 DEF ListenersLive, AskedFirst, InstanceTyped
  <1>9. WholeIsSent'
    <2>1. \A c \in Procs : stream'[c].sent = "whole" => stream[c].sent = "whole"
      BY <1>1 DEF NoStream
    <2> QED
      BY <1>2, <1>4, <2>1 DEF WholeIsSent
  <1>10. SenderWaits'
    <2> SUFFICES ASSUME NEW c \in Procs, pc'[c] = "send"
                 PROVE  /\ stream'[c].to \in Procs
                        /\ \A q \in Procs : stream'[c].to = q =>
                              /\ pc'[q] \in {"window", "run", "closed", "dead"}
                              /\ q \in listening' => c \in Waiting(q)'
      BY DEF SenderWaits
    <2>1. c # p /\ pc[c] = "send" /\ stream'[c] = stream[c]
      BY <1>1, <1>2
    <2> QED
      BY <1>1, <1>2, <1>3, <2>1 DEF SenderWaits
  <1>11. ReceivedIsApart'
    <2>1. \A c \in Procs : pc[c] = "exited" /\ stream[c] = NoStream
                            => pc'[c] = "exited" /\ stream'[c] = NoStream
      BY <1>1, <1>2, <1>4
    <2>2. \A q \in Procs : \A r \in ToSet(channel[q]) :
             \E c \in Procs : r = FilesOf(c) /\ pc'[c] = "exited" /\ stream'[c] = NoStream
      BY <2>1 DEF ReceivedIsApart
    <2> QED
      BY <1>2, <2>2, EmptyQueue DEF ReceivedIsApart
  <1>12. /\ ~Live(p)' \/ HeldBy(p)' = {}
         /\ \A q \in Procs \ {p} : Live(q)' = Live(q) /\ HeldBy(q)' = HeldBy(q)
    <2>1. \A q \in Procs \ {p} : Delivered(q)' = Delivered(q)
      BY <1>3, <1>6 DEF Delivered
    <2>2. pc'[p] = "dead" => ~Live(p)'
      BY DEF Live
    <2>3. pc'[p] = "closed" => HeldBy(p)' = {}
      <3>1. pc'[p] = "closed" => Own(p)' = {} /\ Delivered(p)' = {}
        BY <1>3 DEF Own, Delivered
      <3> QED
        BY <1>2, <3>1, EmptyQueue DEF HeldBy
    <2>4. \A q \in Procs \ {p} : Own(q)' = Own(q) /\ Live(q)' = Live(q)
      BY <1>1, <1>2 DEF Own, Live
    <2> QED
      BY <1>2, <2>1, <2>2, <2>3, <2>4 DEF HeldBy
  <1>13. Accounted'
    <2> SUFFICES ASSUME NEW r \in Requests
                 PROVE  IF r \in asked' THEN Settled(r)' ELSE Untouched(r)'
      BY DEF Accounted
    <2>1. CASE r \in HeldBy(p)
      <3>1. p \in Holders(r)
        BY <1>1, <2>1 DEF Holders
      <3>2. opened[r] = 0 /\ Holders(r) = {p} /\ r \in asked
        BY <3>1 DEF Accounted, Settled, Untouched
      <3>3. Holders(r)' = {}
        BY <1>12, <3>2 DEF Holders
      <3> QED
        BY <1>1, <2>1, <3>2, <3>3 DEF Settled
    <2>2. CASE r \notin HeldBy(p)
      <3>1. Holders(r)' = Holders(r) /\ (r \in lost' <=> r \in lost)
        BY <1>1, <1>12, <2>2 DEF Holders
      <3> QED
        BY <1>1, <3>1 DEF Accounted, Settled, Untouched
    <2> QED
      BY <2>1, <2>2
  <1> QED
    BY <1>5, <1>7, <1>8, <1>9, <1>10, <1>11, <1>13

LEMMA DieKeeps ==
    ASSUME InstanceInv, NEW p \in Procs, Die(p)
    PROVE  InstanceInv'
  <1>1. GivesUp(p) /\ pc' = [pc EXCEPT ![p] = "dead"]
    BY DEF Die, Goto, GivesUp
  <1> QED
    BY <1>1, GivesUpKeeps

(* Without a window nothing has been received that is not opened. *)
LEMMA EndListenerKeeps ==
    ASSUME InstanceInv, NEW p \in Procs, EndListener(p)
    PROVE  InstanceInv'
  <1>1. pc[p] = "closed" /\ pc' = pc
    BY DEF EndListener
  <1>2. channel[p] = << >> /\ urls[p] = << >>
    BY <1>1 DEF InstanceInv, ReceivedIsApart
  <1>3. HeldBy(p) = Delivered(p)
    BY <1>1, <1>2, EmptyQueue DEF HeldBy, Own
  <1>4. channel' = [channel EXCEPT ![p] = << >>] /\ urls' = [urls EXCEPT ![p] = << >>]
    BY <1>2 DEF EndListener, InstanceInv, InstanceTyped
  <1>5. GivesUp(p)
    BY <1>1, <1>3, <1>4 DEF EndListener, GivesUp, Live
  <1> QED
    BY <1>1, <1>5, GivesUpKeeps

(* The window takes along what had arrived. *)
LEMMA CloseWindowKeeps ==
    ASSUME InstanceInv, NEW p \in Procs, CloseWindow(p)
    PROVE  InstanceInv'
  <1> USE DEF InstanceInv
  <1> DEFINE arrived == ToSet(channel[p]) \cup ToSet(urls[p])
  <1>1. /\ pc[p] = "run" /\ pc' = [pc EXCEPT ![p] = "closed"]
        /\ owner' = owner /\ listening' = listening /\ stream' = stream
        /\ asked' = asked /\ opened' = opened /\ reading' = reading /\ backlog' = backlog
        /\ lost' = lost \cup arrived
        /\ channel' = [channel EXCEPT ![p] = << >>]
        /\ urls' = [urls EXCEPT ![p] = << >>]
    BY DEF CloseWindow, Goto
  <1>2. /\ channel'[p] = << >> /\ urls'[p] = << >> /\ pc'[p] = "closed"
        /\ \A q \in Procs \ {p} : urls'[q] = urls[q] /\ channel'[q] = channel[q] /\ pc'[q] = pc[q]
    BY <1>1 DEF InstanceTyped
  <1>3. \A q \in Procs : Waiting(q)' = Waiting(q) /\ Delivered(q)' = Delivered(q)
    BY <1>1 DEF Waiting, Delivered
  <1>4. arrived \subseteq HeldBy(p) /\ HeldBy(p) \subseteq Requests
    BY HeldAreRequests DEF HeldBy
  <1>5. InstanceTyped'
    <2>1. channel' \in [Procs -> Seq(Requests)] /\ urls' \in [Procs -> Seq(Requests)]
      BY <1>1 DEF InstanceTyped
    <2>2. pc' \in [Procs -> Labels]
      BY <1>1 DEF InstanceTyped, Labels
    <2>3. lost' \subseteq Requests
      BY <1>1, <1>4 DEF InstanceTyped
    <2> QED
      BY <1>1, <2>1, <2>2, <2>3 DEF InstanceTyped
  <1>6. WaitsOnce'
    <2>1. ASSUME NEW q \in Procs, NEW c \in Waiting(q)'
          PROVE  q \in listening' /\ stream'[c].to = q /\ pc'[c] \in {"send", "exited", "dead"}
      <3>1. c \in Waiting(q) /\ c \in Procs
        BY <1>3, <2>1, ClientsAreProcs
      <3> QED
        BY <1>1, <1>2, <3>1 DEF WaitsOnce
    <2> QED
      BY <1>1, <2>1 DEF WaitsOnce
  <1>7. ListenersLive' /\ WholeIsSent' /\ AskedFirst'
    BY <1>1, <1>2 DEF ListenersLive, WholeIsSent, AskedFirst, InstanceTyped
  <1>8. SenderWaits'
    <2> SUFFICES ASSUME NEW c \in Procs, pc'[c] = "send"
                 PROVE  /\ stream'[c].to \in Procs
                        /\ \A q \in Procs : stream'[c].to = q =>
                              /\ pc'[q] \in {"window", "run", "closed", "dead"}
                              /\ q \in listening' => c \in Waiting(q)'
      BY DEF SenderWaits
    <2>1. c # p /\ pc[c] = "send" /\ stream'[c] = stream[c]
      BY <1>1, <1>2
    <2> QED
      BY <1>1, <1>2, <1>3, <2>1 DEF SenderWaits
  <1>9. ReceivedIsApart'
    <2>1. \A c \in Procs : pc[c] = "exited" => pc'[c] = "exited"
      BY <1>1, <1>2
    <2>2. \A q \in Procs : \A r \in ToSet(channel[q]) :
             \E c \in Procs : r = FilesOf(c) /\ pc'[c] = "exited" /\ stream'[c] = NoStream
      BY <1>1, <2>1 DEF ReceivedIsApart
    <2> QED
      BY <1>2, <2>2, EmptyQueue DEF ReceivedIsApart
  <1>10. \A r \in arrived : r \notin Delivered(p)
    <2>1. \A r \in ToSet(channel[p]) : r \notin Delivered(p)
      <3> SUFFICES ASSUME NEW r \in ToSet(channel[p]), NEW d \in Waiting(p),
                          stream[d].sent = "whole", r = FilesOf(d)
                   PROVE  FALSE
        BY DEF Delivered
      <3>1. PICK c \in Procs : r = FilesOf(c) /\ stream[c] = NoStream
        BY DEF ReceivedIsApart
      <3>2. c = d
        BY <3>1, RequestNames, ClientsAreProcs
      <3> QED
        BY <3>1, <3>2 DEF NoStream
    <2>2. \A r \in ToSet(urls[p]) : r \notin Delivered(p)
      BY RequestNames, ClientsAreProcs DEF ReceivedIsApart, Delivered
    <2> QED
      BY <2>1, <2>2
  <1>11. /\ \A q \in Procs : Live(q)' = Live(q)
         /\ \A q \in Procs \ {p} : HeldBy(q)' = HeldBy(q)
         /\ HeldBy(p)' = HeldBy(p) \ arrived /\ Live(p)
    <2>1. Own(p)' = {} /\ Own(p) = {} /\ \A q \in Procs \ {p} : Own(q)' = Own(q)
      BY <1>1, <1>2 DEF Own
    <2> QED
      BY <1>1, <1>2, <1>3, <1>10, <2>1, EmptyQueue DEF Live, HeldBy
  <1>12. Accounted'
    <2> HIDE DEF arrived
    <2> SUFFICES ASSUME NEW r \in Requests
                 PROVE  IF r \in asked' THEN Settled(r)' ELSE Untouched(r)'
      BY DEF Accounted
    <2>1. CASE r \in arrived
      <3>1. p \in Holders(r)
        BY <1>4, <1>11, <2>1 DEF Holders
      <3>2. opened[r] = 0 /\ Holders(r) = {p} /\ r \in asked
        BY <3>1 DEF Accounted, Settled, Untouched
      <3>3. Holders(r)' = {}
        BY <1>11, <2>1, <3>2 DEF Holders
      <3> QED
        BY <1>1, <2>1, <3>2, <3>3 DEF Settled
    <2>2. CASE r \notin arrived
      <3>1. Holders(r)' = Holders(r) /\ (r \in lost' <=> r \in lost)
        BY <1>1, <1>11, <2>2 DEF Holders
      <3> QED
        BY <1>1, <3>1 DEF Accounted, Settled, Untouched
    <2> QED
      BY <2>1, <2>2
  <1> QED
    BY <1>5, <1>6, <1>7, <1>8, <1>9, <1>12

-----------------------------------------------------------------------------
(* The theorems. *)

LEMMA InstanceStep ==
    ASSUME InstanceInv, [InstanceNext]_instanceVars
    PROVE  InstanceInv'
  <1>1. CASE InstanceNext
    BY <1>1, LaunchKeeps, ConnectKeeps, SendKeeps, BindKeeps, OpenWindowKeeps, AcceptKeeps,
       ReadMessageKeeps, EndListenerKeeps, OpenUrlsKeeps, PollKeeps, CloseWindowKeeps, DieKeeps,
       Zenon
    DEF InstanceNext, StartUp, ListenerThread
  <1>2. CASE UNCHANGED instanceVars
    <2>1. /\ pc' = pc /\ owner' = owner /\ listening' = listening /\ stream' = stream
          /\ lost' = lost /\ asked' = asked /\ reading' = reading /\ backlog' = backlog
          /\ opened' = opened /\ channel' = channel /\ urls' = urls
      BY <1>2 DEF instanceVars
    <2>2. \A q \in Procs : Waiting(q)' = Waiting(q)
      BY <2>1 DEF Waiting
    <2>3. \A q \in Procs : Live(q)' = Live(q) /\ HeldBy(q)' = HeldBy(q)
      BY <2>1, <2>2 DEF Live, HeldBy, Own, Delivered
    <2>4. Accounted'
      BY <2>1, <2>3, NothingMoved DEF InstanceInv
    <2>5. InstanceTyped' /\ WaitsOnce' /\ ListenersLive' /\ WholeIsSent' /\ AskedFirst'
      BY <2>1, <2>2
      DEF InstanceInv, InstanceTyped, WaitsOnce, ListenersLive, WholeIsSent, AskedFirst
    <2>6. SenderWaits'
      BY <2>1, <2>2 DEF InstanceInv, SenderWaits
    <2>7. ReceivedIsApart'
      BY <2>1 DEF InstanceInv, ReceivedIsApart
    <2> QED
      BY <2>4, <2>5, <2>6, <2>7 DEF InstanceInv
  <1> QED
    BY <1>1, <1>2

(* A request is in one place only: held by one live process, opened once,   *)
(* or gone with the process that held it or the window that was to open it, *)
(* for any number of processes and on both kinds of socket name (socket.rs, *)
(* spawn_ipc_poll).                                                        *)
THEOREM NothingIsMislaid == InstanceSpec => []NothingMislaid
  <1>1. InstanceInv => NothingMislaid
    <2> SUFFICES ASSUME InstanceInv, NEW r \in asked
                 PROVE  \/ opened[r] = 1 /\ Holders(r) = {} /\ r \notin lost
                        \/ opened[r] = 0 /\ Cardinality(Holders(r)) = 1 /\ r \notin lost
                        \/ opened[r] = 0 /\ Holders(r) = {} /\ r \in lost
      BY DEF NothingMislaid, Holders
    <2>1. Settled(r)
      BY DEF InstanceInv, Accounted, InstanceTyped
    <2>2. \A p \in Procs : Holders(r) = {p} => Cardinality(Holders(r)) = 1
      BY FS_Singleton
    <2> QED
      BY <2>1, <2>2 DEF Settled
  <1> QED
    BY <1>1, InstanceStart, InstanceStep, PTL DEF InstanceSpec

=============================================================================
