-------------------------- MODULE ShadowMirrorProofs --------------------------
(***************************************************************************)
(* Proofs about ShadowMirror, for any number of rows, changes, reconciles  *)
(* and faults, any budget and any timing: nothing behind the watermark is  *)
(* missed but the rows that something slow has passed by, and a row the    *)
(* MCP wrote is not answered from an older copy.                           *)
(*                                                                         *)
(* Whoever holds something it read of Autotask (the run and the refresh a  *)
(* page, a reconcile the ids it saw) may be behind, but only for rows that *)
(* changed after it began.  When it stores, such a row's stamp is either   *)
(* too young to lie behind the watermark, or the row is late.              *)
(***************************************************************************)
EXTENDS ShadowMirror, NaturalsInduction, WellFoundedInduction, TLAPS

Pages == UNION {[S -> Nat] : S \in SUBSET Ids}
Live == [v : Nat, at : Nat]
RunState == [pc : {"idle", "taken", "reread", "walk", "store", "save"}, cursor : 0..N,
             newest : Nat, page : Pages, began : Nat]
SweepState == [pc : {"idle", "walk", "list", "delete", "done"}, cursor : 0..N,
               seen : SUBSET Ids, found : SUBSET Ids, began : Nat, saved : Nat]
RefreshState == [pc : {"idle", "store"}, page : Pages, began : Nat]

TypeOK ==
  /\ live \in [Ids -> Live] /\ clock \in Nat \ {0} /\ made \in Nat /\ faults \in Nat
  /\ mirror \in [Ids -> Nat] /\ mark \in Nat /\ dirty \subseteq Ids
  /\ limit \in Nat /\ calls \in Nat
  /\ run \in RunState /\ sweep \in [Sweeps -> SweepState] /\ refresh \in RefreshState
  /\ own \in [Ids -> Nat] /\ lost \subseteq Ids /\ late \subseteq Ids

\* Rows are created in the order of their ids, and stamped when they change.
Stamps ==
  \A i \in Ids :
    /\ live[i].at <= clock
    /\ live[i].v # 0 => live[i].at # 0
    /\ live[i].at # 0 => \A j \in Ids : j < i => live[j].at # 0

\* Nothing is dated ahead, and a run counts from the beginning of whatever crosses it.
Dates ==
  /\ mark <= clock
  /\ run.pc # "idle" => run.began <= clock /\ run.newest <= clock
  /\ \A s \in Sweeps : sweep[s].pc \in {"list", "delete"} =>
       sweep[s].began <= clock /\ (run.pc # "idle" => run.began <= sweep[s].began)
  /\ refresh.pc = "store" => refresh.began <= clock /\ (run.pc # "idle" => run.began <= refresh.began)

\* A page read at some time or later: where it is wrong, the row has changed since.
Holds(page, since) ==
  \A i \in Ids : i \in DOMAIN page /\ page[i] # live[i].v => since <= live[i].at

Held ==
  /\ run.pc \in {"taken", "reread"} => run.cursor = 0
  /\ run.pc \in {"reread", "store"} => Holds(run.page, run.began)
  /\ run.pc = "store" => DOMAIN run.page = {run.cursor}
  /\ refresh.pc = "store" => Holds(refresh.page, refresh.began)

\* The rows the run's walk has read and stored, or found unchanged.
Walked(i) ==
  \/ run.pc = "save"
  \/ run.pc = "walk" /\ i <= run.cursor
  \/ run.pc = "store" /\ i < run.cursor

\* Of these, whatever changed before the run began is mirrored, or late.
WalkDone == \A i \in Ids : Walked(i) /\ live[i].at < run.began => Mirrored(i) \/ i \in late

\* A reconcile has seen every row up to its cursor; what it misses in the end came later.
Seen ==
  \A s \in Sweeps :
    /\ sweep[s].pc = "walk" => \A i \in Ids : i <= sweep[s].cursor =>
         live[i].at # 0 /\ (live[i].v # 0 => i \in sweep[s].seen)
    /\ sweep[s].pc \in {"list", "delete"} => \A i \in Ids :
         live[i].v # 0 /\ i \notin sweep[s].seen => sweep[s].began <= live[i].at
    /\ sweep[s].pc = "delete" => sweep[s].found \cap sweep[s].seen = {}

IInv == TypeOK /\ Stamps /\ Dates /\ Held /\ WalkDone /\ Seen /\ NothingMissed
-----------------------------------------------------------------------------
(* Types.                                                                  *)

LEMMA PageType == /\ NoPage \in Pages
                  /\ \A S \in SUBSET Ids : [i \in S |-> 0] \in Pages
                  /\ TypeOK => \A S \in SUBSET Ids : Page(S) \in Pages /\ DOMAIN Page(S) = S
<1>1. \A S \in SUBSET Ids : [i \in S |-> 0] \in Pages  BY DEF Pages
<1>2. NoPage \in Pages
  <2>1. NoPage \in [{} -> Nat]  BY DEF NoPage
  <2> QED  BY <2>1 DEF Pages
<1>3. ASSUME TypeOK, NEW S \in SUBSET Ids PROVE Page(S) \in Pages /\ DOMAIN Page(S) = S
  <2>1. Page(S) \in [S -> Nat]  BY <1>3 DEF Page, TypeOK, Live
  <2> QED  BY <2>1 DEF Pages
<1> QED  BY <1>1, <1>2, <1>3

LEMMA ConstantsType ==
  /\ N \in Nat /\ N > 0 /\ {Overlap, MaxCalls, SweepCalls} \subseteq Nat
  /\ Refreshed \subseteq Ids
  /\ NoRun \in RunState /\ NoSweep \in SweepState /\ NoRefresh \in RefreshState
<1>1. N \in Nat /\ N > 0 /\ {Overlap, MaxCalls, SweepCalls} \subseteq Nat
      /\ Refreshed \subseteq Ids
  BY ShadowMirrorAssumption DEF Ids
<1> QED  BY <1>1, PageType DEF NoRun, NoSweep, NoRefresh, RunState, SweepState, RefreshState

\* The least of a set of numbers is in it and least.
LEMMA LeastNumber ==
  ASSUME NEW S \in SUBSET Nat, S # {}
  PROVE  least(S) \in S /\ \A j \in S : least(S) <= j
<1>1. PICK i \in S : \A j \in S : ~(<<j, i>> \in OpToRel(<, Nat))
  BY NatLessThanWellFounded, WFMin
<1>2. \A j \in S : i <= j
  <2>1. ASSUME NEW j \in Nat, j < i PROVE <<j, i>> \in OpToRel(<, Nat)
    BY <2>1 DEF OpToRel
  <2>2. \A j \in S : ~(j < i)  BY <1>1, <2>1, Zenon
  <2> QED  BY <2>2
<1> QED  BY <1>2 DEF least

LEMMA Least ==
  ASSUME NEW S \in SUBSET Ids, S # {}
  PROVE  least(S) \in S /\ \A j \in S : least(S) <= j
<1>1. S \subseteq Nat  BY ConstantsType DEF Ids
<1> QED  BY <1>1, LeastNumber

LEMMA LeastChanged == Changed # {} => least(Changed) \in Ids
<1>1. Changed \in SUBSET Ids  BY DEF Changed
<1> QED  BY <1>1, Least

\* The beginning of a run is now or before, and not after that of what crosses it.
LEMMA EarliestType ==
  ASSUME TypeOK
  PROVE  /\ Earliest \in Nat /\ Earliest <= clock
         /\ refresh.pc = "store" => Earliest <= refresh.began
         /\ \A s \in Sweeps : sweep[s].pc \in {"list", "delete"} => Earliest <= sweep[s].began
<1> DEFINE A == {refresh.began : x \in {refresh.pc} \cap {"store"}}
           B == {sweep[s].began : s \in {t \in Sweeps : sweep[t].pc \in {"list", "delete"}}}
           S == {clock} \cup A \cup B
<1>1. S \subseteq Nat
  <2>1. A \subseteq Nat  BY DEF TypeOK, RefreshState
  <2>2. B \subseteq Nat  BY DEF TypeOK, SweepState
  <2> QED  BY <2>1, <2>2 DEF TypeOK
<1>2. clock \in S
  OBVIOUS
<1>3. refresh.pc = "store" => refresh.began \in S
  OBVIOUS
<1>4. ASSUME NEW s \in Sweeps, sweep[s].pc \in {"list", "delete"} PROVE sweep[s].began \in S
  BY <1>4
<1>5. Earliest = least(S)
  BY DEF Earliest
<1> HIDE DEF S
<1>6. Earliest \in S /\ \A j \in S : Earliest <= j
  BY <1>1, <1>2, <1>5, LeastNumber
<1> QED  BY <1>1, <1>2, <1>3, <1>4, <1>6

LEMMA PageValues ==
  ASSUME NEW page \in Pages
  PROVE  DOMAIN page \subseteq Ids /\ \A i \in DOMAIN page : page[i] \in Nat
BY DEF Pages

LEMMA UpsertType ==
  ASSUME TypeOK, NEW page \in Pages, NEW since, Upsert(page, since)
  PROVE  mirror' \in [Ids -> Nat] /\ lost' \subseteq Ids /\ late' \subseteq Ids
BY PageValues DEF Upsert, Late, TypeOK

LEMMA CountedType == TypeOK /\ Counted => calls' \in Nat /\ limit' \in Nat
BY ConstantsType DEF TypeOK, Counted, later

LEMMA InitType == Init => TypeOK
BY ConstantsType DEF Init, TypeOK, Live, Ids

LEMMA WorldType ==
  ASSUME TypeOK, NEW i \in Ids, EditedOutside(i) \/ WrittenByUs(i) \/ DeletedOutside(i)
  PROVE  TypeOK'
<1>1. live' \in [Ids -> Live] /\ made' \in Nat
  BY DEF TypeOK, Live, EditedOutside, WrittenByUs, DeletedOutside, Change
<1>2. own' \in [Ids -> Nat] /\ dirty' \subseteq Ids
  BY DEF TypeOK, Live, EditedOutside, WrittenByUs, DeletedOutside, Queued
<1> QED
  BY <1>1, <1>2 DEF TypeOK, EditedOutside, WrittenByUs, DeletedOutside, Change, budget

LEMMA RunType ==
  ASSUME TypeOK, Run \/ RunLosesTaken \/ RunFails
  PROVE  TypeOK'
<1> USE ConstantsType, CountedType DEF TypeOK, budget, autotask
<1>1. CASE RunStarts
  <2>1. run' \in RunState
    BY <1>1, PageType, EarliestType DEF RunStarts, NoRun, RunState
  <2> QED  BY <1>1, <2>1 DEF RunStarts
<1>2. CASE RunReadsTaken
  <2>1. DOMAIN run.page \in SUBSET Ids  BY PageValues DEF RunState
  <2>2. run' \in RunState  BY <1>2, <2>1, PageType DEF RunReadsTaken, RunState
  <2> QED  BY <1>2, <2>2 DEF RunReadsTaken
<1>3. CASE RunStoresTaken
  <2>1. run' \in RunState  BY <1>3, PageType DEF RunStoresTaken, RunState
  <2>2. mirror' \in [Ids -> Nat] /\ lost' \subseteq Ids /\ late' \subseteq Ids
    BY <1>3, UpsertType DEF RunStoresTaken, RunState
  <2> QED  BY <1>3, <2>1, <2>2 DEF RunStoresTaken
<1>4. CASE RunReads
  <2>1. CASE Changed = {}
    <3>1. run' \in RunState  BY <1>4, <2>1 DEF RunReads, RunState
    <3> QED  BY <1>4, <3>1 DEF RunReads
  <2>2. CASE Changed # {}
    <3> DEFINE i == least(Changed)
    <3>1. i \in Ids /\ i \in 0..N
      BY <2>2, LeastChanged DEF Ids
    <3> HIDE DEF i
    <3>2. Page({i}) \in Pages  BY <3>1, PageType
    <3>3. later(run.newest, live[i].at) \in Nat  BY <3>1 DEF later, RunState, Live
    <3>4. run' = [run EXCEPT !.pc = "store", !.page = Page({i}), !.cursor = i,
                             !.newest = later(run.newest, live[i].at)]
      BY <1>4, <2>2 DEF RunReads, RunState, i
    <3>5. run' \in RunState  BY <3>1, <3>2, <3>3, <3>4 DEF RunState
    <3> QED  BY <1>4, <3>5 DEF RunReads
  <2> QED  BY <2>1, <2>2
<1>5. CASE RunStores
  <2>1. run' \in RunState  BY <1>5, PageType DEF RunStores, RunState
  <2>2. mirror' \in [Ids -> Nat] /\ lost' \subseteq Ids /\ late' \subseteq Ids
    BY <1>5, UpsertType DEF RunStores, RunState
  <2> QED  BY <1>5, <2>1, <2>2 DEF RunStores
<1>6. CASE RunSaves
  <2>1. late' \subseteq Ids  BY <1>6 DEF RunSaves, Late
  <2> QED  BY <1>6, <2>1 DEF RunSaves, RunState
<1>7. CASE RunCutOff
  BY <1>7 DEF RunCutOff, StaysPut
<1>8. CASE RunLosesTaken
  <2>1. DOMAIN run.page \subseteq Ids  BY PageValues DEF RunState
  <2>2. run' \in RunState  BY <1>8, PageType DEF RunLosesTaken, RunState
  <2> QED  BY <1>8, <2>1, <2>2 DEF RunLosesTaken
<1>9. CASE RunFails
  BY <1>9 DEF RunFails
<1> QED  BY <1>1, <1>2, <1>3, <1>4, <1>5, <1>6, <1>7, <1>8, <1>9 DEF Run

LEMMA SweepType ==
  ASSUME TypeOK, NEW s \in Sweeps, Sweep(s)
  PROVE  TypeOK'
<1> USE ConstantsType, CountedType DEF TypeOK, budget, autotask
<1>0. sweep[s] \in SweepState  OBVIOUS
<1>1. CASE SweepStarts(s)
  <2>1. [NoSweep EXCEPT !.pc = "walk", !.saved = limit] \in SweepState  BY DEF SweepState
  <2> QED  BY <1>1, <2>1 DEF SweepStarts
<1>2. CASE SweepReads(s)
  <2> DEFINE ahead == {i \in Ids : live[i].v # 0 /\ i > sweep[s].cursor}
  <2>1. CASE ahead = {}
    <3>1. [sweep[s] EXCEPT !.pc = "list", !.began = clock] \in SweepState  BY <1>0 DEF SweepState
    <3>2. sweep' \in [Sweeps -> SweepState]  BY <1>2, <2>1, <3>1 DEF SweepReads, SweepState
    <3> QED  BY <1>2, <3>2 DEF SweepReads
  <2>2. CASE ahead # {}
    <3> DEFINE i == least(ahead)
    <3>1. i \in Ids /\ i \in 0..N
      <4>1. i \in ahead  BY <2>2, Least
      <4> QED  BY <4>1 DEF Ids
    <3>2. sweep' = [sweep EXCEPT ![s].cursor = i, ![s].seen = @ \cup {i}]
      BY <1>2, <2>2 DEF SweepReads
    <3> HIDE DEF i
    <3>3. [sweep[s] EXCEPT !.cursor = i, !.seen = sweep[s].seen \cup {i}] \in SweepState
      BY <1>0, <3>1 DEF SweepState
    <3>4. sweep' \in [Sweeps -> SweepState]  BY <3>2, <3>3 DEF SweepState
    <3> QED  BY <1>2, <3>4 DEF SweepReads
  <2> QED  BY <2>1, <2>2
<1>3. ASSUME SweepEnds(s) PROVE sweep' \in [Sweeps -> SweepState] /\ limit' \in Nat
  <2>1. [NoSweep EXCEPT !.pc = "done"] \in SweepState  BY DEF SweepState
  <2> QED  BY <1>0, <1>3, <2>1 DEF SweepEnds, SweepState
<1>4. CASE SweepCutOff(s)
  BY <1>3, <1>4 DEF SweepCutOff
<1>5. CASE SweepLists(s)
  <2> DEFINE f == {i \in Ids : mirror[i] # 0} \ sweep[s].seen
  <2>1. [sweep[s] EXCEPT !.pc = "delete", !.found = f] \in SweepState  BY <1>0 DEF SweepState
  <2>2. sweep' \in [Sweeps -> SweepState]  BY <1>5, <2>1 DEF SweepLists, SweepState
  <2> QED  BY <1>5, <2>2 DEF SweepLists
<1>6. CASE SweepDeletes(s)
  <2>1. late' \subseteq Ids  BY <1>0, <1>6 DEF SweepDeletes, Late, SweepState
  <2> QED  BY <1>3, <1>6, <2>1 DEF SweepDeletes
<1> QED  BY <1>1, <1>2, <1>4, <1>5, <1>6 DEF Sweep

LEMMA AsideType ==
  ASSUME TypeOK, Tick \/ RefreshReads \/ RefreshStores \/ Restart
  PROVE  TypeOK'
<1> USE ConstantsType, CountedType DEF TypeOK, budget, autotask
<1>1. CASE Tick
  BY <1>1 DEF Tick
<1>2. CASE RefreshReads
  <2>1. refresh' \in RefreshState
    <3> PICK i \in Refreshed : refresh' = [pc |-> "store", page |-> Page({i}), began |-> clock]
      BY <1>2 DEF RefreshReads
    <3>1. Page({i}) \in Pages  BY PageType
    <3> QED  BY <3>1 DEF RefreshState
  <2> QED  BY <1>2, <2>1 DEF RefreshReads
<1>3. CASE RefreshStores
  <2>1. mirror' \in [Ids -> Nat] /\ lost' \subseteq Ids /\ late' \subseteq Ids
    BY <1>3, UpsertType DEF RefreshStores, RefreshState
  <2>2. refresh' \in RefreshState  BY <1>3 DEF RefreshStores, RefreshState
  <2> QED  BY <1>3, <2>1, <2>2 DEF RefreshStores
<1>4. CASE Restart
  <2>1. sweep' \in [Sweeps -> SweepState] /\ refresh' \in RefreshState
    BY <1>4 DEF Restart, SweepState, RefreshState
  <2>2. lost' \subseteq Ids
    BY <1>4, PageValues DEF Restart, RunState
  <2> QED  BY <1>4, <2>1, <2>2 DEF Restart
<1> QED  BY <1>1, <1>2, <1>3, <1>4

LEMMA NextType == TypeOK /\ [Next]_vars => TypeOK'
<1>1. TypeOK /\ UNCHANGED vars => TypeOK'
  BY DEF TypeOK, vars, autotask, budget
<1> QED  BY <1>1, WorldType, RunType, SweepType, AsideType DEF Next
-----------------------------------------------------------------------------
(* The inductive invariant.                                                *)

LEMMA TypeFacts ==
  ASSUME TypeOK
  PROVE  /\ clock \in Nat /\ clock # 0 /\ mark \in Nat
         /\ \A i \in Ids : live[i].v \in Nat /\ live[i].at \in Nat
         /\ run.began \in Nat /\ run.newest \in Nat /\ run.cursor \in Nat /\ run.page \in Pages
         /\ refresh.began \in Nat /\ refresh.page \in Pages
         /\ \A s \in Sweeps : sweep[s] \in SweepState /\ sweep[s].began \in Nat /\ sweep[s].cursor \in Nat
BY ConstantsType DEF TypeOK, Live, RunState, RefreshState, SweepState

LEMMA InitInv == Init => IInv
<1> SUFFICES ASSUME Init PROVE IInv
  OBVIOUS
<1>1. TypeOK  BY InitType
<1>2. Stamps /\ NothingMissed
  BY ConstantsType DEF Init, Stamps, Ids, NothingMissed, Mirrored
<1>3. Dates /\ Held /\ WalkDone /\ Seen
  BY DEF Init, NoRun, NoSweep, NoRefresh, Dates, Held, WalkDone, Walked, Seen
<1> QED  BY <1>1, <1>2, <1>3 DEF IInv

\* A change in Autotask is dated now: later than anything that is behind the
\* watermark, and not before any page that is held was read.
LEMMA WorldInv ==
  ASSUME IInv, NEW i \in Ids, EditedOutside(i) \/ WrittenByUs(i) \/ DeletedOutside(i)
  PROVE  IInv'
<1> USE ConstantsType, TypeFacts DEF IInv
<1>1. TypeOK'  BY WorldType
<1>2. UNCHANGED <<clock, mirror, mark, run, sweep, refresh>>
  BY DEF EditedOutside, WrittenByUs, DeletedOutside, Change, budget
<1>3. /\ live'[i].at = clock
      /\ \A j \in Ids \ {i} : live'[j] = live[j]
      /\ late' = late \ {i}
      /\ live[i].v # 0 \/ (live[i].at = 0 /\ \A j \in Ids : j < i => live[j].at # 0)
  <2>1. late' = late \ {i} /\ \E x : live' = [live EXCEPT ![i] = [v |-> x, at |-> clock]]
    BY DEF EditedOutside, WrittenByUs, DeletedOutside, Change
  <2>2. live[i].v # 0 \/ Writable(i)
    BY DEF EditedOutside, WrittenByUs, DeletedOutside, Change
  <2>3. Writable(i) => live[i].v # 0 \/ (live[i].at = 0 /\ \A j \in Ids : j < i => live[j].at # 0)
    BY DEF Writable, Ids
  <2> QED  BY <2>1, <2>2, <2>3 DEF TypeOK
<1>4. Stamps'  BY <1>1, <1>2, <1>3 DEF Stamps
<1>5. Dates'  BY <1>2 DEF Dates
<1>6. Held'
  <2>1. ASSUME NEW page, NEW since \in Nat, since <= clock, Holds(page, since) PROVE Holds(page, since)'
    BY <1>3, <2>1 DEF Holds
  <2> QED  BY <1>2, <2>1 DEF Held, Dates
<1>7. NothingMissed'  BY <1>2, <1>3 DEF NothingMissed, Mirrored, Since, Dates
<1>8. WalkDone'
  BY <1>2, <1>3 DEF WalkDone, Walked, Mirrored, Dates
<1>9. Seen'
  <2> SUFFICES ASSUME NEW s \in Sweeps, NEW j \in Ids
               PROVE  /\ sweep[s].pc = "walk" /\ j <= sweep[s].cursor =>
                           live'[j].at # 0 /\ (live'[j].v # 0 => j \in sweep[s].seen)
                      /\ sweep[s].pc \in {"list", "delete"} /\ live'[j].v # 0 /\ j \notin sweep[s].seen
                           => sweep[s].began <= live'[j].at
    BY <1>2 DEF Seen
  <2>1. CASE j # i
    BY <1>3, <2>1 DEF Seen
  <2>2. CASE j = i
    BY <1>3, <2>2 DEF Seen, Dates
  <2> QED  BY <2>1, <2>2
<1> QED  BY <1>1, <1>4, <1>5, <1>6, <1>7, <1>8, <1>9

\* What is stored is right for every row that changed before the page was read.
LEMMA UpsertMirrors ==
  ASSUME TypeOK, NEW page \in Pages, NEW since \in Nat, Holds(page, since), Upsert(page, since), live' = live,
         NEW i \in Ids, live[i].at < since, Mirrored(i) \/ i \in late
  PROVE  Mirrored(i)' \/ i \in late'
<1>1. i \in DOMAIN page => page[i] = live[i].v
  BY TypeFacts DEF Holds
<1> QED  BY <1>1 DEF Upsert, Mirrored

LEMMA UpsertBehind ==
  ASSUME IInv, NEW page \in Pages, NEW since \in Nat, Holds(page, since),
         Upsert(page, since), UNCHANGED <<live, mark>>
  PROVE  NothingMissed'
<1> SUFFICES ASSUME NEW i \in Ids, live[i].at < mark - Overlap PROVE Mirrored(i)' \/ i \in late'
  BY DEF NothingMissed, Since
<1>1. Mirrored(i) \/ i \in late  BY DEF IInv, NothingMissed, Since
<1>2. CASE live[i].at < since
  BY <1>1, <1>2, UpsertMirrors DEF IInv
<1>3. CASE since <= live[i].at
  <2>1. live[i].at + Overlap < clock  BY ConstantsType, TypeFacts DEF IInv, Dates
  <2> QED  BY <1>1, <1>3, <2>1 DEF Upsert, Late, Mirrored
<1> QED  BY <1>2, <1>3, TypeFacts DEF IInv

\* A page that has just been read holds, now and from any earlier time on.
LEMMA Fresh ==
  ASSUME NEW S \in SUBSET Ids, NEW since
  PROVE  Holds(Page(S), since)
BY DEF Holds, Page

\* A step of the run that reads nothing of a walk and stores nothing.
LEMMA RunMoves ==
  ASSUME IInv, TypeOK', UNCHANGED <<live, clock, mirror, mark, sweep, refresh, late>>,
         \/ run'.pc = "idle"
         \/ /\ run'.pc \in {"taken", "reread", "walk"}
            /\ run'.began = IF run.pc = "idle" THEN Earliest ELSE run.began
            /\ run'.newest <= clock /\ run'.cursor = 0
            /\ run'.pc = "reread" => Holds(run'.page, run'.began)
  PROVE  IInv'
<1> USE ConstantsType, TypeFacts DEF IInv
<1>1. Stamps' /\ NothingMissed' /\ Seen'
  BY DEF Stamps, NothingMissed, Since, Mirrored, Seen
<1>2. Dates'  BY EarliestType DEF Dates
<1>3. Held'  BY DEF Held, Holds
<1>4. WalkDone'  BY DEF WalkDone, Walked, Ids
<1> QED  BY <1>1, <1>2, <1>3, <1>4

LEMMA RunInv ==
  ASSUME IInv, Run \/ RunLosesTaken \/ RunFails
  PROVE  IInv'
<1> USE ConstantsType, TypeFacts DEF IInv
<1>1. TypeOK'  BY RunType
<1>2. UNCHANGED <<live, clock, sweep, refresh>>
  BY DEF Run, RunLosesTaken, RunFails, RunStarts, RunReadsTaken, RunStoresTaken, RunReads, RunStores,
         RunSaves, RunCutOff, autotask
<1>3. Stamps' /\ Seen'  BY <1>2 DEF Stamps, Seen
<1>4. refresh.pc = "store" => Holds(refresh.page, refresh.began)'  BY <1>2 DEF Held, Holds
<1>5. CASE RunStarts
  <2>1. /\ run'.pc \in {"taken", "walk"} /\ run'.began = Earliest /\ run'.newest = mark /\ run'.cursor = 0
        /\ UNCHANGED <<mirror, mark, late>> /\ run.pc = "idle"
    BY <1>5 DEF RunStarts, NoRun
  <2>2. run'.newest <= clock  BY <2>1 DEF Dates
  <2> QED  BY <1>1, <1>2, <2>1, <2>2, RunMoves
<1>6. CASE RunReadsTaken
  <2>1. /\ run'.pc = "reread" /\ run'.began = run.began /\ run'.newest = run.newest
        /\ run'.cursor = run.cursor /\ run'.page = Page(DOMAIN run.page)
        /\ UNCHANGED <<mirror, mark, late>> /\ run.pc = "taken"
    BY <1>6 DEF RunReadsTaken, TypeOK, RunState
  <2>2. Holds(run'.page, run'.began)
    BY <2>1, Fresh, PageValues
  <2> QED  BY <1>1, <1>2, <2>1, <2>2, RunMoves DEF Dates, Held
<1>7. CASE RunStoresTaken
  <2>1. /\ run'.pc = "walk" /\ run'.began = run.began /\ run'.newest = run.newest
        /\ run'.cursor = 0 /\ UNCHANGED mark /\ run.pc = "reread"
    BY <1>7 DEF RunStoresTaken, TypeOK, RunState, Held
  <2>2. NothingMissed'
    BY <1>2, <1>7, <2>1, UpsertBehind DEF RunStoresTaken, Held, Dates
  <2>3. Dates' /\ Held'
    BY <1>2, <1>4, <2>1 DEF Dates, Held
  <2>4. WalkDone'
    BY <2>1 DEF WalkDone, Walked, Ids
  <2> QED  BY <1>1, <1>3, <2>2, <2>3, <2>4
<1>8. CASE RunReads
  <2>0. run.pc = "walk" /\ UNCHANGED <<mirror, mark, late>>
    BY <1>8 DEF RunReads
  <2>1. NothingMissed'
    BY <1>2, <2>0 DEF NothingMissed, Since, Mirrored
  <2>2. CASE Changed = {}
    <3>1. run'.pc = "save" /\ run'.began = run.began /\ run'.newest = run.newest
      BY <1>8, <2>2 DEF RunReads, TypeOK, RunState
    <3>2. Dates' /\ Held'
      BY <1>2, <1>4, <2>0, <3>1 DEF Dates, Held
    <3>3. WalkDone'
      <4> SUFFICES ASSUME NEW i \in Ids, live[i].at < run.began PROVE Mirrored(i) \/ i \in late
        BY <1>2, <2>0, <3>1 DEF WalkDone, Mirrored
      <4>1. CASE i <= run.cursor
        BY <2>0, <4>1 DEF WalkDone, Walked
      <4>2. CASE i > run.cursor
        <5>1. live[i].v = 0 \/ live[i].at < Since
          BY <2>2, <4>2 DEF Changed, Since
        <5> QED  BY <5>1 DEF NothingMissed, Mirrored
      <4> QED  BY <4>1, <4>2 DEF Ids
    <3> QED  BY <1>1, <1>3, <2>1, <3>2, <3>3
  <2>3. CASE Changed # {}
    <3> DEFINE c == least(Changed)
    <3>1. c \in Changed /\ \A j \in Changed : c <= j
      BY <2>3, Least DEF Changed
    <3>2. c \in Ids  BY <3>1 DEF Changed
    <3>3. /\ run'.pc = "store" /\ run'.began = run.began /\ run'.cursor = c
          /\ run'.page = Page({c}) /\ run'.newest = later(run.newest, live[c].at)
      BY <1>8, <2>3 DEF RunReads, TypeOK, RunState
    <3> HIDE DEF c
    <3>4. run'.newest <= clock
      BY <2>0, <3>2, <3>3 DEF later, Dates, Stamps
    <3>5. Dates'
      BY <1>2, <2>0, <3>3, <3>4 DEF Dates
    <3>6. Held'
      <4>1. {c} \in SUBSET Ids  BY <3>2
      <4>2. Holds(run'.page, run'.began)  BY <3>3, <4>1, Fresh
      <4>3. DOMAIN run'.page = {c}  BY <3>3 DEF Page
      <4> QED  BY <1>2, <1>4, <3>3, <4>2, <4>3 DEF Held, Holds
    <3>7. WalkDone'
      <4> SUFFICES ASSUME NEW i \in Ids, i < c, live[i].at < run.began PROVE Mirrored(i) \/ i \in late
        BY <1>2, <2>0, <3>3 DEF WalkDone, Walked, Mirrored
      <4>1. CASE i <= run.cursor
        BY <2>0, <4>1 DEF WalkDone, Walked
      <4>2. CASE i > run.cursor
        <5>1. live[i].v = 0 \/ live[i].at < Since
          BY <3>1, <3>2, <4>2 DEF Changed, Since, Ids
        <5> QED  BY <5>1 DEF NothingMissed, Mirrored
      <4> QED  BY <4>1, <4>2 DEF Ids
    <3> QED  BY <1>1, <1>3, <2>1, <3>5, <3>6, <3>7
  <2> QED  BY <2>2, <2>3
<1>9. CASE RunStores
  <2>1. /\ run'.pc = "walk" /\ run'.began = run.began /\ run'.newest = run.newest
        /\ run'.cursor = run.cursor /\ UNCHANGED mark /\ run.pc = "store"
        /\ Upsert(run.page, run.began)
    BY <1>9 DEF RunStores, TypeOK, RunState
  <2>2. NothingMissed'
    BY <1>2, <2>1, UpsertBehind DEF Held, Dates
  <2>3. Dates' /\ Held'
    BY <1>2, <1>4, <2>1 DEF Dates, Held
  <2>4. WalkDone'
    <3> SUFFICES ASSUME NEW i \in Ids, i <= run.cursor, live[i].at < run.began
                 PROVE  Mirrored(i)' \/ i \in late'
      BY <1>2, <2>1 DEF WalkDone, Walked
    <3>2. CASE i < run.cursor
      <4>1. Mirrored(i) \/ i \in late  BY <2>1, <3>2 DEF WalkDone, Walked
      <4> QED  BY <1>2, <2>1, <4>1, UpsertMirrors DEF Held
    <3>3. CASE i = run.cursor
      <4>1. i \in DOMAIN run.page /\ run.page[i] = live[i].v
        BY <2>1, <3>3 DEF Held, Holds
      <4> QED  BY <1>2, <2>1, <4>1 DEF Upsert, Mirrored
    <3> QED  BY <3>2, <3>3 DEF Ids
  <2> QED  BY <1>1, <1>3, <2>2, <2>3, <2>4
<1>10. CASE RunSaves
  <2>1. /\ mark' = run.newest /\ run'.pc = "idle" /\ UNCHANGED mirror /\ run.pc = "save"
        /\ late' = late \cup Late(Ids, run.began)
    BY <1>10 DEF RunSaves, NoRun
  <2>2. Dates' /\ Held' /\ WalkDone'
    BY <1>2, <1>4, <2>1 DEF Dates, Held, WalkDone, Walked
  <2>3. NothingMissed'
    <3> SUFFICES ASSUME NEW i \in Ids, live[i].at < run.newest - Overlap PROVE Mirrored(i) \/ i \in late'
      BY <1>2, <2>1 DEF NothingMissed, Since, Mirrored
    <3>1. CASE live[i].at < run.began
      BY <2>1, <3>1 DEF WalkDone, Walked
    <3>2. CASE run.began <= live[i].at
      <4>1. live[i].at + Overlap < clock  BY <2>1 DEF Dates
      <4> QED  BY <2>1, <3>2, <4>1 DEF Late
    <3> QED  BY <3>1, <3>2
  <2> QED  BY <1>1, <1>3, <2>2, <2>3
<1>11. CASE RunCutOff \/ RunFails
  <2>1. run'.pc = "idle" /\ UNCHANGED <<mirror, mark, late>>
    BY <1>11 DEF RunCutOff, RunFails, StaysPut, NoRun
  <2> QED  BY <1>1, <1>2, <2>1, RunMoves
<1>12. CASE RunLosesTaken
  <2>1. /\ run'.pc = "walk" /\ run'.began = run.began /\ run'.newest = run.newest
        /\ run'.cursor = run.cursor /\ UNCHANGED <<mirror, mark, late>> /\ run.pc = "taken"
    BY <1>12 DEF RunLosesTaken, TypeOK, RunState
  <2> QED  BY <1>1, <1>2, <2>1, RunMoves DEF Dates, Held
<1> QED  BY <1>5, <1>6, <1>7, <1>8, <1>9, <1>10, <1>11, <1>12 DEF Run

LEMMA SweepInv ==
  ASSUME IInv, NEW s \in Sweeps, Sweep(s)
  PROVE  IInv'
<1> USE ConstantsType, TypeFacts DEF IInv
<1>1. TypeOK'  BY SweepType
<1>2. UNCHANGED <<live, clock, mark, run, refresh>>
  BY DEF Sweep, SweepStarts, SweepReads, SweepCutOff, SweepLists, SweepDeletes, autotask
<1>3. Stamps'  BY <1>2 DEF Stamps
<1>4. Held'  BY <1>2 DEF Held, Holds
<1>5. \A t \in Sweeps \ {s} : sweep'[t] = sweep[t]
  BY DEF TypeOK, Sweep, SweepStarts, SweepReads, SweepCutOff, SweepLists, SweepDeletes, SweepEnds
<1>6. ASSUME UNCHANGED <<mirror, late>> PROVE NothingMissed' /\ WalkDone'
  BY <1>2, <1>6 DEF NothingMissed, Since, Mirrored, WalkDone, Walked
\* What the other reconciles and the clocks say stays; s itself is left to show.
<1>7. ASSUME /\ sweep'[s].pc \in {"list", "delete"} =>
                  sweep'[s].began <= clock /\ (run.pc # "idle" => run.began <= sweep'[s].began)
                  /\ \A i \in Ids : live[i].v # 0 /\ i \notin sweep'[s].seen => sweep'[s].began <= live[i].at
             /\ sweep'[s].pc = "walk" => \A i \in Ids : i <= sweep'[s].cursor =>
                  live[i].at # 0 /\ (live[i].v # 0 => i \in sweep'[s].seen)
             /\ sweep'[s].pc = "delete" => sweep'[s].found \cap sweep'[s].seen = {}
      PROVE  Dates' /\ Seen'
  BY <1>2, <1>5, <1>7 DEF Dates, Seen
<1>8. CASE SweepStarts(s)
  <2>1. sweep'[s].pc = "walk" /\ sweep'[s].cursor = 0 /\ UNCHANGED <<mirror, late>>
    BY <1>8 DEF SweepStarts, NoSweep, TypeOK
  <2>2. Dates' /\ Seen'  BY <1>7, <2>1 DEF Ids
  <2> QED  BY <1>1, <1>3, <1>4, <1>6, <2>1, <2>2
<1>9. CASE SweepReads(s)
  <2> DEFINE ahead == {i \in Ids : live[i].v # 0 /\ i > sweep[s].cursor}
  <2>0. sweep[s].pc = "walk" /\ UNCHANGED <<mirror, late>>
    BY <1>9 DEF SweepReads
  <2>1. CASE ahead = {}
    <3>1. sweep'[s].pc = "list" /\ sweep'[s].began = clock /\ sweep'[s].seen = sweep[s].seen
      BY <1>9, <2>1 DEF SweepReads, TypeOK, SweepState
    <3>2. \A i \in Ids : live[i].v # 0 => i \in sweep[s].seen
      BY <2>0, <2>1 DEF Seen, Ids
    <3>3. Dates' /\ Seen'  BY <1>7, <3>1, <3>2 DEF Dates
    <3> QED  BY <1>1, <1>3, <1>4, <1>6, <2>0, <3>3
  <2>2. CASE ahead # {}
    <3> DEFINE c == least(ahead)
    <3>1. c \in ahead /\ \A j \in ahead : c <= j
      BY <2>2, Least
    <3>2. /\ sweep'[s].pc = "walk" /\ sweep'[s].cursor = c /\ sweep'[s].seen = sweep[s].seen \cup {c}
      BY <1>9, <2>0, <2>2 DEF SweepReads, TypeOK, SweepState
    <3> HIDE DEF c
    <3>3. \A i \in Ids : i <= c => live[i].at # 0 /\ (live[i].v # 0 => i \in sweep[s].seen \cup {c})
      <4> SUFFICES ASSUME NEW i \in Ids, i <= c
                   PROVE  live[i].at # 0 /\ (live[i].v # 0 => i \in sweep[s].seen \cup {c})
        OBVIOUS
      <4>1. c \in Ids /\ live[c].at # 0  BY <3>1 DEF Stamps
      <4>2. live[i].at # 0  BY <4>1 DEF Stamps, Ids
      <4>3. CASE i <= sweep[s].cursor
        BY <2>0, <4>2, <4>3 DEF Seen
      <4>4. CASE i > sweep[s].cursor
        BY <3>1, <4>1, <4>2, <4>4 DEF Ids
      <4> QED  BY <4>3, <4>4 DEF Ids
    <3>4. Dates' /\ Seen'  BY <1>7, <3>2, <3>3
    <3> QED  BY <1>1, <1>3, <1>4, <1>6, <2>0, <3>4
  <2> QED  BY <2>1, <2>2
<1>10. CASE SweepCutOff(s)
  <2>1. sweep'[s].pc = "done" /\ UNCHANGED <<mirror, late>>
    BY <1>10 DEF SweepCutOff, SweepEnds, NoSweep, TypeOK
  <2>2. Dates' /\ Seen'  BY <1>7, <2>1
  <2> QED  BY <1>1, <1>3, <1>4, <1>6, <2>1, <2>2
<1>11. CASE SweepLists(s)
  <2>1. /\ sweep[s].pc = "list" /\ sweep'[s].pc = "delete" /\ sweep'[s].began = sweep[s].began
        /\ sweep'[s].seen = sweep[s].seen /\ UNCHANGED <<mirror, late>>
        /\ sweep'[s].found = {i \in Ids : mirror[i] # 0} \ sweep[s].seen
    BY <1>11 DEF SweepLists, TypeOK, SweepState
  <2>2. Dates' /\ Seen'  BY <1>7, <2>1 DEF Dates, Seen
  <2> QED  BY <1>1, <1>3, <1>4, <1>6, <2>1, <2>2
<1>12. CASE SweepDeletes(s)
  <2>1. sweep[s].pc = "delete" /\ sweep'[s].pc = "done"
        /\ mirror' = [i \in Ids |-> IF i \in sweep[s].found THEN 0 ELSE mirror[i]]
        /\ late' = late \cup Late(sweep[s].found, sweep[s].began)
    BY <1>12 DEF SweepDeletes, SweepEnds, NoSweep, TypeOK
  <2>2. Dates' /\ Seen'  BY <1>7, <2>1
  \* A row that is there but was not seen came after the walk had ended.
  <2>3. ASSUME NEW i \in Ids, live[i].at < sweep[s].began, Mirrored(i) PROVE Mirrored(i)'
    <3>1. live[i].v # 0 => i \in sweep[s].seen  BY <2>1, <2>3 DEF Seen
    <3>2. live[i].v # 0 => i \notin sweep[s].found  BY <2>1, <3>1 DEF Seen
    <3> QED  BY <1>2, <2>1, <2>3, <3>2 DEF Mirrored
  <2>4. NothingMissed'
    <3> SUFFICES ASSUME NEW i \in Ids, live[i].at < mark - Overlap PROVE Mirrored(i)' \/ i \in late'
      BY <1>2 DEF NothingMissed, Since
    <3>1. Mirrored(i) \/ i \in late  BY DEF NothingMissed, Since
    <3>2. CASE live[i].at < sweep[s].began
      BY <2>1, <2>3, <3>1, <3>2
    <3>3. CASE sweep[s].began <= live[i].at
      <4>1. live[i].at + Overlap < clock  BY DEF Dates
      <4> QED  BY <1>2, <2>1, <3>1, <3>3, <4>1 DEF Late, Mirrored
    <3> QED  BY <3>2, <3>3
  <2>5. WalkDone'
    <3> SUFFICES ASSUME NEW i \in Ids, Walked(i), live[i].at < run.began PROVE Mirrored(i)' \/ i \in late'
      BY <1>2 DEF WalkDone, Walked
    <3>1. live[i].at < sweep[s].began  BY <2>1 DEF Dates, Walked
    <3> QED  BY <2>1, <2>3, <3>1 DEF WalkDone
  <2> QED  BY <1>1, <1>3, <1>4, <2>2, <2>4, <2>5
<1> QED  BY <1>8, <1>9, <1>10, <1>11, <1>12 DEF Sweep

LEMMA AsideInv ==
  ASSUME IInv, Tick \/ RefreshReads \/ RefreshStores \/ Restart
  PROVE  IInv'
<1> USE ConstantsType, TypeFacts DEF IInv
<1>1. TypeOK'  BY AsideType
<1>2. UNCHANGED <<live, mark>>
  BY DEF Tick, RefreshReads, RefreshStores, Restart, autotask
<1>3. CASE Tick
  <2>1. clock' = clock + 1 /\ UNCHANGED <<mirror, run, sweep, refresh, late>>
    BY <1>3 DEF Tick
  <2>2. Stamps'  BY <1>2, <2>1 DEF Stamps
  <2>3. Dates'  BY <1>2, <2>1 DEF Dates
  <2>4. Held' /\ WalkDone' /\ Seen' /\ NothingMissed'
    BY <1>2, <2>1 DEF Held, Holds, WalkDone, Walked, Mirrored, Seen, NothingMissed, Since
  <2> QED  BY <1>1, <2>2, <2>3, <2>4
<1>4. CASE RefreshReads
  <2>1. UNCHANGED <<clock, mirror, run, sweep, late>>
    BY <1>4 DEF RefreshReads, autotask
  <2> PICK i \in Refreshed : refresh' = [pc |-> "store", page |-> Page({i}), began |-> clock]
    BY <1>4 DEF RefreshReads
  <2>2. Stamps' /\ Dates' /\ WalkDone' /\ Seen' /\ NothingMissed'
    BY <1>2, <2>1 DEF Stamps, Dates, WalkDone, Walked, Mirrored, Seen, NothingMissed, Since
  <2>3. Held'
    <3>1. Holds(refresh'.page, refresh'.began)  BY Fresh
    <3> QED  BY <1>2, <2>1, <3>1 DEF Held, Holds
  <2> QED  BY <1>1, <2>2, <2>3
<1>5. CASE RefreshStores
  <2>1. /\ refresh.pc = "store" /\ refresh'.pc = "idle" /\ Upsert(refresh.page, refresh.began)
        /\ UNCHANGED <<clock, run, sweep>>
    BY <1>5 DEF RefreshStores, NoRefresh, autotask
  <2>2. Stamps' /\ Dates' /\ Held' /\ Seen'
    BY <1>2, <2>1 DEF Stamps, Dates, Held, Holds, Seen
  <2>3. NothingMissed'
    BY <1>2, <2>1, UpsertBehind DEF Held, Dates
  <2>4. WalkDone'
    <3> SUFFICES ASSUME NEW i \in Ids, Walked(i), live[i].at < run.began PROVE Mirrored(i)' \/ i \in late'
      BY <1>2, <2>1 DEF WalkDone, Walked
    <3>1. live[i].at < refresh.began  BY <2>1 DEF Dates, Walked
    <3>2. Mirrored(i) \/ i \in late  BY DEF WalkDone
    <3> QED  BY <1>2, <2>1, <3>1, <3>2, UpsertMirrors DEF Held
  <2> QED  BY <1>1, <2>2, <2>3, <2>4
<1>6. CASE Restart
  <2>1. /\ run'.pc = "idle" /\ refresh'.pc = "idle" /\ \A s \in Sweeps : sweep'[s].pc = "done"
        /\ UNCHANGED <<clock, mirror, late>>
    BY <1>6 DEF Restart, NoRun, NoSweep, NoRefresh, autotask
  <2>2. Stamps' /\ Dates' /\ Held' /\ WalkDone' /\ Seen' /\ NothingMissed'
    BY <1>2, <2>1 DEF Stamps, Dates, Held, WalkDone, Walked, Mirrored, Seen, NothingMissed, Since
  <2> QED  BY <1>1, <2>2
<1> QED  BY <1>3, <1>4, <1>5, <1>6

LEMMA NextInv == IInv /\ [Next]_vars => IInv'
<1>1. ASSUME IInv, UNCHANGED vars PROVE IInv'
  <2>1. TypeOK'  BY <1>1, NextType DEF IInv
  <2>2. Stamps' /\ Dates' /\ Held' /\ WalkDone' /\ Seen' /\ NothingMissed'
    BY <1>1 DEF IInv, vars, autotask, Stamps, Dates, Held, Holds, WalkDone, Walked, Mirrored, Seen,
                NothingMissed, Since
  <2> QED  BY <2>1, <2>2 DEF IInv
<1> QED  BY <1>1, WorldInv, RunInv, SweepInv, AsideInv DEF Next

\* Whatever is read, stored and deleted at once, the pages that are held, the walk
\* and the reconciles are right up to what has changed since.
THEOREM Invariance == Spec => []IInv
BY InitInv, NextInv, PTL DEF Spec

\* No row that lies behind the watermark less its overlap is old or hidden in the
\* mirror (ShadowSync.incremental), for any number of rows, changes, reconciles,
\* refreshes, failures and restarts, however long each of them takes, but the rows that
\* changed in the course of one of them and more than the overlap before its end.
THEOREM BehindTheMark == Spec => []NothingMissed
<1>1. IInv => NothingMissed  BY DEF IInv
<1> QED  BY <1>1, Invariance, PTL
-----------------------------------------------------------------------------
(* By-id reads.                                                            *)

\* A stored page leaves a written row old only when it counts it as overtaken, or
\* when it does not hold that row.
LEMMA UpsertOld ==
  ASSUME TypeOK, NEW page \in Pages, NEW since, Upsert(page, since), NEW i \in Ids,
         mirror'[i] # 0, mirror'[i] < own[i], i \notin lost'
  PROVE  i \notin DOMAIN page /\ mirror'[i] = mirror[i] /\ i \notin lost
BY DEF Upsert

\* A row keeps its reason to be old, or to be off the mirror's answers, in every step.
LEMMA NextOld == TypeOK /\ OldIsDirty /\ [Next]_vars => OldIsDirty'
<1> SUFFICES ASSUME TypeOK, OldIsDirty, [Next]_vars, NEW i \in Ids, mirror'[i] # 0, mirror'[i] < own'[i],
                    i \notin lost'
             PROVE  i \in dirty' \/ (run'.pc \in {"taken", "reread"} /\ i \in DOMAIN run'.page)
  BY DEF OldIsDirty
<1> USE TypeFacts
<1> DEFINE Old == mirror[i] # 0 /\ mirror[i] < own[i] /\ i \notin lost
           Off == i \in dirty \/ (run.pc \in {"taken", "reread"} /\ i \in DOMAIN run.page)
<1>1. Old => Off  BY DEF OldIsDirty
<1>2. CASE RunStarts
  <2>1. Old /\ run.pc = "idle" /\ UNCHANGED <<mirror, own, lost>>  BY <1>2 DEF RunStarts
  <2>2. i \in dirty  BY <1>1, <2>1
  <2> QED  BY <1>2, <2>2 DEF RunStarts, NoRun
<1>3. CASE RunReadsTaken
  <2>1. Old /\ UNCHANGED dirty  BY <1>3 DEF RunReadsTaken
  <2>2. run'.pc = "reread" /\ DOMAIN run'.page = DOMAIN run.page
    BY <1>3 DEF RunReadsTaken, TypeOK, RunState, Page
  <2> QED  BY <1>1, <2>1, <2>2
<1>4. CASE RunStoresTaken
  <2>1. run.page \in Pages /\ Upsert(run.page, run.began) /\ UNCHANGED <<own, dirty>>
    BY <1>4 DEF RunStoresTaken
  <2>2. Old /\ i \notin DOMAIN run.page  BY <2>1, UpsertOld
  <2> QED  BY <1>1, <2>1, <2>2
<1>5. CASE RunLosesTaken
  BY <1>1, <1>5 DEF RunLosesTaken
<1>6. CASE RunReads \/ RunSaves \/ RunCutOff \/ RunFails
  <2>1. Old /\ UNCHANGED dirty /\ run.pc \notin {"taken", "reread"}
    BY <1>6 DEF RunReads, RunSaves, RunCutOff, RunFails
  <2> QED  BY <1>1, <2>1
<1>7. CASE RunStores
  <2>1. run.pc = "store" /\ run.page \in Pages /\ Upsert(run.page, run.began) /\ UNCHANGED <<own, dirty>>
    BY <1>7 DEF RunStores
  <2>2. Old  BY <2>1, UpsertOld
  <2> QED  BY <1>1, <2>1, <2>2
<1>8. CASE RefreshStores
  <2>1. refresh.page \in Pages /\ Upsert(refresh.page, refresh.began) /\ UNCHANGED <<own, dirty, run>>
    BY <1>8 DEF RefreshStores
  <2>2. Old  BY <2>1, UpsertOld
  <2> QED  BY <1>1, <2>1, <2>2
<1>9. CASE Tick \/ RefreshReads \/ UNCHANGED vars
  <2>1. Old /\ UNCHANGED <<dirty, run>>  BY <1>9 DEF Tick, RefreshReads, vars
  <2> QED  BY <1>1, <2>1
<1>10. CASE Restart
  BY <1>1, <1>10 DEF Restart
<1>11. ASSUME NEW s \in Sweeps, Sweep(s) PROVE i \in dirty' \/ (run'.pc \in {"taken", "reread"} /\ i \in DOMAIN run'.page)
  <2>1. UNCHANGED <<dirty, run, own, lost>> /\ mirror'[i] \in {0, mirror[i]}
    BY <1>11 DEF Sweep, SweepStarts, SweepReads, SweepCutOff, SweepLists, SweepDeletes
  <2> QED  BY <1>1, <2>1
\* A write of the MCP raises what the row must show, and makes it dirty.
<1>12. ASSUME NEW j \in Ids, EditedOutside(j) \/ WrittenByUs(j) \/ DeletedOutside(j)
       PROVE  i \in dirty' \/ (run'.pc \in {"taken", "reread"} /\ i \in DOMAIN run'.page)
  <2>1. UNCHANGED <<mirror, run, lost>> /\ dirty \subseteq dirty'
    BY <1>12 DEF EditedOutside, WrittenByUs, DeletedOutside, Change, Queued
  <2>2. CASE own'[i] = own[i]  BY <1>1, <2>1, <2>2
  <2>3. CASE own'[i] # own[i]
    <3>1. WrittenByUs(j) /\ i = j
      BY <1>12, <2>3 DEF EditedOutside, WrittenByUs, DeletedOutside, Change, TypeOK
    <3> QED  BY <3>1 DEF WrittenByUs, Queued
  <2> QED  BY <2>2, <2>3
<1> QED  BY <1>2, <1>3, <1>4, <1>5, <1>6, <1>7, <1>8, <1>9, <1>10, <1>11, <1>12 DEF Next, Run

\* A row the MCP wrote is not answered from an older copy (shadowGet asks isDirty): it
\* is dirty until it is read again, unless that read failed, the process restarted or a
\* slower refresh overtook it, for any number of rows, runs, reconciles and writes.
THEOREM WrittenIsDirty == Spec => []OldIsDirty
<1>1. Init => OldIsDirty
  BY ConstantsType DEF Init, OldIsDirty
<1>2. IInv => TypeOK  BY DEF IInv
<1> QED  BY <1>1, <1>2, NextOld, Invariance, PTL DEF Spec
-----------------------------------------------------------------------------
(* The limit of calls.                                                     *)

Sweeping(s) == sweep[s].pc \notin {"idle", "done"}
\* No reconcile begins before the one before it has ended.
OneSweep == \A s, t \in Sweeps : Sweeping(s) /\ Sweeping(t) => s = t

\* A reconcile that is going on will put back the configured limit.
Saved == \A s \in Sweeps : Sweeping(s) => sweep[s].saved = MaxCalls

LEMMA NextBudget ==
  TypeOK /\ OneSweep /\ OneSweep' /\ BudgetRestored /\ Saved /\ [Next]_vars
    => BudgetRestored' /\ Saved'
<1> SUFFICES ASSUME TypeOK, OneSweep, OneSweep', BudgetRestored, Saved, [Next]_vars
             PROVE  BudgetRestored' /\ Saved'
  OBVIOUS
<1>0. sweep \in [Sweeps -> SweepState] /\ NoSweep \in SweepState
  BY ConstantsType DEF TypeOK
<1>1. CASE UNCHANGED <<sweep, limit>>
  BY <1>1 DEF BudgetRestored, Saved, Sweeping
<1>2. ASSUME NEW s \in Sweeps, SweepStarts(s) PROVE BudgetRestored' /\ Saved'
  <2> DEFINE w == [NoSweep EXCEPT !.pc = "walk", !.saved = limit]
  <2>1. sweep' = [sweep EXCEPT ![s] = w]  BY <1>2 DEF SweepStarts
  <2>2. w.pc = "walk" /\ w.saved = limit  BY <1>0 DEF SweepState
  <2>3. sweep'[s] = w /\ \A t \in Sweeps : t # s => sweep'[t] = sweep[t]  BY <1>0, <2>1
  <2> HIDE DEF w
  <2>4. \A t \in Sweeps : ~Sweeping(t)
    BY <1>2, <2>2, <2>3 DEF OneSweep, Sweeping, SweepStarts
  <2>5. limit = MaxCalls  BY <2>4 DEF BudgetRestored, Sweeping
  <2> QED  BY <2>2, <2>3, <2>4, <2>5 DEF BudgetRestored, Saved, Sweeping
<1>3. ASSUME NEW s \in Sweeps, SweepEnds(s), Sweeping(s) PROVE BudgetRestored' /\ Saved'
  <2> DEFINE d == [NoSweep EXCEPT !.pc = "done"]
  <2>1. sweep' = [sweep EXCEPT ![s] = d] /\ limit' = sweep[s].saved  BY <1>3 DEF SweepEnds
  <2>2. d.pc = "done"  BY <1>0 DEF SweepState
  <2> HIDE DEF d
  <2> QED  BY <1>0, <1>3, <2>1, <2>2 DEF BudgetRestored, Saved, Sweeping
<1>4. ASSUME NEW s \in Sweeps, SweepReads(s) \/ SweepLists(s) PROVE BudgetRestored' /\ Saved'
  <2>1. Sweeping(s)  BY <1>4 DEF SweepReads, SweepLists, Sweeping
  <2>2. PICK x \in SweepState :
          sweep' = [sweep EXCEPT ![s] = x] /\ x.pc \in {"walk", "list", "delete"} /\ x.saved = sweep[s].saved
    <3>1. CASE SweepLists(s)
      <4> DEFINE x == [sweep[s] EXCEPT !.pc = "delete", !.found = {i \in Ids : mirror[i] # 0} \ sweep[s].seen]
      <4>1. x \in SweepState /\ x.pc = "delete" /\ x.saved = sweep[s].saved  BY <1>0 DEF SweepState
      <4>2. sweep' = [sweep EXCEPT ![s] = x]  BY <1>0, <3>1 DEF SweepLists
      <4> QED  BY <4>1, <4>2
    <3>2. CASE SweepReads(s)
      <4> DEFINE ahead == {i \in Ids : live[i].v # 0 /\ i > sweep[s].cursor}
      <4>1. CASE ahead = {}
        <5> DEFINE x == [sweep[s] EXCEPT !.pc = "list", !.began = clock]
        <5>1. x \in SweepState /\ x.pc = "list" /\ x.saved = sweep[s].saved
          BY <1>0 DEF SweepState, TypeOK
        <5>2. sweep' = [sweep EXCEPT ![s] = x]  BY <1>0, <3>2, <4>1 DEF SweepReads
        <5> QED  BY <5>1, <5>2
      <4>2. CASE ahead # {}
        <5> DEFINE i == least(ahead)
                   x == [sweep[s] EXCEPT !.cursor = i, !.seen = sweep[s].seen \cup {i}]
        <5>1. i \in Ids /\ i \in 0..N
          <6>1. i \in ahead  BY <4>2, Least
          <6> QED  BY <6>1, ConstantsType DEF Ids
        <5>2. sweep' = [sweep EXCEPT ![s] = x]  BY <1>0, <3>2, <4>2 DEF SweepReads
        <5>3. sweep[s].pc = "walk"  BY <3>2 DEF SweepReads
        <5> HIDE DEF i
        <5>4. x \in SweepState /\ x.pc = "walk" /\ x.saved = sweep[s].saved
          BY <1>0, <5>1, <5>3 DEF SweepState
        <5> QED  BY <5>2, <5>4
      <4> QED  BY <4>1, <4>2
    <3> QED  BY <1>4, <3>1, <3>2
  <2>3. limit' = limit  BY <1>4 DEF SweepReads, SweepLists, Counted, budget
  <2> QED  BY <1>0, <2>1, <2>2, <2>3 DEF BudgetRestored, Saved, Sweeping
<1>5. CASE Restart
  <2>1. [NoSweep EXCEPT !.pc = "done"].pc = "done"  BY <1>0 DEF SweepState
  <2> QED  BY <1>5, <2>1 DEF Restart, BudgetRestored, Saved, Sweeping
<1>6. ASSUME NEW s \in Sweeps, Sweep(s) PROVE BudgetRestored' /\ Saved'
  BY <1>2, <1>3, <1>4, <1>6 DEF Sweep, SweepCutOff, SweepDeletes, Sweeping
<1>7. ASSUME NEW i \in Ids, EditedOutside(i) \/ WrittenByUs(i) \/ DeletedOutside(i)
      PROVE  UNCHANGED <<sweep, limit>>
  BY <1>7 DEF EditedOutside, WrittenByUs, DeletedOutside, Change, budget
<1>8. CASE Run \/ RunLosesTaken \/ RunFails \/ Tick \/ RefreshReads \/ RefreshStores
  BY <1>1, <1>8
  DEF Run, RunStarts, RunReadsTaken, RunStoresTaken, RunReads, RunStores, RunSaves, RunCutOff, RunLosesTaken,
      RunFails, Tick, RefreshReads, RefreshStores, Counted, budget
<1> QED  BY <1>1, <1>5, <1>6, <1>7, <1>8 DEF Next, vars, budget

\* While reconciles do not overlap, each puts back the limit that was configured for a
\* run, whatever runs, refreshes, cut-off walks and restarts cross it (reconcile's
\* finally): only a reconcile that begins inside another takes a replaced limit for it.
THEOREM LimitComesBack == Spec /\ []OneSweep => []BudgetRestored
<1>1. Init => BudgetRestored /\ Saved
  BY DEF Init, NoSweep, BudgetRestored, Saved, Sweeping
<1>2. IInv => TypeOK  BY DEF IInv
<1> QED  BY <1>1, <1>2, NextBudget, Invariance, PTL DEF Spec
==============================================================================
