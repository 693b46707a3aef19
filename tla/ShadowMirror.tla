----------------------------- MODULE ShadowMirror -----------------------------
(***************************************************************************)
(* The Postgres mirror of one entity with a modified stamp: ShadowSync     *)
(* (db/shadow-sync.ts), the deletion sweeps and the by-id reads it answers *)
(* (shadowGet of db/shadow-runtime.ts).                                    *)
(*                                                                         *)
(* The scheduled run is serialised by an advisory lock.  What the tool     *)
(* autotask_shadow_sync asks for (reconcile, refresh) is not, and works on *)
(* the same ShadowSync: its call counter, its limit and its dirty rows.    *)
(* Every read of Autotask and every store is a step, so rows change, are   *)
(* written and are read in between, and nothing bounds how long a run, a   *)
(* refresh or a reconcile takes.  A page of a walk holds one row.          *)
(***************************************************************************)
EXTENDS Integers

CONSTANTS
  N,          \* rows: ids 1..N, in the order they are created
  MaxChanges, \* bound: changes made in Autotask
  MaxTime,    \* bound: the clock
  Overlap,    \* WATERMARK_OVERLAP_MS, in ticks
  MaxCalls,   \* MCP_PG_SHADOW_MAX_CALLS_PER_RUN
  SweepCalls, \* maxCalls of a reconcile
  Sweeps,     \* the reconciles that are asked for
  Refreshed,  \* the rows a refresh is asked for
  MaxFaults   \* bound: failed reads, restarts and refreshes

ASSUME ShadowMirrorAssumption ==
  /\ {N, MaxChanges, MaxTime, Overlap, MaxCalls, SweepCalls, MaxFaults} \subseteq Nat
  /\ Refreshed \subseteq 1..N /\ N > 0

VARIABLES
  live,    \* Autotask: each row's version, 0 when there is none, and when it was changed
  clock, made, faults,
  mirror,  \* shadow_record: the version held of each row, 0 when none or marked deleted
  mark,    \* the watermark
  dirty,   \* rows the MCP wrote and has not read again
  limit, calls,  \* opts.maxCallsPerRun and the call counter, shared by runs and reconciles
  run,     \* the scheduled run
  sweep,   \* the reconciles
  refresh, \* a refresh by id
  own,     \* history: the newest version the MCP wrote of each row
  lost,    \* history: written rows whose re-read failed, or that an older copy has overtaken
  late     \* history: rows whose last change fell in a run, a refresh or a reconcile,
           \* and more than the overlap before that had its effect

budget == <<limit, calls>>
autotask == <<live, clock, made>>
vars == <<autotask, faults, mirror, mark, dirty, budget, run, sweep, refresh, own, lost, late>>

Ids == 1..N
NoPage == [i \in {} |-> 0]
NoRun == [pc |-> "idle", cursor |-> 0, newest |-> 0, page |-> NoPage, began |-> 0]
NoSweep == [pc |-> "idle", cursor |-> 0, seen |-> {}, found |-> {}, began |-> 0, saved |-> 0]
NoRefresh == [pc |-> "idle", page |-> NoPage, began |-> 0]

\* Backfilled: the first row is there and mirrored, the others are not created yet.
Init ==
  /\ clock = 1 /\ made = 0 /\ faults = 0
  /\ live = [i \in Ids |-> IF i = 1 THEN [v |-> 1, at |-> 1] ELSE [v |-> 0, at |-> 0]]
  /\ mirror = [i \in Ids |-> live[i].v] /\ mark = 1 /\ dirty = {}
  /\ limit = MaxCalls /\ calls = 0
  /\ run = NoRun /\ sweep = [s \in Sweeps |-> NoSweep] /\ refresh = NoRefresh
  /\ own = [i \in Ids |-> 0] /\ lost = {} /\ late = {}

\* What Autotask answers for some rows; one that it does not have comes as 0.
Page(S) == [i \in S |-> live[i].v]
later(a, b) == IF a > b THEN a ELSE b
least(S) == CHOOSE i \in S : \A j \in S : i <= j

\* Of some rows, those that changed since some time, and longer than the overlap ago.
Late(S, since) == {i \in S : since <= live[i].at /\ live[i].at + Overlap < clock}

\* A page read since some time is stored; of refreshIds, the rows that were not found
\* are marked deleted.
Upsert(page, since) ==
  /\ mirror' = [i \in Ids |-> IF i \in DOMAIN page THEN page[i] ELSE mirror[i]]
  /\ lost' = {i \in Ids : IF i \in DOMAIN page THEN page[i] < own[i] ELSE i \in lost}
  /\ late' = late \cup Late(DOMAIN page, since)
-----------------------------------------------------------------------------
(* Autotask.                                                               *)

\* A row is changed or, after all earlier ones, created.
Writable(i) == live[i].v # 0 \/ (live[i].at = 0 /\ \A j \in 1..(i - 1) : live[j].at # 0)
Change(i) ==
  /\ Writable(i) /\ made < MaxChanges /\ made' = made + 1
  /\ live' = [live EXCEPT ![i] = [v |-> live[i].v + 1, at |-> clock]]
  /\ late' = late \ {i}
  /\ UNCHANGED <<clock, faults, mirror, mark, budget, run, sweep, refresh, lost>>

\* Mutant: the write listener queues nothing.
NotQueued(i) == dirty
\* markDirty, from the write listener.
Queued(i) == dirty \cup {i}

\* By somebody else, or by the MCP.
EditedOutside(i) == Change(i) /\ UNCHANGED <<dirty, own>>
WrittenByUs(i) ==
  /\ Change(i)
  /\ dirty' = Queued(i)
  /\ own' = [own EXCEPT ![i] = live[i].v + 1]

\* Deleted: no feed tells.
DeletedOutside(i) ==
  /\ live[i].v # 0 /\ made < MaxChanges /\ made' = made + 1
  /\ live' = [live EXCEPT ![i] = [v |-> 0, at |-> clock]]
  /\ late' = late \ {i}
  /\ UNCHANGED <<clock, faults, mirror, mark, dirty, budget, run, sweep, refresh, own, lost>>

\* Time passes, whatever is going on.
Tick ==
  /\ clock < MaxTime /\ clock' = clock + 1
  /\ UNCHANGED <<live, made, faults, mirror, mark, dirty, budget, run, sweep, refresh, own, lost, late>>
-----------------------------------------------------------------------------
(* The scheduled run (runOnce): written rows first, then the incremental.  *)

\* Past every limit the count tells nothing apart.
Counted == calls' = (IF calls < later(MaxCalls, SweepCalls) THEN calls + 1 ELSE calls) /\ UNCHANGED limit
budgetLeft == limit - calls

\* When the run begins, or what is at work then and may store an older copy did.
Earliest == least({clock} \cup {refresh.began : x \in {refresh.pc} \cap {"store"}}
                          \cup {sweep[s].began : s \in {t \in Sweeps : sweep[t].pc \in {"list", "delete"}}})

\* The dirty rows are taken, and the set emptied, before refreshIds reads them again.
RunStarts ==
  /\ run.pc = "idle"
  /\ calls' = 0 /\ dirty' = {}
  /\ run' = [NoRun EXCEPT !.pc = IF dirty = {} THEN "walk" ELSE "taken", !.newest = mark, !.began = Earliest,
                          !.page = [i \in dirty |-> 0]]
  /\ UNCHANGED <<autotask, faults, mirror, mark, limit, sweep, refresh, own, lost, late>>
RunReadsTaken ==
  /\ run.pc = "taken"
  /\ run' = [run EXCEPT !.pc = "reread", !.page = Page(DOMAIN run.page)]
  /\ Counted
  /\ UNCHANGED <<autotask, faults, mirror, mark, dirty, sweep, refresh, own, lost, late>>
RunStoresTaken ==
  /\ run.pc = "reread"
  /\ Upsert(run.page, run.began)
  /\ run' = [run EXCEPT !.pc = "walk", !.page = NoPage]
  /\ UNCHANGED <<autotask, faults, mark, dirty, budget, sweep, refresh, own>>
\* A failed refresh is logged, and the rows stay off dirty.
RunLosesTaken ==
  /\ run.pc = "taken" /\ faults < MaxFaults
  /\ faults' = faults + 1
  /\ run' = [run EXCEPT !.pc = "walk", !.page = NoPage]
  /\ lost' = lost \cup DOMAIN run.page
  /\ Counted
  /\ UNCHANGED <<autotask, mirror, mark, dirty, sweep, refresh, own, late>>

\* Mutant: only what changed after the watermark is read.
NoOverlap == mark + 1
\* The watermark less WATERMARK_OVERLAP_MS.
Since == mark - Overlap
Changed == {i \in Ids : live[i].v # 0 /\ live[i].at >= Since /\ i > run.cursor}

\* A page of the incremental; a short one is the last.
RunReads ==
  /\ run.pc = "walk" /\ budgetLeft > 0
  /\ run' = IF Changed = {} THEN [run EXCEPT !.pc = "save"]
            ELSE LET i == least(Changed) IN
                 [run EXCEPT !.pc = "store", !.page = Page({i}), !.cursor = i,
                             !.newest = later(@, live[i].at)]
  /\ Counted
  /\ UNCHANGED <<autotask, faults, mirror, mark, dirty, sweep, refresh, own, lost, late>>
RunStores ==
  /\ run.pc = "store"
  /\ Upsert(run.page, run.began)
  /\ run' = [run EXCEPT !.pc = "walk", !.page = NoPage]
  /\ UNCHANGED <<autotask, faults, mark, dirty, budget, sweep, refresh, own>>

\* Every changed row was read: the watermark moves to the newest stamp seen.
RunSaves ==
  /\ run.pc = "save"
  /\ mark' = run.newest
  /\ late' = late \cup Late(Ids, run.began)
  /\ run' = NoRun
  /\ UNCHANGED <<autotask, faults, mirror, dirty, budget, sweep, refresh, own, lost>>
\* Mutant: the watermark moves although the walk was cut off.
SavesWhatItSaw == mark' = run.newest
\* Otherwise the watermark stays where it was.
StaysPut == UNCHANGED mark
\* The budget is spent ...
RunCutOff ==
  /\ run.pc = "walk" /\ budgetLeft <= 0
  /\ StaysPut
  /\ run' = NoRun
  /\ UNCHANGED <<autotask, faults, mirror, dirty, budget, sweep, refresh, own, lost, late>>
\* ... or a page fails.
RunFails ==
  /\ run.pc = "walk" /\ faults < MaxFaults
  /\ faults' = faults + 1
  /\ run' = NoRun
  /\ Counted
  /\ UNCHANGED <<autotask, mirror, mark, dirty, sweep, refresh, own, lost, late>>

Run == RunStarts \/ RunReadsTaken \/ RunStoresTaken \/ RunReads \/ RunStores \/ RunSaves \/ RunCutOff
-----------------------------------------------------------------------------
(* reconcile and refresh, outside the lock.                                *)

\* The limit is replaced for the time of the walk, and the counter starts again.
SweepStarts(s) ==
  /\ sweep[s].pc = "idle"
  /\ sweep' = [sweep EXCEPT ![s] = [NoSweep EXCEPT !.pc = "walk", !.saved = limit]]
  /\ limit' = SweepCalls /\ calls' = 0
  /\ UNCHANGED <<autotask, faults, mirror, mark, dirty, run, refresh, own, lost, late>>

\* In the end the limit is put back to what it was.
SweepEnds(s) ==
  /\ sweep' = [sweep EXCEPT ![s] = [NoSweep EXCEPT !.pc = "done"]]
  /\ limit' = sweep[s].saved

\* A page of ids; the walk is complete when one comes back short ...
SweepReads(s) ==
  LET ahead == {i \in Ids : live[i].v # 0 /\ i > sweep[s].cursor} IN
  /\ sweep[s].pc = "walk" /\ budgetLeft > 0
  /\ sweep' = IF ahead = {} THEN [sweep EXCEPT ![s].pc = "list", ![s].began = clock]
              ELSE [sweep EXCEPT ![s].cursor = least(ahead), ![s].seen = @ \cup {least(ahead)}]
  /\ Counted
  /\ UNCHANGED <<autotask, faults, mirror, mark, dirty, run, refresh, own, lost, late>>
\* ... and cut off when the budget is spent.
SweepCutOff(s) ==
  /\ sweep[s].pc = "walk" /\ budgetLeft <= 0
  /\ SweepEnds(s)
  /\ UNCHANGED <<autotask, faults, mirror, mark, dirty, calls, run, refresh, own, lost, late>>
\* The live ids, read after the walk ...
SweepLists(s) ==
  /\ sweep[s].pc = "list"
  /\ sweep' = [sweep EXCEPT ![s].pc = "delete", ![s].found = {i \in Ids : mirror[i] # 0} \ sweep[s].seen]
  /\ UNCHANGED <<autotask, faults, mirror, mark, dirty, budget, run, refresh, own, lost, late>>
\* ... and those not seen are marked deleted.
SweepDeletes(s) ==
  /\ sweep[s].pc = "delete"
  /\ mirror' = [i \in Ids |-> IF i \in sweep[s].found THEN 0 ELSE mirror[i]]
  /\ late' = late \cup Late(sweep[s].found, sweep[s].began)
  /\ SweepEnds(s)
  /\ UNCHANGED <<autotask, faults, mark, dirty, calls, run, refresh, own, lost>>
Sweep(s) == SweepStarts(s) \/ SweepReads(s) \/ SweepCutOff(s) \/ SweepLists(s) \/ SweepDeletes(s)

RefreshReads ==
  /\ refresh.pc = "idle" /\ faults < MaxFaults
  /\ faults' = faults + 1
  /\ \E i \in Refreshed : refresh' = [pc |-> "store", page |-> Page({i}), began |-> clock]
  /\ Counted
  /\ UNCHANGED <<autotask, mirror, mark, dirty, run, sweep, own, lost, late>>
RefreshStores ==
  /\ refresh.pc = "store"
  /\ Upsert(refresh.page, refresh.began)
  /\ refresh' = NoRefresh
  /\ UNCHANGED <<autotask, faults, mark, dirty, budget, run, sweep, own>>

\* The process ends: what it had in memory is gone, the mirror and the watermark stay.
Restart ==
  /\ faults < MaxFaults /\ faults' = faults + 1
  /\ lost' = lost \cup dirty \cup {i \in DOMAIN run.page : run.pc \in {"taken", "reread"}}
  /\ dirty' = {} /\ limit' = MaxCalls /\ calls' = 0
  /\ run' = NoRun /\ sweep' = [s \in Sweeps |-> [NoSweep EXCEPT !.pc = "done"]]
  /\ refresh' = NoRefresh
  /\ UNCHANGED <<autotask, mirror, mark, own, late>>

Next ==
  \/ Run \/ RunLosesTaken \/ RunFails \/ Tick \/ RefreshReads \/ RefreshStores \/ Restart
  \/ \E s \in Sweeps : Sweep(s)
  \/ \E i \in Ids : EditedOutside(i) \/ WrittenByUs(i) \/ DeletedOutside(i)

\* The timer starts a run every five minutes, and what has begun goes on.
Fairness == WF_vars(Run) /\ \A s \in Sweeps : WF_vars(Sweep(s))
Spec == Init /\ [][Next]_vars
FairSpec == Spec /\ Fairness
-----------------------------------------------------------------------------
(* Properties.                                                             *)

Mirrored(i) == live[i].v # 0 => mirror[i] = live[i].v

\* What the incremental will not read again is right: every row that Autotask has and
\* whose stamp lies before the watermark less the overlap is mirrored as it is, neither
\* old nor hidden, whatever changed while pages were being read and whichever reconcile,
\* refresh, failed page or restart crossed the run, and however long they took; except a
\* row that changed in the course of one of them and more than the overlap before its end
\* (nothing keeps a walk, or a page on its way to the store, within the overlap).
NothingMissed == \A i \in Ids : live[i].at < Since => Mirrored(i) \/ i \in late

\* shadowGet answers from the mirror unless isDirty ("by-id reads must go live"): a row
\* that is not dirty is no older than what the MCP wrote of it, except while the run has
\* taken it off dirty to read it again, or after that read failed, the process restarted
\* or a slower refresh stored an older copy.
OldIsDirty ==
  \A i \in Ids : mirror[i] # 0 /\ mirror[i] < own[i] =>
    i \in dirty \cup lost \/ (run.pc \in {"taken", "reread"} /\ i \in DOMAIN run.page)

\* When Autotask stops changing, the mirror comes to hold every row as it is, through
\* failed reads, restarts and sweeps, with a budget that a run can finish on, but for
\* the rows that something slow has passed by.
CatchesUp == <>[](\A i \in Ids : Mirrored(i) \/ i \in late)

\* "MCP_PG_SHADOW_MAX_CALLS_PER_RUN 100 Autotask calls one run may spend": when no
\* reconcile is going on, the limit of a run is the configured one.
BudgetRestored == (\A s \in Sweeps : sweep[s].pc \in {"idle", "done"}) => limit = MaxCalls
==============================================================================
