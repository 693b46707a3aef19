------------------------------ MODULE BulkJob ------------------------------
(***************************************************************************)
(* Bulk jobs: a mass inactivation that is prepared, approved by its hash   *)
(* and pushed to Autotask one write at a time (src/src/bulk).              *)
(*                                                                         *)
(* Actors, each split where the code awaits:                               *)
(*   - the preparation started by startPrepare, one per job;               *)
(*   - operators (chat tool and console), who READ a job's row, and act on *)
(*     that row later (jobAction);                                         *)
(*   - the worker, one tick at a time (BulkWorker.tick and record);        *)
(*   - the start-up sweep of interrupted preparations.                     *)
(* Autotask answers a write with one of the outcomes of applyItem; a write *)
(* whose answer is an error may still have been applied.                   *)
(*                                                                         *)
(* Times (rates, quiet hours, pacing) are abstracted to "this tick may go  *)
(* on or not".  Counters that are only compared with a limit saturate at   *)
(* that limit.  MaxFaults bounds the crashes and failed queries.           *)
(***************************************************************************)
EXTENDS Naturals, FiniteSets

CONSTANTS
  Job,          \* job ids, numbered in the order of created_at
  Item,         \* seq numbers of a job's items
  Operator,     \* concurrent calls that act on jobs
  CanarySize,   \* bulk_job.canary_size
  MaxAttempts,  \* MAX_ATTEMPTS
  PauseAfter,   \* PAUSE_AFTER_FAILURES
  MaxFaults,    \* bound: crashes and failed queries
  NoHash        \* hash IS NULL

ASSUME BulkAssumption ==
  /\ Job \subseteq Nat /\ Item \subseteq Nat /\ Item # {} /\ Job # {}
  /\ CanarySize \in Nat \ {0} /\ MaxAttempts \in Nat \ {0}
  /\ PauseAfter \in Nat \ {0} /\ MaxFaults \in Nat
  /\ \A list \in SUBSET Item : list # NoHash

Status == {"preparing", "ready", "approved", "running", "paused",
           "done", "cancelled", "failed"}
ItemStatus == {"pending", "done", "skipped", "failed", "excluded"}
Outcome == {"done", "skipped", "failed", "retry", "wait", "pause"}
JobAction == {"approve", "start", "pause", "resume", "cancel",
              "retry_failed", "archive", "unarchive"}

\* The approval hash binds the exact records to be written: it is that set.
Hash == {NoHash} \cup SUBSET Item

Row == [status : Status \cup {"none"}, hash : Hash, canaryDone : BOOLEAN,
        processed : 0..CanarySize, archived : BOOLEAN]
ItemRow == [status : ItemStatus, attempts : 0..MaxAttempts]
\* A tick and a call under way: where they are and what they hold.
TickState == [pc : {"idle", "ticked", "writing", "result", "marked", "counted", "finishing"},
              job : Job, item : Item, out : Outcome,
              row : [canaryDone : BOOLEAN, processed : 0..CanarySize]]
CallState == [pc : {"idle", "acting"}, job : Job, action : JobAction, hash : Hash]
NoRow == [status |-> "none", hash |-> NoHash, canaryDone |-> FALSE,
          processed |-> 0, archived |-> FALSE]

VARIABLES
  job,      \* bulk_job: the row of each job
  item,     \* bulk_job_item: status and attempts of each item
  prep,     \* is the job's preparation running in this process?
  sweep,    \* has the start-up UPDATE been sent but not run yet?
  worker,   \* the worker's tick: where it is and what it holds
  streak,   \* failStreak, in memory
  call,     \* an operator's call: the row it read and what it will do
  faults,   \* crashes and failed queries so far
  written,  \* Autotask: the records a write was applied to
  approval, \* history: the list of records a person approved
  started,  \* history: the jobs a person has started
  checked,  \* history: a person let the job run after its canary pause
  unclear   \* history: records written although their answer was an error or lost

store  == <<job, item>>
memory == <<prep, sweep, worker, streak, call>>
history == <<approval, started, checked, unclear>>
vars == <<store, memory, faults, written, history>>

First(x, S) == x \in S /\ \A y \in S : x <= y
Saturate(n, limit) == IF n < limit THEN n + 1 ELSE limit

\* running(): jobs in status 'running', oldest first; the worker takes [0].
Running == {j \in Job : job[j].status = "running"}
\* Mutant: skipped items are read again.
PendingOrSkipped(j) == {i \in Item : item[j][i].status \in {"pending", "skipped"}}
Pending(j) == {i \in Item : item[j][i].status = "pending"}

\* setStatus writes the status whatever the row holds by now.
SetStatus(j, s) == job' = [job EXCEPT ![j].status = s]

AnyJob == CHOOSE j \in Job : TRUE
AnyItem == CHOOSE i \in Item : TRUE
Idle == [pc |-> "idle", job |-> AnyJob, item |-> AnyItem,
         out |-> "done",
         row |-> [canaryDone |-> FALSE, processed |-> 0]]
NoCall == [pc |-> "idle", job |-> AnyJob, action |-> "approve",
           hash |-> NoHash]

Init ==
  /\ job = [j \in Job |-> NoRow]
  /\ item = [j \in Job |-> [i \in Item |-> [status |-> "excluded", attempts |-> 0]]]
  /\ prep = [j \in Job |-> FALSE]
  /\ sweep = TRUE
  /\ worker = Idle
  /\ streak = [j \in Job |-> 0]
  /\ call = [o \in Operator |-> NoCall]
  /\ faults = 0
  /\ written = [j \in Job |-> {}]
  /\ approval = [j \in Job |-> NoHash]
  /\ started = {}
  /\ checked = [j \in Job |-> FALSE]
  /\ unclear = [j \in Job |-> {}]
-----------------------------------------------------------------------------
(* Preparation: create, wait out throttling, fill, or fail.                *)

Create(j) ==
  /\ job[j].status = "none"
  /\ \A k \in Job : k < j => job[k].status # "none"
  /\ job' = [job EXCEPT ![j] = [NoRow EXCEPT !.status = "preparing"]]
  /\ prep' = [prep EXCEPT ![j] = TRUE]
  /\ UNCHANGED <<item, sweep, worker, streak, call, faults, written, history>>

\* onWait: a throttled read shows the job as waiting, in status 'preparing'.
PrepareWaits(j) ==
  /\ prep[j]
  /\ SetStatus(j, "preparing")
  /\ UNCHANGED <<item, memory, faults, written, history>>

\* fill: items, hash and stats in one transaction, and status 'ready'.
Fill(j) ==
  /\ prep[j]
  /\ prep' = [prep EXCEPT ![j] = FALSE]
  /\ \E write \in SUBSET Item :
       /\ item' = [item EXCEPT ![j] = [i \in Item |->
            [status |-> IF i \in write THEN "pending" ELSE "excluded", attempts |-> 0]]]
       /\ job' = [job EXCEPT ![j] = [NoRow EXCEPT !.status = "ready", !.hash = write]]
  /\ UNCHANGED <<sweep, worker, streak, call, faults, written, history>>

PrepareFails(j) ==
  /\ prep[j]
  /\ prep' = [prep EXCEPT ![j] = FALSE]
  /\ SetStatus(j, "failed")
  /\ UNCHANGED <<item, sweep, worker, streak, call, faults, written, history>>

\* The start-up UPDATE fails every job found preparing; its error is ignored.
Sweep ==
  /\ sweep
  /\ sweep' = FALSE
  /\ \/ job' = [j \in Job |-> IF job[j].status = "preparing"
                              THEN [job[j] EXCEPT !.status = "failed"] ELSE job[j]]
     \/ UNCHANGED job
  /\ UNCHANGED <<item, prep, worker, streak, call, faults, written, history>>
-----------------------------------------------------------------------------
(* Operators: the caller reads the row; jobAction decides on it, and its    *)
(* update runs later.  A call that is refused changes nothing.             *)

Finished == {"done", "cancelled", "failed"}
\* Mutant: start does not insist on an approved job.
RulesLoose ==
  [approve |-> {"ready"}, start |-> {"ready", "approved"}, pause |-> {"running"},
   resume |-> {"paused"}, cancel |-> Status \ Finished, archive |-> Finished,
   unarchive |-> Status, retry_failed |-> Status]
\* jobAction: the statuses each action is accepted in.
Rules ==
  [approve |-> {"ready"}, start |-> {"approved"}, pause |-> {"running"},
   resume |-> {"paused"}, cancel |-> Status \ Finished, archive |-> Finished,
   unarchive |-> Status, retry_failed |-> Status]

\* Mutant: any hash will do.
HashIgnored(j, h) == TRUE
\* The hash handed in is the job's, and still the hash of its items.
HashMatches(j, h) ==
  h # NoHash /\ h = job[j].hash /\ h = {i \in Item : item[j][i].status # "excluded"}

ReadJob(o, j, a) ==
  /\ call[o].pc = "idle"
  /\ job[j].status \in Rules[a]
  /\ \E h \in IF a = "approve" THEN {job[j].hash, NoHash} ELSE {NoHash} :
       /\ a = "approve" => HashMatches(j, h)
       /\ call' = [call EXCEPT ![o] = [pc |-> "acting", job |-> j, action |-> a, hash |-> h]]
  /\ UNCHANGED <<store, prep, sweep, worker, streak, faults, written, history>>

\* requeueFailed: failed items back to pending, with their attempts reset.
Requeued(items) ==
  [i \in Item |-> IF items[i].status = "failed"
                  THEN [status |-> "pending", attempts |-> 0] ELSE items[i]]

NextStatus == [approve |-> "approved", start |-> "running", pause |-> "paused",
               resume |-> "running", cancel |-> "cancelled"]

Act(o) ==
  LET c == call[o]  j == c.job  a == c.action IN
  /\ c.pc = "acting"
  /\ call' = [call EXCEPT ![o] = NoCall]
  /\ IF a \in DOMAIN NextStatus THEN SetStatus(j, NextStatus[a])
     ELSE IF a = "retry_failed" THEN UNCHANGED job
     ELSE job' = [job EXCEPT ![j].archived = (a = "archive")]
  /\ item' = IF a = "retry_failed" THEN [item EXCEPT ![j] = Requeued(@)] ELSE item
  /\ approval' = IF a = "approve" THEN [approval EXCEPT ![j] = c.hash] ELSE approval
  /\ started' = IF a = "start" THEN started \cup {j} ELSE started
  /\ checked' = IF a \in {"start", "resume"} /\ job[j].canaryDone
                THEN [checked EXCEPT ![j] = TRUE] ELSE checked
  /\ UNCHANGED <<prep, sweep, worker, streak, faults, written, unclear>>

\* The update of a call fails: nothing changes.
CallFails(o) ==
  /\ call[o].pc = "acting"
  /\ call' = [call EXCEPT ![o] = NoCall]
  /\ UNCHANGED <<store, prep, sweep, worker, streak, faults, written, history>>
-----------------------------------------------------------------------------
(* The worker: one tick.  "ticked": the job is read, the usage reading is   *)
(* awaited; "writing": the write is out; "result": the answer is in;       *)
(* "marked": the item is updated; "counted": the job is updated.           *)

Tick ==
  /\ worker.pc = "idle"
  /\ \E j \in Job :
       /\ First(j, Running)
       /\ worker' = [Idle EXCEPT !.pc = "ticked", !.job = j,
            !.row = [canaryDone |-> job[j].canaryDone, processed |-> job[j].processed]]
  /\ UNCHANGED <<store, prep, sweep, streak, call, faults, written, history>>

\* Pacing or a backpressure stop: nothing is written this tick.
HoldBack ==
  /\ worker.pc = "ticked"
  /\ worker' = Idle
  /\ UNCHANGED <<store, prep, sweep, streak, call, faults, written, history>>

\* Mutant: one record more than the canary.
CanaryPassed == ~worker.row.canaryDone /\ worker.row.processed > CanarySize
\* The canary is complete and the job has not paused for it yet.
CanaryReached == ~worker.row.canaryDone /\ worker.row.processed >= CanarySize

CanaryPause ==
  /\ worker.pc = "ticked" /\ CanaryReached
  /\ job' = [job EXCEPT ![worker.job].status = "paused", ![worker.job].canaryDone = TRUE]
  /\ worker' = Idle
  /\ UNCHANGED <<item, prep, sweep, streak, call, faults, written, history>>

\* next(id, 1), and the write goes out.
SendNext ==
  /\ worker.pc = "ticked" /\ ~CanaryReached
  /\ \E i \in Item :
       /\ First(i, Pending(worker.job))
       /\ worker' = [worker EXCEPT !.pc = "writing", !.item = i]
  /\ UNCHANGED <<store, prep, sweep, streak, call, faults, written, history>>

NothingLeft ==
  /\ worker.pc = "ticked" /\ ~CanaryReached /\ Pending(worker.job) = {}
  /\ worker' = [worker EXCEPT !.pc = "finishing"]
  /\ UNCHANGED <<store, prep, sweep, streak, call, faults, written, history>>

Finish ==
  /\ worker.pc = "finishing"
  /\ SetStatus(worker.job, "done")
  /\ worker' = Idle
  /\ UNCHANGED <<item, prep, sweep, streak, call, faults, written, history>>

\* Mutant: an unclear error is taken for success.
PossibleLoose(out, applied, last) == out = "retry" => ~last
\* What an outcome says about the write: only an error leaves it open, and only
\* an error with attempts left is retried.
Possible(out, applied, last) ==
  /\ out = "done" => applied
  /\ out \in {"skipped", "wait", "pause"} => ~applied
  /\ out = "retry" => ~last
  /\ out = "failed" /\ applied => last

\* The answer to a write that was applied does not reach the report.
LoseAnswer(lost) ==
  unclear' = IF lost THEN [unclear EXCEPT ![worker.job] = @ \cup {worker.item}] ELSE unclear
Unmarked == worker.pc = "result" /\ worker.out = "done"

\* applyItem: the answer, classified.  An error may hide an applied write; a
\* 5xx or a timeout is retried until the attempts run out.
Answer(out, applied) ==
  LET last == item[worker.job][worker.item].attempts + 1 >= MaxAttempts IN
  /\ worker.pc = "writing"
  /\ Possible(out, applied, last)
  /\ worker' = [worker EXCEPT !.pc = "result", !.out = out]
  /\ written' = IF applied THEN [written EXCEPT ![worker.job] = @ \cup {worker.item}]
                ELSE written
  /\ LoseAnswer(applied /\ out # "done")
  /\ UNCHANGED <<store, prep, sweep, streak, call, faults, approval, started, checked>>

\* record, 'wait': the item is left alone.
RecordWait ==
  /\ worker.pc = "result" /\ worker.out = "wait"
  /\ SetStatus(worker.job, "running")
  /\ worker' = Idle
  /\ UNCHANGED <<item, prep, sweep, streak, call, faults, written, history>>

\* Mutant: every outcome is written into the item's status.
MarkAlways(out, status) == out
\* retryLater keeps the item pending; markItem writes the outcome.
Mark(out, status) == IF out \in {"retry", "pause"} THEN status ELSE out

\* record: retryLater for 'retry' and 'pause', markItem for the others, and the
\* failure streak (not for 'pause', which returns before it).
RecordItem ==
  LET j == worker.job  i == worker.item  out == worker.out IN
  /\ worker.pc = "result" /\ out # "wait"
  /\ item' = [item EXCEPT ![j][i] = [status |-> Mark(out, @.status),
                                      attempts |-> Saturate(@.attempts, MaxAttempts)]]
  /\ streak' = CASE out \in {"done", "skipped"} -> [streak EXCEPT ![j] = 0]
                 [] out \in {"failed", "retry"} -> [streak EXCEPT ![j] = Saturate(@, PauseAfter)]
                 [] OTHER -> streak
  /\ worker' = [worker EXCEPT !.pc = "marked"]
  /\ UNCHANGED <<job, prep, sweep, call, faults, written, history>>

RecordLoginPause ==
  /\ worker.pc = "marked" /\ worker.out = "pause"
  /\ SetStatus(worker.job, "paused")
  /\ worker' = Idle
  /\ UNCHANGED <<item, prep, sweep, streak, call, faults, written, history>>

\* Mutant: the failure pause comes one failure late, and the count stops there.
StreakPassed(j) == streak[j] > PauseAfter
StreakFull(j) == streak[j] >= PauseAfter

\* setStatus(running) with the count, from the row read when the tick began.
RecordProgress ==
  LET j == worker.job
      n == IF worker.out = "retry" THEN worker.row.processed
           ELSE Saturate(worker.row.processed, CanarySize) IN
  /\ worker.pc = "marked" /\ worker.out # "pause"
  /\ job' = [job EXCEPT ![j].status = "running", ![j].processed = n]
  /\ worker' = IF StreakFull(j) THEN [worker EXCEPT !.pc = "counted"] ELSE Idle
  /\ UNCHANGED <<item, prep, sweep, streak, call, faults, written, history>>

RecordStreakPause ==
  /\ worker.pc = "counted"
  /\ SetStatus(worker.job, "paused")
  /\ streak' = [streak EXCEPT ![worker.job] = 0]
  /\ worker' = Idle
  /\ UNCHANGED <<item, prep, sweep, call, faults, written, history>>
-----------------------------------------------------------------------------
(* Faults.                                                                 *)

\* A query of the tick fails: the tick ends ('error') and nothing is undone.
QueryFails ==
  /\ worker.pc \notin {"idle", "writing"} /\ faults < MaxFaults
  /\ faults' = faults + 1
  /\ worker' = Idle /\ LoseAnswer(Unmarked)
  /\ UNCHANGED <<store, prep, sweep, streak, call, written, approval, started, checked>>

\* The server stops and starts again: the store stays, memory is lost; a write
\* that was out may have been applied.
Restart ==
  /\ faults < MaxFaults
  /\ faults' = faults + 1
  /\ prep' = [j \in Job |-> FALSE]
  /\ sweep' = TRUE
  /\ worker' = Idle
  /\ streak' = [j \in Job |-> 0]
  /\ call' = [o \in Operator |-> NoCall]
  /\ \/ UNCHANGED written /\ LoseAnswer(Unmarked)
     \/ /\ worker.pc = "writing" /\ LoseAnswer(TRUE)
        /\ written' = [written EXCEPT ![worker.job] = @ \cup {worker.item}]
  /\ UNCHANGED <<store, approval, started, checked>>
-----------------------------------------------------------------------------
Prepare == \E j \in Job : Create(j) \/ PrepareWaits(j) \/ Fill(j) \/ PrepareFails(j)
Operate == \E o \in Operator :
  \/ \E j \in Job, a \in JobAction : ReadJob(o, j, a)
  \/ Act(o)
  \/ CallFails(o)
Record == RecordWait \/ RecordItem \/ RecordLoginPause \/ RecordProgress \/ RecordStreakPause
Work ==
  \/ Tick \/ HoldBack \/ CanaryPause \/ SendNext \/ NothingLeft \/ Finish
  \/ \E out \in Outcome, applied \in BOOLEAN : Answer(out, applied)
  \/ Record
Next == Prepare \/ Sweep \/ Operate \/ Work \/ QueryFails \/ Restart

Spec == Init /\ [][Next]_vars

(* The tick loop runs for as long as the server does, and pg and Autotask  *)
(* answer every call.  Backpressure and throttling end: a tick that can go *)
(* on again and again does, and a write is not answered 429 for ever.      *)
GoesOn == CanaryPause \/ SendNext \/ NothingLeft
AnswersWrite == \E out \in Outcome \ {"wait"}, applied \in BOOLEAN : Answer(out, applied)
Fairness ==
  /\ WF_vars(Tick) /\ SF_vars(GoesOn) /\ WF_vars(Finish)
  /\ WF_vars(\E out \in Outcome, applied \in BOOLEAN : Answer(out, applied))
  /\ SF_vars(AnswersWrite)
  /\ WF_vars(Record)
FairSpec == Spec /\ Fairness
-----------------------------------------------------------------------------
(* Properties.                                                             *)

\* Every variable keeps its type (the columns of migration 0015).
TypeOK ==
  /\ job \in [Job -> Row]
  /\ item \in [Job -> [Item -> ItemRow]]
  /\ prep \in [Job -> BOOLEAN] /\ sweep \in BOOLEAN
  /\ worker \in TickState
  /\ streak \in [Job -> 0..PauseAfter]
  /\ call \in [Operator -> CallState]
  /\ faults \in 0..MaxFaults
  /\ written \in [Job -> SUBSET Item]
  /\ approval \in [Job -> Hash] /\ started \subseteq Job
  /\ checked \in [Job -> BOOLEAN] /\ unclear \in [Job -> SUBSET Item]

\* Only records of the list a person approved are written, and only in a job a
\* person started, whatever calls on old rows, restarts and re-queues happen
\* (jobAction approve and start; the hash of itemsHash).
OnlyApprovedWritten ==
  \A j \in Job : written[j] # {} =>
    approval[j] # NoHash /\ written[j] \subseteq approval[j] /\ j \in started

\* The canary (BulkWorker.tick): until a person has let the job go on after its
\* canary pause, no more than CanarySize records are written, plus one for each
\* restart or failed query, which loses the count of one write at most.
CanaryHolds ==
  \A j \in Job : Cardinality(written[j]) > CanarySize + faults => checked[j]

\* The report is honest (applyItem, record, markItem): a record shown as done was
\* written, an excluded one was not, and one shown as skipped or failed was not
\* either, unless an earlier write of it was answered by an error or cut off.
HonestReport ==
  \A j \in Job, i \in Item :
    LET shown == item[j][i].status IN
    /\ shown = "done" => i \in written[j]
    /\ shown = "excluded" => i \notin written[j]
    /\ shown \in {"skipped", "failed"} /\ i \in written[j] => i \in unclear[j]

\* After PauseAfter failures in a row nothing more is sent until the job is
\* resumed: a write is never out with a full streak, as long as the server was
\* not restarted and no query of its failed (between the count and the pause).
StreakStops ==
  worker.pc = "writing" /\ faults = 0 => streak[worker.job] < PauseAfter

\* A running job comes to rest: it is done, or paused for a person, or a person
\* stopped it.  Retries end (MAX_ATTEMPTS) and so do failures (the streak).
\* Holds for the oldest job; younger ones wait for it (running()[0]).
RunningSettles ==
  \A j \in Job : First(j, Job) => (job[j].status = "running" ~> job[j].status # "running")

\* The promise to whoever approves, as a specification of its own.
Promise == INSTANCE ApprovedBatch WITH
  Batch <- Job, Record <- Item, NoList <- NoHash, approved <- approval
KeepsPromise == Promise!Spec

\* What jobAction tells the person: "Paused - nothing more is written until it
\* is resumed" and "Cancelled. Records already written stay as they are; the rest
\* are untouched": only a person's call takes a job out of 'paused' or
\* 'cancelled' into 'running'.
StopHolds ==
  [][\A j \in Job : job[j].status \in {"paused", "cancelled"} /\ job'[j].status = "running" =>
       \E o \in Operator : call[o].job = j /\ call'[o] # call[o]]_vars
=============================================================================
