--------------------------- MODULE BulkJobProofs ---------------------------
(***************************************************************************)
(* Proofs about BulkJob, for every set of jobs, items and operators and    *)
(* every bound: type correctness, that only approved records are written,  *)
(* and that the detailed specification implements ApprovedBatch.           *)
(***************************************************************************)
EXTENDS BulkJob, FiniteSetTheorems, TLAPS

\* The list a prepared job holds: its hash, which its items still have.
Writable(j) == {i \in Item : item[j][i].status # "excluded"}
Prepared(j) == ~prep[j] /\ job[j].hash # NoHash /\ job[j].hash = Writable(j)

Acting(o, j, A) == call[o].pc = "acting" /\ call[o].job = j /\ call[o].action \in A

\* A row that does not exist has no hash and no preparation.
NoRowInv == \A j \in Job : job[j].status = "none" => job[j].hash = NoHash /\ ~prep[j]

\* The columns tell how far a job has come, and so do the calls under way.
ProgressInv ==
  \A j \in Job :
    /\ job[j].status \in {"ready", "approved", "running", "paused", "done"} => Prepared(j)
    /\ job[j].status \in {"approved", "running", "paused", "done"} => approval[j] # NoHash
    /\ job[j].status \in {"running", "paused", "done"} => j \in started

CallInv ==
  \A o \in Operator, j \in Job :
    /\ Acting(o, j, {"approve"}) => Prepared(j) /\ call[o].hash = job[j].hash
    /\ Acting(o, j, {"start"}) => Prepared(j) /\ approval[j] # NoHash
    /\ Acting(o, j, {"pause", "resume"}) => j \in started

\* An approval is of the list the job holds, and comes before the start.
ApprovalInv ==
  \A j \in Job :
    /\ approval[j] # NoHash => Prepared(j) /\ approval[j] = job[j].hash
    /\ j \in started => approval[j] # NoHash

\* The worker holds a started job and, from the write on, an item of its list.
WorkerInv ==
  /\ worker.pc # "idle" => worker.job \in started
  /\ worker.pc \in {"writing", "result", "marked", "counted"} =>
       worker.item \in Writable(worker.job)

WrittenInv ==
  \A j \in Job : written[j] # {} => j \in started /\ written[j] \subseteq Writable(j)

IInv == /\ TypeOK /\ NoRowInv /\ ProgressInv /\ CallInv /\ ApprovalInv
        /\ WorkerInv /\ WrittenInv
-----------------------------------------------------------------------------
LEMMA DefaultsType ==
  /\ Idle \in TickState /\ NoCall \in CallState
  /\ NoHash \in Hash /\ NoRow \in Row
BY BulkAssumption DEF AnyJob, AnyItem, Hash, NoRow, Row, Status, Idle, NoCall,
   TickState, CallState, Outcome, JobAction

LEMMA SaturateType ==
  ASSUME NEW limit \in Nat, NEW n \in 0..limit
  PROVE  Saturate(n, limit) \in 0..limit
BY DEF Saturate

\* What the updates do to one row.
LEMMA RowUpdates ==
  ASSUME NEW r \in Row
  PROVE  /\ \A s \in Status : [r EXCEPT !.status = s] \in Row
         /\ \A b \in BOOLEAN : [r EXCEPT !.archived = b] \in Row
         /\ \A s \in Status, b \in BOOLEAN : [r EXCEPT !.status = s, !.canaryDone = b] \in Row
         /\ \A s \in Status, n \in 0..CanarySize : [r EXCEPT !.status = s, !.processed = n] \in Row
BY DEF Row

\* setStatus keeps the type of the rows.
LEMMA SetStatusType ==
  ASSUME NEW j \in Job, NEW s \in Status, job \in [Job -> Row], SetStatus(j, s)
  PROVE  job' \in [Job -> Row]
BY RowUpdates DEF SetStatus

LEMMA LoseType ==
  ASSUME TypeOK, NEW lost, LoseAnswer(lost)
  PROVE  unclear' \in [Job -> SUBSET Item]
BY DEF TypeOK, TickState, LoseAnswer

LEMMA InitType == Init => TypeOK
BY BulkAssumption, DefaultsType DEF Init, TypeOK, ItemRow, ItemStatus

LEMMA PrepareType == TypeOK /\ (Prepare \/ Sweep) => TypeOK'
<1> SUFFICES ASSUME TypeOK, Prepare \/ Sweep PROVE TypeOK'
  OBVIOUS
<1> USE BulkAssumption, DefaultsType DEF TypeOK, store, memory, history
<1>1. ASSUME NEW j \in Job, Create(j) PROVE TypeOK'
  <2>1. [NoRow EXCEPT !.status = "preparing"] \in Row
    BY DEF Row, Status
  <2> QED BY <1>1, <2>1 DEF Create
<1>2. ASSUME NEW j \in Job, PrepareWaits(j) PROVE TypeOK'
  BY <1>2, SetStatusType, "preparing" \in Status DEF PrepareWaits, Status
<1>3. ASSUME NEW j \in Job, Fill(j) PROVE TypeOK'
  <2> PICK write \in SUBSET Item :
        /\ item' = [item EXCEPT ![j] = [i \in Item |->
             [status |-> IF i \in write THEN "pending" ELSE "excluded", attempts |-> 0]]]
        /\ job' = [job EXCEPT ![j] = [NoRow EXCEPT !.status = "ready", !.hash = write]]
    BY <1>3 DEF Fill
  <2>1. [NoRow EXCEPT !.status = "ready", !.hash = write] \in Row
    BY DEF Row, Status, Hash
  <2>2. job' \in [Job -> Row]
    BY <2>1
  <2>3. item' \in [Job -> [Item -> ItemRow]]
    BY DEF ItemRow, ItemStatus
  <2> QED BY <1>3, <2>2, <2>3 DEF Fill
<1>4. ASSUME NEW j \in Job, PrepareFails(j) PROVE TypeOK'
  <2>1. job' \in [Job -> Row]
    BY <1>4, SetStatusType DEF PrepareFails, Status
  <2> QED BY <1>4, <2>1 DEF PrepareFails
<1>5. CASE Sweep
  <2>1. job' \in [Job -> Row]
    <3>1. "failed" \in Status
      BY DEF Status
    <3>2. \A k \in Job : [job[k] EXCEPT !.status = "failed"] \in Row
      BY <3>1, RowUpdates
    <3>3. CASE UNCHANGED job
      BY <3>3
    <3>4. CASE job' = [k \in Job |-> IF job[k].status = "preparing"
                                    THEN [job[k] EXCEPT !.status = "failed"] ELSE job[k]]
      BY <3>2, <3>4
    <3> QED BY <1>5, <3>3, <3>4 DEF Sweep
  <2> QED BY <1>5, <2>1 DEF Sweep
<1> QED BY <1>1, <1>2, <1>3, <1>4, <1>5 DEF Prepare

LEMMA OperateType == TypeOK /\ Operate => TypeOK'
<1> SUFFICES ASSUME TypeOK, NEW o \in Operator,
                    (\E j \in Job, a \in JobAction : ReadJob(o, j, a)) \/ Act(o) \/ CallFails(o)
             PROVE  TypeOK'
  BY DEF Operate
<1> USE BulkAssumption, DefaultsType DEF TypeOK, store, history
<1>1. ASSUME NEW j \in Job, NEW a \in JobAction, ReadJob(o, j, a) PROVE TypeOK'
  <2>1. job[j].hash \in Hash
    BY DEF Row
  <2>2. call' \in [Operator -> CallState]
    BY <1>1, <2>1 DEF ReadJob, CallState
  <2> QED BY <1>1, <2>2 DEF ReadJob
<1>2. CASE Act(o)
  <2> DEFINE j == call[o].job  a == call[o].action
  <2>1. j \in Job /\ a \in JobAction /\ call[o].hash \in Hash
    BY DEF CallState
  <2>2. job' \in [Job -> Row]
    <3>1. CASE a \in DOMAIN NextStatus
      <4>1. NextStatus[a] \in Status
        BY <3>1 DEF NextStatus, Status
      <4> QED BY <1>2, <2>1, <3>1, <4>1, SetStatusType DEF Act
    <3>2. CASE a \notin DOMAIN NextStatus
      <4>1. (a = "archive") \in BOOLEAN
        OBVIOUS
      <4>2. [job[j] EXCEPT !.archived = (a = "archive")] \in Row
        BY <2>1, <4>1, RowUpdates
      <4>3. CASE a = "retry_failed"
        BY <1>2, <3>2, <4>3 DEF Act
      <4>4. CASE a # "retry_failed"
        <5>1. job' = [job EXCEPT ![j] = [job[j] EXCEPT !.archived = (a = "archive")]]
          BY <1>2, <3>2, <4>4 DEF Act
        <5> QED BY <4>2, <5>1
      <4> QED BY <4>3, <4>4
    <3> QED BY <3>1, <3>2
  <2>3. item' \in [Job -> [Item -> ItemRow]]
    <3>1. Requeued(item[j]) \in [Item -> ItemRow]
      <4>1. [status |-> "pending", attempts |-> 0] \in ItemRow
        BY DEF ItemRow, ItemStatus
      <4>2. item[j] \in [Item -> ItemRow]
        BY <2>1
      <4> QED BY <4>1, <4>2 DEF Requeued
    <3> QED BY <1>2, <2>1, <3>1 DEF Act
  <2>4. /\ call' \in [Operator -> CallState] /\ approval' \in [Job -> Hash]
        /\ started' \subseteq Job /\ checked' \in [Job -> BOOLEAN] /\ unclear' = unclear
    BY <1>2, <2>1 DEF Act
  <2> QED BY <1>2, <2>2, <2>3, <2>4 DEF Act
<1>3. CASE CallFails(o)
  BY <1>3 DEF CallFails
<1> QED BY <1>1, <1>2, <1>3

LEMMA WorkType == TypeOK /\ Work => TypeOK'
<1> SUFFICES ASSUME TypeOK, Work PROVE TypeOK'
  OBVIOUS
<1> USE BulkAssumption, DefaultsType DEF TypeOK, store, history
<1> DEFINE j == worker.job
<1>0. /\ j \in Job /\ worker.item \in Item /\ worker.out \in Outcome
      /\ worker.row.processed \in 0..CanarySize
      /\ {"paused", "done", "running"} \subseteq Status
  BY DEF TickState, Status
<1>1. CASE Tick
  <2> PICK k \in Job : worker' = [Idle EXCEPT !.pc = "ticked", !.job = k,
            !.row = [canaryDone |-> job[k].canaryDone, processed |-> job[k].processed]]
    BY <1>1 DEF Tick
  <2>1. job[k].canaryDone \in BOOLEAN /\ job[k].processed \in 0..CanarySize
    BY DEF Row
  <2>2. worker' \in TickState
    BY <2>1 DEF TickState
  <2> QED BY <1>1, <2>2 DEF Tick
<1>2. CASE HoldBack
  BY <1>2 DEF HoldBack
<1>3. CASE CanaryPause
  <2>1. [job[j] EXCEPT !.status = "paused", !.canaryDone = TRUE] \in Row
    BY <1>0, RowUpdates
  <2>2. job' = [job EXCEPT ![j] = [job[j] EXCEPT !.status = "paused", !.canaryDone = TRUE]]
    BY <1>0, <1>3 DEF CanaryPause, Row
  <2>3. job' \in [Job -> Row]
    BY <1>0, <2>1, <2>2
  <2> QED BY <1>3, <2>3 DEF CanaryPause
<1>4. CASE SendNext
  <2>1. worker' \in TickState
    BY <1>4 DEF SendNext, TickState
  <2> QED BY <1>4, <2>1 DEF SendNext
<1>5. CASE NothingLeft
  <2>1. worker' \in TickState
    BY <1>5 DEF NothingLeft, TickState
  <2> QED BY <1>5, <2>1 DEF NothingLeft
<1>6. CASE Finish
  BY <1>0, <1>6, SetStatusType DEF Finish
<1>7. ASSUME NEW out \in Outcome, NEW applied \in BOOLEAN, Answer(out, applied)
      PROVE  TypeOK'
  <2>1. worker' \in TickState
    BY <1>7 DEF Answer, TickState
  <2>2. written' \in [Job -> SUBSET Item]
    BY <1>0, <1>7 DEF Answer
  <2>3. LoseAnswer(applied /\ out # "done")
    BY <1>7 DEF Answer
  <2>4. unclear' \in [Job -> SUBSET Item]
    BY <2>3, LoseType
  <2> QED BY <1>7, <2>1, <2>2, <2>4 DEF Answer
<1>8. CASE RecordWait
  BY <1>0, <1>8, SetStatusType DEF RecordWait
<1>9. CASE RecordItem
  <2> DEFINE old == item[j][worker.item]
  <2> DEFINE new == [status |-> Mark(worker.out, old.status),
                     attempts |-> Saturate(old.attempts, MaxAttempts)]
  <2>0. item[j] \in [Item -> ItemRow]
    BY <1>0
  <2>1. old \in ItemRow
    BY <1>0, <2>0
  <2>2. new \in ItemRow
    <3>1. old.status \in ItemStatus /\ old.attempts \in 0..MaxAttempts
      BY <2>1 DEF ItemRow
    <3>2. Mark(worker.out, old.status) \in ItemStatus
      BY <1>0, <1>9, <3>1 DEF RecordItem, Mark, Outcome, ItemStatus
    <3>3. Saturate(old.attempts, MaxAttempts) \in 0..MaxAttempts
      BY <3>1, SaturateType
    <3> QED BY <3>2, <3>3 DEF ItemRow
  <2>3. item' = [item EXCEPT ![j] = [item[j] EXCEPT ![worker.item] = new]]
    BY <1>9 DEF RecordItem
  <2>4. item' \in [Job -> [Item -> ItemRow]]
    BY <1>0, <2>2, <2>3
  <2>5. streak' \in [Job -> 0..PauseAfter]
    BY <1>0, <1>9, SaturateType DEF RecordItem
  <2>6. worker' \in TickState
    BY <1>9 DEF RecordItem, TickState
  <2> QED BY <1>9, <2>4, <2>5, <2>6 DEF RecordItem
<1>10. CASE RecordLoginPause
  BY <1>0, <1>10, SetStatusType DEF RecordLoginPause
<1>11. CASE RecordProgress
  <2> DEFINE n == IF worker.out = "retry" THEN worker.row.processed
                  ELSE Saturate(worker.row.processed, CanarySize)
  <2>1. n \in 0..CanarySize
    BY <1>0, SaturateType
  <2>2. [job[j] EXCEPT !.status = "running", !.processed = n] \in Row
    BY <1>0, <2>1, RowUpdates
  <2>3. job' = [job EXCEPT ![j] = [job[j] EXCEPT !.status = "running", !.processed = n]]
    BY <1>0, <1>11 DEF RecordProgress, Row
  <2>4. worker' \in TickState
    BY <1>11 DEF RecordProgress, TickState
  <2>5. job' \in [Job -> Row]
    BY <1>0, <2>2, <2>3
  <2> QED BY <1>11, <2>4, <2>5 DEF RecordProgress
<1>12. CASE RecordStreakPause
  <2>1. job' \in [Job -> Row]
    BY <1>0, <1>12, SetStatusType DEF RecordStreakPause
  <2>2. streak' \in [Job -> 0..PauseAfter]
    BY <1>0, <1>12 DEF RecordStreakPause
  <2> QED BY <1>12, <2>1, <2>2 DEF RecordStreakPause
<1> QED BY <1>1, <1>2, <1>3, <1>4, <1>5, <1>6, <1>7, <1>8, <1>9, <1>10, <1>11, <1>12
        DEF Work, Record

LEMMA FaultType == TypeOK /\ (QueryFails \/ Restart) => TypeOK'
<1> SUFFICES ASSUME TypeOK, QueryFails \/ Restart PROVE TypeOK'
  OBVIOUS
<1> USE BulkAssumption, DefaultsType DEF TypeOK, store, history
<1>1. CASE QueryFails
  <2>1. unclear' \in [Job -> SUBSET Item]  BY <1>1, LoseType DEF QueryFails
  <2> QED BY <1>1, <2>1 DEF QueryFails
<1>2. CASE Restart
  <2>0. unclear' \in [Job -> SUBSET Item]
    <3>1. LoseAnswer(Unmarked) \/ LoseAnswer(TRUE)  BY <1>2 DEF Restart
    <3> QED  BY <3>1, LoseType
  <2>1. worker.job \in Job /\ worker.item \in Item
    BY DEF TickState
  <2>2. written' \in [Job -> SUBSET Item]
    BY <1>2, <2>1 DEF Restart, LoseAnswer, Unmarked
  <2>3. worker' = Idle /\ faults' \in 0..MaxFaults
    BY <1>2 DEF Restart
  <2>4. /\ prep' = [j \in Job |-> FALSE] /\ sweep' = TRUE /\ streak' = [j \in Job |-> 0]
        /\ call' = [o \in Operator |-> NoCall] /\ UNCHANGED <<store, approval, started, checked>>
    BY <1>2 DEF Restart
  <2> QED BY <2>0, <2>2, <2>3, <2>4
<1> QED BY <1>1, <1>2

LEMMA NextType == TypeOK /\ [Next]_vars => TypeOK'
<1>1. TypeOK /\ UNCHANGED vars => TypeOK'
  BY DEF TypeOK, vars, store, memory, history
<1> QED BY <1>1, PrepareType, OperateType, WorkType, FaultType DEF Next

\* Every behaviour of the bulk jobs keeps the types of the rows, the tick and
\* the calls, for any number of jobs, items, operators and faults.
THEOREM TypeCorrect == Spec => []TypeOK
BY InitType, NextType, PTL DEF Spec
-----------------------------------------------------------------------------
(* The inductive invariant.                                                *)

Lists == NoRowInv /\ ProgressInv /\ CallInv /\ ApprovalInv
Untouched == UNCHANGED <<prep, call, approval, started>>

\* A step that leaves the lists alone and moves only started jobs, between
\* 'running', 'paused' and 'done', keeps what the rows and calls say.
SameLists ==
  /\ Untouched
  /\ \A k \in Job : job'[k].hash = job[k].hash /\ Writable(k)' = Writable(k)
  /\ \A k \in Job :
       job'[k].status # job[k].status =>
         k \in started /\ job'[k].status \in {"running", "paused", "done"}

LEMMA SameListsKeep == Lists /\ SameLists => Lists'
<1> SUFFICES ASSUME Lists, SameLists PROVE Lists'
  OBVIOUS
<1>1. \A k \in Job : Prepared(k)' = Prepared(k)
  BY DEF SameLists, Untouched, Prepared
<1>2. \A k \in Job : k \in started => Prepared(k) /\ approval[k] # NoHash
  BY DEF Lists, ApprovalInv
<1>3. NoRowInv'
  BY DEF Lists, SameLists, Untouched, NoRowInv
<1>4. ProgressInv'
  BY <1>1, <1>2 DEF Lists, SameLists, Untouched, ProgressInv
<1>5. CallInv'
  BY <1>1 DEF Lists, SameLists, Untouched, CallInv, Acting
<1>6. ApprovalInv'
  BY <1>1 DEF Lists, SameLists, Untouched, ApprovalInv
<1> QED BY <1>3, <1>4, <1>5, <1>6 DEF Lists

\* setStatus and the other updates of a row leave its hash.
LEMMA SetStatusRow ==
  ASSUME TypeOK, NEW j \in Job, NEW s, SetStatus(j, s)
  PROVE  /\ \A k \in Job : job'[k].hash = job[k].hash
         /\ \A k \in Job \ {j} : job'[k] = job[k]
         /\ job'[j].status = s
BY DEF TypeOK, SetStatus, Row

LEMMA WorkLists == IInv /\ Work => SameLists
<1> SUFFICES ASSUME IInv, Work PROVE SameLists
  OBVIOUS
<1> DEFINE j == worker.job
<1>0. TypeOK /\ j \in Job /\ worker.item \in Item /\ worker.out \in Outcome
  BY DEF IInv, TypeOK, TickState
<1>a. worker.pc # "idle" => j \in started
  BY DEF IInv, WorkerInv
<1>1. ASSUME UNCHANGED store, Untouched PROVE SameLists
  BY <1>1 DEF SameLists, store, Writable
<1>2. ASSUME NEW s \in {"running", "paused", "done"}, SetStatus(j, s),
             worker.pc # "idle", UNCHANGED item, Untouched
      PROVE  SameLists
  <2>1. /\ \A k \in Job : job'[k].hash = job[k].hash
        /\ \A k \in Job \ {j} : job'[k] = job[k]
        /\ job'[j].status = s
    BY <1>0, <1>2, SetStatusRow
  <2> QED BY <1>0, <1>2, <1>a, <2>1 DEF SameLists, Writable
<1>3. CASE CanaryPause
  <2>1. /\ \A k \in Job : job'[k].hash = job[k].hash
        /\ \A k \in Job \ {j} : job'[k] = job[k]
        /\ job'[j].status = "paused"
    BY <1>0, <1>3 DEF CanaryPause, TypeOK, Row
  <2>2. Untouched /\ UNCHANGED item /\ worker.pc # "idle"
    BY <1>3 DEF CanaryPause, Untouched, history
  <2> QED BY <1>0, <1>a, <2>1, <2>2 DEF SameLists, Writable
<1>4. CASE RecordProgress
  <2>1. /\ \A k \in Job : job'[k].hash = job[k].hash
        /\ \A k \in Job \ {j} : job'[k] = job[k]
        /\ job'[j].status = "running"
    BY <1>0, <1>4 DEF RecordProgress, TypeOK, Row
  <2>2. Untouched /\ UNCHANGED item /\ worker.pc # "idle"
    BY <1>4 DEF RecordProgress, Untouched, history
  <2> QED BY <1>0, <1>a, <2>1, <2>2 DEF SameLists, Writable
<1>5. CASE RecordItem
  <2>1. UNCHANGED job /\ Untouched
    BY <1>5 DEF RecordItem, Untouched, history
  <2>2. worker.item \in Writable(j)
    BY <1>5 DEF RecordItem, IInv, WorkerInv
  <2>3. item[j][worker.item].status # "excluded"
    BY <2>2 DEF Writable
  <2>4. Mark(worker.out, item[j][worker.item].status) # "excluded"
    BY <1>0, <2>3 DEF Mark, Outcome
  <2>5. \A k \in Job, i \in Item :
          item'[k][i].status # "excluded" <=> item[k][i].status # "excluded"
    <3>1. item' = [item EXCEPT ![j] = [item[j] EXCEPT ![worker.item] =
             [status |-> Mark(worker.out, @.status), attempts |-> Saturate(@.attempts, MaxAttempts)]]]
      BY <1>5 DEF RecordItem
    <3> QED BY <1>0, <2>3, <2>4, <3>1 DEF TypeOK
  <2>6. \A k \in Job : Writable(k)' = Writable(k)
    BY <2>5 DEF Writable
  <2> QED BY <2>1, <2>6 DEF SameLists
<1>6. CASE Tick
  BY <1>1, <1>6 DEF Tick, Untouched, history
<1>7. CASE HoldBack
  BY <1>1, <1>7 DEF HoldBack, Untouched, history
<1>8. CASE SendNext
  BY <1>1, <1>8 DEF SendNext, Untouched, history
<1>9. CASE NothingLeft
  BY <1>1, <1>9 DEF NothingLeft, Untouched, history
<1>10. CASE Finish
  BY <1>2, <1>10 DEF Finish, Untouched, history
<1>11. ASSUME NEW out \in Outcome, NEW applied \in BOOLEAN, Answer(out, applied)
       PROVE  SameLists
  BY <1>1, <1>11 DEF Answer, Untouched, history
<1>12. CASE RecordWait
  BY <1>2, <1>12 DEF RecordWait, Untouched, history
<1>13. CASE RecordLoginPause
  BY <1>2, <1>13 DEF RecordLoginPause, Untouched, history
<1>14. CASE RecordStreakPause
  BY <1>2, <1>14 DEF RecordStreakPause, Untouched, history
<1> QED BY <1>3, <1>4, <1>5, <1>6, <1>7, <1>8, <1>9, <1>10, <1>11, <1>12, <1>13, <1>14
        DEF Work, Record

LEMMA WorkInv == IInv /\ Work => IInv'
<1> SUFFICES ASSUME IInv, Work PROVE IInv'
  OBVIOUS
<1> DEFINE j == worker.job
<1>1. TypeOK /\ TypeOK' /\ Lists' /\ SameLists
  BY WorkLists, SameListsKeep, WorkType DEF IInv, Lists
<1>2. j \in Job /\ worker.item \in Item
  BY <1>1 DEF TypeOK, TickState
<1>3. WorkerInv'
  <2> SUFFICES /\ worker'.pc # "idle" => worker'.job \in started
               /\ worker'.pc \in {"writing", "result", "marked", "counted"} =>
                    worker'.item \in Writable(worker'.job)
    BY <1>1 DEF WorkerInv, SameLists, Untouched, TypeOK, TickState
  <2>0. Idle.pc = "idle"
    BY DEF Idle
  <2>1. CASE Tick
    <3> PICK k \in Job : First(k, Running) /\ worker' = [Idle EXCEPT !.pc = "ticked", !.job = k,
          !.row = [canaryDone |-> job[k].canaryDone, processed |-> job[k].processed]]
      BY <2>1 DEF Tick
    <3>1. worker'.pc = "ticked" /\ worker'.job = k
      BY DEF Idle
    <3>2. k \in started
      BY DEF First, Running, IInv, ProgressInv
    <3> QED BY <3>1, <3>2
  <2>2. CASE SendNext
    <3> PICK i \in Item : First(i, Pending(j)) /\ worker' = [worker EXCEPT !.pc = "writing", !.item = i]
      BY <2>2 DEF SendNext
    <3>1. worker'.pc = "writing" /\ worker'.job = j /\ worker'.item = i
      BY <1>1 DEF TypeOK, TickState
    <3>2. i \in Writable(j)
      BY DEF First, Pending, Writable
    <3>3. j \in started
      BY <2>2 DEF SendNext, IInv, WorkerInv
    <3> QED BY <3>1, <3>2, <3>3
  <2>3. CASE worker' = Idle
    BY <2>0, <2>3
  <2>4. ASSUME NEW p, worker.pc # "idle", worker'.pc = p, worker'.job = j, worker'.item = worker.item,
               worker.pc \in {"writing", "result", "marked"} \/ p = "finishing"
        PROVE  /\ worker'.pc # "idle" => worker'.job \in started
               /\ worker'.pc \in {"writing", "result", "marked", "counted"} =>
                    worker'.item \in Writable(worker'.job)
    BY <2>4 DEF IInv, WorkerInv
  <2>5. CASE NothingLeft
    BY <1>1, <2>4, <2>5 DEF NothingLeft, TypeOK, TickState
  <2>6. ASSUME NEW out \in Outcome, NEW applied \in BOOLEAN, Answer(out, applied)
        PROVE  /\ worker'.pc # "idle" => worker'.job \in started
               /\ worker'.pc \in {"writing", "result", "marked", "counted"} =>
                    worker'.item \in Writable(worker'.job)
    BY <1>1, <2>4, <2>6 DEF Answer, TypeOK, TickState
  <2>7. CASE RecordItem
    BY <1>1, <2>4, <2>7 DEF RecordItem, TypeOK, TickState
  <2>8. CASE RecordProgress
    BY <1>1, <2>3, <2>4, <2>8 DEF RecordProgress, TypeOK, TickState
  <2>9. CASE HoldBack \/ CanaryPause \/ Finish \/ RecordWait \/ RecordLoginPause \/ RecordStreakPause
    BY <2>3, <2>9 DEF HoldBack, CanaryPause, Finish, RecordWait, RecordLoginPause, RecordStreakPause
  <2> QED BY <2>1, <2>2, <2>5, <2>6, <2>7, <2>8, <2>9 DEF Work, Record
<1>4. WrittenInv'
  <2>1. CASE UNCHANGED written
    BY <1>1, <2>1 DEF SameLists, Untouched, IInv, WrittenInv
  <2>2. ASSUME NEW out \in Outcome, NEW applied \in BOOLEAN, Answer(out, applied)
        PROVE  WrittenInv'
    <3>1. j \in started /\ worker.item \in Writable(j)
      BY <2>2 DEF Answer, IInv, WorkerInv
    <3>2. CASE written' = [written EXCEPT ![j] = @ \cup {worker.item}]
      BY <1>1, <1>2, <3>1, <3>2 DEF SameLists, Untouched, IInv, WrittenInv, TypeOK
    <3> QED BY <2>1, <2>2, <3>2 DEF Answer
  <2> QED BY <2>1, <2>2 DEF Work, Record, Tick, HoldBack, CanaryPause, SendNext, NothingLeft,
             Finish, RecordWait, RecordItem, RecordLoginPause, RecordProgress, RecordStreakPause
<1> QED BY <1>1, <1>3, <1>4 DEF IInv, Lists

LEMMA FaultInv == IInv /\ (QueryFails \/ Restart) => IInv'
<1> SUFFICES ASSUME IInv, QueryFails \/ Restart PROVE IInv'
  OBVIOUS
<1>1. TypeOK /\ TypeOK' /\ worker.job \in Job
  BY FaultType DEF IInv, TypeOK, TickState
<1>2. \A k \in Job : Writable(k)' = Writable(k)
  BY DEF QueryFails, Restart, store, Writable
<1>3. Idle.pc = "idle" /\ NoCall.pc = "idle"
  BY DEF Idle, NoCall
<1>4. WorkerInv'
  BY <1>3 DEF QueryFails, Restart, WorkerInv
<1>5. UNCHANGED <<job, approval, started>> /\ (\A k \in Job : Prepared(k) => Prepared(k)')
  BY <1>1, <1>2 DEF QueryFails, Restart, store, history, Prepared, TypeOK
<1>6. NoRowInv' /\ ProgressInv' /\ ApprovalInv'
  BY <1>1, <1>5 DEF QueryFails, Restart, IInv, NoRowInv, ProgressInv, ApprovalInv, TypeOK
<1>7. CallInv'
  <2>1. CASE QueryFails
    BY <1>5, <2>1 DEF QueryFails, IInv, CallInv, Acting
  <2>2. CASE Restart
    BY <1>3, <2>2 DEF Restart, CallInv, Acting
  <2> QED BY <2>1, <2>2
<1>8. WrittenInv'
  <2>1. CASE UNCHANGED written
    BY <1>2, <1>5, <2>1 DEF IInv, WrittenInv
  <2>2. CASE worker.pc = "writing" /\ written' = [written EXCEPT ![worker.job] = @ \cup {worker.item}]
    <3>1. worker.job \in started /\ worker.item \in Writable(worker.job)
      BY <2>2 DEF IInv, WorkerInv
    <3>2. worker.item \in Item
      BY <1>1 DEF TypeOK, TickState
    <3>3. ASSUME NEW k \in Job, written'[k] # {}
          PROVE  k \in started /\ written'[k] \subseteq Writable(k)
      BY <1>1, <2>2, <3>1, <3>2, <3>3 DEF IInv, WrittenInv, TypeOK
    <3> QED BY <1>2, <1>5, <3>3 DEF WrittenInv
  <2> QED BY <2>1, <2>2 DEF QueryFails, Restart
<1> QED BY <1>1, <1>4, <1>6, <1>7, <1>8 DEF IInv

LEMMA PrepareInv == IInv /\ (Prepare \/ Sweep) => IInv'
<1> SUFFICES ASSUME IInv, Prepare \/ Sweep PROVE IInv'
  OBVIOUS
<1>1. TypeOK /\ TypeOK'
  BY PrepareType DEF IInv
<1>2. UNCHANGED <<worker, call, approval, started, written>>
  BY DEF Prepare, Sweep, Create, PrepareWaits, Fill, PrepareFails, memory, history
<1>a. \A j \in Job : Prepared(j) => job[j].hash # NoHash /\ ~prep[j]
  BY DEF Prepared
\* A step on a job that is not prepared, which leaves the others alone.
<1>3. ASSUME NEW j \in Job, ~Prepared(j), job[j].hash = NoHash \/ prep[j],
             \A k \in Job \ {j} : job'[k] = job[k] /\ item'[k] = item[k] /\ prep'[k] = prep[k],
             job'[j].status \in {"preparing", "failed"} \/ (job'[j].status = "ready" /\ Prepared(j)')
      PROVE  IInv'
  <2>1. \A k \in Job \ {j} : Prepared(k)' = Prepared(k) /\ Writable(k)' = Writable(k)
    BY <1>3 DEF Prepared, Writable
  <2>2. /\ approval[j] = NoHash /\ j \notin started
        /\ \A o \in Operator : ~Acting(o, j, {"approve", "start", "pause", "resume"})
    BY <1>3 DEF IInv, ApprovalInv, CallInv, Acting
  <2>3. written[j] = {} /\ ~(worker.pc # "idle" /\ worker.job = j)
    BY <2>2 DEF IInv, WrittenInv, WorkerInv
  <2>4. NoRowInv' /\ ProgressInv'
    BY <1>1, <1>2, <1>3, <2>1 DEF IInv, NoRowInv, ProgressInv
  <2>5. CallInv'
    BY <1>2, <1>3, <2>1, <2>2 DEF IInv, CallInv, Acting
  <2>6. ApprovalInv'
    BY <1>2, <1>3, <2>1, <2>2 DEF IInv, ApprovalInv
  <2>7. WorkerInv'
    <3>1. worker.job \in Job
      BY <1>1 DEF TypeOK, TickState
    <3> QED BY <1>2, <2>1, <2>3, <3>1 DEF IInv, WorkerInv
  <2>8. WrittenInv'
    BY <1>2, <2>1, <2>3 DEF IInv, WrittenInv
  <2> QED BY <1>1, <2>4, <2>5, <2>6, <2>7, <2>8 DEF IInv
<1>4. ASSUME NEW j \in Job, Create(j) PROVE IInv'
  <2>1. job[j].hash = NoHash
    BY <1>4 DEF Create, IInv, NoRowInv
  <2>2. job'[j].status = "preparing"
    BY <1>1, <1>4 DEF Create, TypeOK, NoRow
  <2>3. \A k \in Job \ {j} : job'[k] = job[k] /\ item'[k] = item[k] /\ prep'[k] = prep[k]
    BY <1>1, <1>4 DEF Create, TypeOK
  <2> QED BY <1>3, <1>a, <2>1, <2>2, <2>3
<1>5. ASSUME NEW j \in Job, prep[j], NEW s \in {"preparing", "failed"}, SetStatus(j, s), UNCHANGED item,
             \A k \in Job \ {j} : prep'[k] = prep[k]
      PROVE  IInv'
  <2>1. job'[j].status = s /\ \A k \in Job \ {j} : job'[k] = job[k]
    BY <1>1, <1>5, SetStatusRow
  <2> QED BY <1>3, <1>a, <1>5, <2>1
<1>6. ASSUME NEW j \in Job, PrepareWaits(j) PROVE IInv'
  BY <1>5, <1>6 DEF PrepareWaits, memory
<1>7. ASSUME NEW j \in Job, PrepareFails(j) PROVE IInv'
  BY <1>1, <1>5, <1>7 DEF PrepareFails, TypeOK
<1>8. ASSUME NEW j \in Job, Fill(j) PROVE IInv'
  <2> PICK write \in SUBSET Item :
        /\ item' = [item EXCEPT ![j] = [i \in Item |->
             [status |-> IF i \in write THEN "pending" ELSE "excluded", attempts |-> 0]]]
        /\ job' = [job EXCEPT ![j] = [NoRow EXCEPT !.status = "ready", !.hash = write]]
    BY <1>8 DEF Fill
  <2>1. \A k \in Job \ {j} : job'[k] = job[k] /\ item'[k] = item[k] /\ prep'[k] = prep[k]
    BY <1>1, <1>8 DEF Fill, TypeOK
  <2>2. job'[j].status = "ready" /\ job'[j].hash = write /\ ~prep'[j]
    BY <1>1, <1>8 DEF Fill, TypeOK, NoRow
  <2>3. \A i \in Item : item'[j][i].status # "excluded" <=> i \in write
    BY <1>1 DEF TypeOK
  <2>4. Prepared(j)'
    <3>1. Writable(j)' = write
      BY <2>3 DEF Writable
    <3> QED BY <2>2, <3>1, BulkAssumption DEF Prepared
  <2> QED BY <1>3, <1>8, <1>a, <2>1, <2>2, <2>4 DEF Fill
<1>9. CASE Sweep
  <2>1. UNCHANGED <<item, prep>>
    BY <1>9 DEF Sweep
  <2>2. \A k \in Job :
          /\ job'[k].hash = job[k].hash
          /\ job'[k].status # job[k].status =>
               job[k].status = "preparing" /\ job'[k].status = "failed"
    <3>1. CASE UNCHANGED job
      BY <3>1
    <3>2. CASE job' = [k \in Job |-> IF job[k].status = "preparing"
                                    THEN [job[k] EXCEPT !.status = "failed"] ELSE job[k]]
      BY <1>1, <3>2 DEF TypeOK, Row
    <3> QED BY <1>9, <3>1, <3>2 DEF Sweep
  <2>3. \A k \in Job : Prepared(k)' = Prepared(k) /\ Writable(k)' = Writable(k)
    BY <2>1, <2>2 DEF Prepared, Writable
  <2>4. NoRowInv' /\ ProgressInv'
    BY <1>2, <2>1, <2>2, <2>3 DEF IInv, NoRowInv, ProgressInv
  <2>5. CallInv' /\ ApprovalInv'
    BY <1>2, <2>2, <2>3 DEF IInv, CallInv, ApprovalInv, Acting
  <2>6. WorkerInv' /\ WrittenInv'
    BY <1>1, <1>2, <2>3 DEF IInv, WorkerInv, WrittenInv, TypeOK, TickState
  <2> QED BY <1>1, <2>4, <2>5, <2>6 DEF IInv
<1> QED BY <1>4, <1>6, <1>7, <1>8, <1>9 DEF Prepare

LEMMA OperateInv == IInv /\ Operate => IInv'
<1> SUFFICES ASSUME IInv, NEW o \in Operator,
                    (\E j \in Job, a \in JobAction : ReadJob(o, j, a)) \/ Act(o) \/ CallFails(o)
             PROVE  IInv'
  BY DEF Operate
<1>1. TypeOK /\ TypeOK'
  <2>1. Operate
    BY DEF Operate
  <2> QED BY <2>1, OperateType DEF IInv
<1>2. UNCHANGED <<prep, worker, written>>
  BY DEF ReadJob, Act, CallFails
\* Ending a call takes no list away from another.
<1>3. ASSUME call' = [call EXCEPT ![o] = NoCall],
             NEW p \in Operator, NEW k \in Job, NEW A, Acting(p, k, A)'
      PROVE  Acting(p, k, A)
  BY <1>1, <1>3 DEF Acting, NoCall, TypeOK
<1>4. CASE CallFails(o)
  <2>1. UNCHANGED <<job, item, approval, started>> /\ call' = [call EXCEPT ![o] = NoCall]
    BY <1>4 DEF CallFails, store, history
  <2>2. \A k \in Job : Prepared(k)' = Prepared(k) /\ Writable(k)' = Writable(k)
    BY <1>2, <2>1 DEF Prepared, Writable
  <2>3. \A p \in Operator : call'[p].pc = "acting" => call'[p] = call[p]
    BY <1>1, <2>1 DEF NoCall, TypeOK
  <2>4. CallInv'
    BY <2>1, <2>2, <2>3 DEF IInv, CallInv, Acting
  <2>5. NoRowInv' /\ ProgressInv' /\ ApprovalInv'
    BY <1>2, <2>1, <2>2 DEF IInv, NoRowInv, ProgressInv, ApprovalInv
  <2>6. WorkerInv' /\ WrittenInv'
    BY <1>1, <1>2, <2>1, <2>2 DEF IInv, WorkerInv, WrittenInv, TypeOK, TickState
  <2> QED BY <1>1, <2>4, <2>5, <2>6 DEF IInv
<1>5. ASSUME NEW j \in Job, NEW a \in JobAction, ReadJob(o, j, a) PROVE IInv'
  <2> PICK h \in {job[j].hash, NoHash} :
        /\ a = "approve" => HashMatches(j, h)
        /\ call' = [call EXCEPT ![o] = [pc |-> "acting", job |-> j, action |-> a, hash |-> h]]
    BY <1>5 DEF ReadJob
  <2>1. UNCHANGED <<job, item, approval, started>> /\ job[j].status \in Rules[a]
    BY <1>5 DEF ReadJob, store, history
  <2>2. \A k \in Job : Prepared(k)' = Prepared(k) /\ Writable(k)' = Writable(k)
    BY <1>2, <2>1 DEF Prepared, Writable
  <2>3. call'[o] = [pc |-> "acting", job |-> j, action |-> a, hash |-> h]
        /\ \A p \in Operator \ {o} : call'[p] = call[p]
    BY <1>1 DEF TypeOK
  <2>4. /\ a = "approve" => Prepared(j) /\ h = job[j].hash
        /\ a = "start" => Prepared(j) /\ approval[j] # NoHash
        /\ a \in {"pause", "resume"} => j \in started
    BY <2>1 DEF Rules, HashMatches, IInv, ProgressInv
  <2>5. CallInv'
    <3> SUFFICES ASSUME NEW p \in Operator, NEW k \in Job
                 PROVE  /\ Acting(p, k, {"approve"})' => Prepared(k) /\ call'[p].hash = job[k].hash
                        /\ Acting(p, k, {"start"})' => Prepared(k) /\ approval[k] # NoHash
                        /\ Acting(p, k, {"pause", "resume"})' => k \in started
      BY <2>1, <2>2 DEF CallInv
    <3>1. CASE p = o
      BY <2>3, <2>4, <3>1 DEF Acting
    <3>2. CASE p # o
      BY <2>3, <3>2 DEF Acting, IInv, CallInv
    <3> QED BY <3>1, <3>2
  <2>6. NoRowInv' /\ ProgressInv' /\ ApprovalInv'
    BY <1>2, <2>1, <2>2 DEF IInv, NoRowInv, ProgressInv, ApprovalInv
  <2>7. WorkerInv' /\ WrittenInv'
    BY <1>1, <1>2, <2>1, <2>2 DEF IInv, WorkerInv, WrittenInv, TypeOK, TickState
  <2> QED BY <1>1, <2>5, <2>6, <2>7 DEF IInv
<1>6. CASE Act(o)
  <2> DEFINE j == call[o].job  a == call[o].action
  <2>1. j \in Job /\ a \in JobAction /\ call[o].pc = "acting" /\ call' = [call EXCEPT ![o] = NoCall]
    BY <1>1, <1>6 DEF Act, TypeOK, CallState
  <2>2. /\ a = "approve" => Prepared(j) /\ call[o].hash = job[j].hash
        /\ a = "start" => Prepared(j) /\ approval[j] # NoHash
        /\ a \in {"pause", "resume"} => j \in started
    BY <2>1 DEF IInv, CallInv, Acting
  <2>3. /\ \A k \in Job : job'[k].hash = job[k].hash
        /\ \A k \in Job \ {j} : job'[k] = job[k]
        /\ job'[j].status # job[j].status => a \in DOMAIN NextStatus /\ job'[j].status = NextStatus[a]
    <3>1. CASE a \in DOMAIN NextStatus
      BY <1>1, <1>6, <2>1, <3>1, SetStatusRow DEF Act
    <3>2. CASE a = "retry_failed"
      BY <1>6, <3>2 DEF Act, NextStatus
    <3>3. CASE a \notin DOMAIN NextStatus /\ a # "retry_failed"
      <4>1. job' = [job EXCEPT ![j].archived = (a = "archive")]
        BY <1>6, <3>3 DEF Act
      <4> QED BY <1>1, <2>1, <4>1 DEF TypeOK, Row
    <3> QED BY <3>1, <3>2, <3>3
  <2>4. \A k \in Job : Writable(k)' = Writable(k)
    <3>1. CASE item' = item
      BY <3>1 DEF Writable
    <3>2. CASE item' = [item EXCEPT ![j] = Requeued(item[j])]
      <4>1. \A k \in Job, i \in Item : item'[k][i].status # "excluded" <=> item[k][i].status # "excluded"
        BY <1>1, <2>1, <3>2 DEF Requeued, TypeOK
      <4> QED BY <4>1 DEF Writable
    <3> QED BY <1>6, <3>1, <3>2 DEF Act
  <2>5. \A k \in Job : Prepared(k)' = Prepared(k)
    BY <1>2, <2>3, <2>4 DEF Prepared
  <2>6. /\ \A k \in Job \ {j} : approval'[k] = approval[k] /\ (k \in started' <=> k \in started)
        /\ approval'[j] = IF a = "approve" THEN job[j].hash ELSE approval[j]
        /\ j \in started' <=> (j \in started \/ a = "start")
    BY <1>1, <1>6, <2>1, <2>2 DEF Act, TypeOK
  <2>7. /\ approval[j] # NoHash => approval'[j] = approval[j]
        /\ a \in {"approve", "start"} => approval'[j] # NoHash
        /\ started \subseteq started'
    <3>1. started \subseteq started'
      BY <1>6 DEF Act
    <3>2. approval[j] # NoHash => approval[j] = job[j].hash
      BY <2>1 DEF IInv, ApprovalInv
    <3>3. a = "approve" => job[j].hash # NoHash
      BY <2>2 DEF Prepared
    <3> QED BY <2>2, <2>6, <3>1, <3>2, <3>3
  <2>8. NoRowInv'
    BY <1>2, <2>3, <2>1 DEF IInv, NoRowInv, NextStatus
  <2>9. ProgressInv'
    <3> SUFFICES ASSUME NEW k \in Job
                 PROVE  /\ job'[k].status \in {"ready", "approved", "running", "paused", "done"} => Prepared(k)
                        /\ job'[k].status \in {"approved", "running", "paused", "done"} => approval'[k] # NoHash
                        /\ job'[k].status \in {"running", "paused", "done"} => k \in started'
      BY <2>5 DEF ProgressInv
    <3>1. CASE job'[k].status = job[k].status
      <4>1. approval[k] # NoHash => approval'[k] # NoHash
        BY <2>6, <2>7
      <4>2. k \in started => k \in started'
        BY <2>7
      <4> QED BY <3>1, <4>1, <4>2 DEF IInv, ProgressInv
    <3>2. CASE job'[k].status # job[k].status
      <4>1. k = j /\ a \in DOMAIN NextStatus /\ job'[j].status = NextStatus[a]
        BY <2>3, <3>2
      <4>2. CASE a \in {"pause", "resume"}
        <5>1. j \in started /\ approval[j] # NoHash /\ Prepared(j)
          BY <2>1, <2>2, <4>2 DEF IInv, ApprovalInv
        <5> QED BY <2>7, <4>1, <5>1
      <4>3. CASE a \in {"approve", "start"}
        BY <2>2, <2>6, <2>7, <4>1, <4>3 DEF NextStatus
      <4>4. CASE a = "cancel"
        BY <4>1, <4>4 DEF NextStatus
      <4> QED BY <4>1, <4>2, <4>3, <4>4 DEF NextStatus
    <3> QED BY <3>1, <3>2
  <2>10. CallInv'
    <3>1. \A p \in Operator : call'[p].pc = "acting" => call'[p] = call[p]
      BY <1>1, <2>1 DEF NoCall, TypeOK
    <3> QED BY <2>3, <2>5, <2>6, <2>7, <3>1 DEF IInv, CallInv, Acting
  <2>11. ApprovalInv'
    <3>1. a = "approve" => approval'[j] = job[j].hash /\ Prepared(j)
      BY <2>2, <2>6
    <3> QED BY <2>3, <2>5, <2>6, <2>7, <3>1 DEF IInv, ApprovalInv
  <2>12. WorkerInv'
    <3>1. worker.job \in Job  BY <1>1 DEF TypeOK, TickState
    <3>2. Writable(worker.job)' = Writable(worker.job)  BY <1>2, <2>4, <3>1
    <3> QED BY <1>2, <2>4, <2>7, <3>1, <3>2 DEF IInv, WorkerInv
  <2>13. WrittenInv'
    BY <1>2, <2>4, <2>7 DEF IInv, WrittenInv
  <2> QED BY <1>1, <2>8, <2>9, <2>10, <2>11, <2>12, <2>13 DEF IInv
<1> QED BY <1>4, <1>5, <1>6

LEMMA InitInv == Init => IInv
<1> SUFFICES ASSUME Init PROVE IInv
  OBVIOUS
<1>1. TypeOK
  BY InitType
<1>2. NoRowInv /\ ProgressInv /\ ApprovalInv /\ WrittenInv
  BY DEF Init, NoRow, NoRowInv, ProgressInv, ApprovalInv, WrittenInv
<1>3. CallInv /\ WorkerInv
  BY DEF Init, Idle, NoCall, CallInv, Acting, WorkerInv
<1> QED BY <1>1, <1>2, <1>3 DEF IInv

LEMMA NextInv == IInv /\ [Next]_vars => IInv'
<1>1. ASSUME IInv, UNCHANGED vars PROVE IInv'
  <2>1. \A k \in Job : Prepared(k)' = Prepared(k) /\ Writable(k)' = Writable(k)
    BY <1>1 DEF vars, store, memory, Prepared, Writable
  <2>2. TypeOK'
    BY <1>1, NextType DEF IInv
  <2>3. NoRowInv' /\ ProgressInv' /\ ApprovalInv'
    BY <1>1, <2>1 DEF vars, store, memory, history, IInv, NoRowInv, ProgressInv, ApprovalInv
  <2>4. CallInv'
    BY <1>1, <2>1 DEF vars, store, memory, history, IInv, CallInv, Acting
  <2>5. WorkerInv' /\ WrittenInv'
    BY <1>1, <2>1 DEF vars, store, memory, history, IInv, WorkerInv, WrittenInv, TypeOK, TickState
  <2> QED BY <2>2, <2>3, <2>4, <2>5 DEF IInv
<1> QED BY <1>1, PrepareInv, OperateInv, WorkInv, FaultInv DEF Next

\* The columns, the calls and the tick always agree on what is approved.
THEOREM Invariance == Spec => []IInv
BY InitInv, NextInv, PTL DEF Spec

\* Whatever calls act on old rows, and however often the server restarts, only
\* records of the approved list of a started job are ever written.
THEOREM OnlyApproved == Spec => []OnlyApprovedWritten
<1>1. IInv => OnlyApprovedWritten
  BY DEF IInv, WrittenInv, ApprovalInv, Prepared, OnlyApprovedWritten
<1> QED BY <1>1, Invariance, PTL
-----------------------------------------------------------------------------
(* The refinement: only an answer, a restart under a write, an approval and *)
(* a start change what ApprovedBatch sees.                                  *)

LEMMA WriteStep ==
  ASSUME IInv, worker.pc = "writing", UNCHANGED <<approval, started>>,
         written' = [written EXCEPT ![worker.job] = @ \cup {worker.item}]
  PROVE  Promise!Next
<1>1. worker.job \in Job /\ worker.item \in Item
  BY DEF IInv, TypeOK, TickState
<1>2. worker.job \in started /\ worker.item \in Writable(worker.job)
  BY DEF IInv, WorkerInv
<1>3. Writable(worker.job) = approval[worker.job]
  BY <1>1, <1>2 DEF IInv, ApprovalInv, Prepared
<1>4. Promise!Write(worker.job, worker.item)
  BY <1>2, <1>3 DEF Promise!Write
<1> QED BY <1>1, <1>4 DEF Promise!Next

LEMMA ActStep ==
  ASSUME IInv, NEW o \in Operator, Act(o)
  PROVE  [Promise!Next]_(Promise!vars)
<1> DEFINE j == call[o].job  a == call[o].action
<1>1. j \in Job /\ a \in JobAction /\ call[o].pc = "acting" /\ written' = written
  BY DEF IInv, TypeOK, CallState, Act
<1>2. CASE a = "approve"
  <2>1. Prepared(j) /\ call[o].hash = job[j].hash
    BY <1>1, <1>2 DEF IInv, CallInv, Acting
  <2>2. approval' = [approval EXCEPT ![j] = job[j].hash] /\ started' = started
    BY <1>2, <2>1 DEF Act
  <2>3. CASE approval[j] = NoHash
    <3>1. job[j].hash \in SUBSET Item
      BY <1>1, <2>1 DEF Prepared, IInv, TypeOK, Row, Hash
    <3>2. Promise!Approve(j, job[j].hash)
      BY <1>1, <2>2, <2>3 DEF Promise!Approve
    <3> QED BY <1>1, <3>1, <3>2 DEF Promise!Next
  <2>4. CASE approval[j] # NoHash
    <3>1. approval[j] = job[j].hash
      BY <1>1, <2>4 DEF IInv, ApprovalInv
    <3>2. approval' = approval
      BY <1>1, <2>2, <3>1 DEF IInv, TypeOK
    <3> QED BY <1>1, <2>2, <3>2 DEF Promise!vars
  <2> QED BY <2>3, <2>4
<1>3. CASE a = "start"
  <2>1. approval[j] # NoHash
    BY <1>1, <1>3 DEF IInv, CallInv, Acting
  <2>2. started' = started \cup {j} /\ approval' = approval
    BY <1>3 DEF Act
  <2>3. Promise!Start(j)
    BY <1>1, <2>1, <2>2 DEF Promise!Start
  <2> QED BY <1>1, <2>3 DEF Promise!Next
<1>4. CASE a \notin {"approve", "start"}
  <2>1. approval' = approval /\ started' = started
    BY <1>4 DEF Act
  <2> QED BY <1>1, <2>1 DEF Promise!vars
<1> QED BY <1>2, <1>3, <1>4

LEMMA PromiseStep == IInv /\ [Next]_vars => [Promise!Next]_(Promise!vars)
<1> SUFFICES ASSUME IInv, [Next]_vars PROVE [Promise!Next]_(Promise!vars)
  OBVIOUS
<1>1. CASE UNCHANGED <<approval, started, written>>
  BY <1>1 DEF Promise!vars
<1>2. CASE Prepare \/ Sweep \/ QueryFails \/ UNCHANGED vars
  BY <1>1, <1>2 DEF Prepare, Create, PrepareWaits, Fill, PrepareFails, Sweep, QueryFails,
                    vars, history
<1>3. CASE Operate
  <2>1. PICK o \in Operator :
          (\E j \in Job, a \in JobAction : ReadJob(o, j, a)) \/ Act(o) \/ CallFails(o)
    BY <1>3 DEF Operate
  <2>2. CASE Act(o)
    BY <2>2, ActStep
  <2>3. CASE ~Act(o)
    BY <1>1, <2>1, <2>3 DEF ReadJob, CallFails, history
  <2> QED BY <2>2, <2>3
<1>4. CASE Work
  <2>1. ASSUME NEW out \in Outcome, NEW applied \in BOOLEAN, Answer(out, applied)
        PROVE  [Promise!Next]_(Promise!vars)
    <3>1. CASE applied
      BY <2>1, <3>1, WriteStep DEF Answer, history
    <3>2. CASE ~applied
      BY <1>1, <2>1, <3>2 DEF Answer, history
    <3> QED BY <3>1, <3>2
  <2>2. CASE Record
    BY <1>1, <2>2 DEF Record, RecordWait, RecordItem, RecordLoginPause, RecordProgress,
                      RecordStreakPause, history
  <2>3. CASE Tick \/ HoldBack \/ CanaryPause \/ SendNext \/ NothingLeft \/ Finish
    BY <1>1, <2>3 DEF Tick, HoldBack, CanaryPause, SendNext, NothingLeft, Finish, history
  <2> QED BY <1>4, <2>1, <2>2, <2>3 DEF Work
<1>5. CASE Restart
  BY <1>1, <1>5, WriteStep DEF Restart, history
<1> QED BY <1>2, <1>3, <1>4, <1>5 DEF Next

\* The bulk-job workflow keeps the promise made to whoever approves: nothing is
\* written before approval and start, nothing outside the approved list is, and
\* the list of an approved job never changes.
THEOREM Refinement == Spec => KeepsPromise
<1>1. Init => Promise!Init
  BY DEF Init, Promise!Init
<1>2. IInv /\ [Next]_vars => [Promise!Next]_(Promise!vars)
  BY PromiseStep
<1> QED BY <1>1, <1>2, Invariance, PTL DEF Spec, KeepsPromise, Promise!Spec
-----------------------------------------------------------------------------
(* The report and the failure streak.                                      *)

\* An answer that says done stands for a write that was applied.
Shown(j, i, states) == item[j][i].status \in states

DoneInv ==
  /\ \A j \in Job, i \in Item : Shown(j, i, {"done"}) => i \in written[j]
  /\ Unmarked => worker.item \in written[worker.job]

\* What was written reads done, is about to, or its answer was not a clear one;
\* the item in hand is pending until it is marked.
ClearInv ==
  /\ worker.pc \in {"writing", "result"} => Shown(worker.job, worker.item, {"pending"})
  /\ \A j \in Job, i \in Item : i \in written[j] =>
       \/ i \in unclear[j] \/ Shown(j, i, {"done"})
       \/ Unmarked /\ worker.job = j /\ worker.item = i

\* Before the first fault only the tick that records a failure sees a full streak.
StreakInv ==
  faults = 0 => \A j \in Job :
    \/ streak[j] < PauseAfter
    \/ /\ worker.job = j
       /\ worker.pc = "counted" \/ (worker.pc = "marked" /\ worker.out # "pause")

LEMMA WorkerFacts ==
  ASSUME TypeOK
  PROVE  /\ worker.job \in Job /\ worker.item \in Item /\ worker.out \in Outcome
         /\ worker.row.processed \in Nat /\ faults \in Nat
         /\ Idle.pc = "idle"
         /\ \A j \in Job : job[j].processed \in Nat /\ streak[j] \in Nat
BY BulkAssumption DEF TypeOK, TickState, Row, Idle

\* A write that Autotask has applied stays applied.
LEMMA WrittenGrows ==
  ASSUME TypeOK, [Next]_vars, NEW j \in Job
  PROVE  written[j] \subseteq written'[j]
<1>1. CASE UNCHANGED written  BY <1>1
<1>2. CASE written' = [written EXCEPT ![worker.job] = @ \cup {worker.item}]
  BY <1>2 DEF TypeOK
<1> QED
  BY <1>1, <1>2 DEF Next, Prepare, Create, PrepareWaits, Fill, PrepareFails, Sweep, Operate, ReadJob, Act,
     CallFails, Work, Tick, HoldBack, CanaryPause, SendNext, NothingLeft, Finish, Answer, Record, RecordWait,
     RecordItem, RecordLoginPause, RecordProgress, RecordStreakPause, QueryFails, Restart, vars

LEMMA NextDone == TypeOK /\ DoneInv /\ [Next]_vars => DoneInv'
<1> SUFFICES ASSUME TypeOK, DoneInv, [Next]_vars PROVE DoneInv'
  OBVIOUS
<1> USE WorkerFacts
<1>1. \A j \in Job : written[j] \subseteq written'[j]  BY WrittenGrows
<1>2. ASSUME \A j \in Job, i \in Item : Shown(j, i, {"done"})' => Shown(j, i, {"done"}),
             Unmarked' => worker' = worker
      PROVE  DoneInv'
  BY <1>1, <1>2 DEF DoneInv, Unmarked
<1>3. CASE UNCHANGED item /\ (Unmarked' => worker' = worker)
  BY <1>2, <1>3 DEF Shown
<1>4. ASSUME NEW j \in Job, Fill(j) PROVE DoneInv'
  <2> PICK write \in SUBSET Item :
        item' = [item EXCEPT ![j] = [i \in Item |->
             [status |-> IF i \in write THEN "pending" ELSE "excluded", attempts |-> 0]]]
    BY <1>4 DEF Fill
  <2>1. \A k \in Job, i \in Item : Shown(k, i, {"done"})' => Shown(k, i, {"done"})
    BY DEF TypeOK, Shown
  <2> QED  BY <1>2, <1>4, <2>1 DEF Fill
<1>5. ASSUME NEW o \in Operator, Act(o) PROVE DoneInv'
  <2>1. worker' = worker /\ call[o].job \in Job  BY <1>5 DEF Act, TypeOK, CallState
  <2>2. \A k \in Job, i \in Item : Shown(k, i, {"done"})' => Shown(k, i, {"done"})
    <3>1. CASE item' = item  BY <3>1 DEF Shown
    <3>2. CASE item' = [item EXCEPT ![call[o].job] = Requeued(item[call[o].job])]
      BY <2>1, <3>2 DEF Requeued, TypeOK, Shown
    <3> QED  BY <1>5, <3>1, <3>2 DEF Act
  <2> QED  BY <1>2, <2>1, <2>2
<1>6. ASSUME NEW out \in Outcome, NEW applied \in BOOLEAN, Answer(out, applied) PROVE DoneInv'
  <2>1. /\ worker'.out = out /\ worker'.item = worker.item /\ worker'.job = worker.job
        /\ UNCHANGED item
    BY <1>6 DEF Answer, TypeOK, TickState, store
  <2>2. out = "done" => worker.item \in written'[worker.job]
    BY <1>6 DEF Answer, Possible, TypeOK
  <2> QED  BY <1>1, <2>1, <2>2 DEF DoneInv, Shown, Unmarked
<1>7. CASE RecordItem
  <2>1. worker.pc = "result" /\ worker'.pc = "marked"  BY <1>7 DEF RecordItem, TypeOK, TickState
  <2>2. /\ \A k \in Job, i \in Item : <<k, i>> # <<worker.job, worker.item>> => item'[k][i] = item[k][i]
        /\ item'[worker.job][worker.item].status = Mark(worker.out, item[worker.job][worker.item].status)
    BY <1>7 DEF RecordItem, TypeOK
  <2>3. item'[worker.job][worker.item].status = "done" => worker.item \in written[worker.job]
    BY <2>1, <2>2 DEF Mark, DoneInv, Shown, Unmarked
  <2> QED  BY <1>1, <2>1, <2>2, <2>3 DEF DoneInv, Shown, Unmarked
<1>8. CASE Prepare \/ Sweep \/ UNCHANGED vars
  BY <1>3, <1>4, <1>8 DEF Prepare, Create, PrepareWaits, PrepareFails, Sweep, vars, store, memory
<1>9. CASE Operate
  BY <1>3, <1>5, <1>9 DEF Operate, ReadJob, CallFails, store
<1>10. CASE worker' = Idle /\ UNCHANGED item
  BY <1>3, <1>10 DEF Unmarked
<1>11. CASE Tick \/ SendNext \/ NothingLeft \/ RecordProgress
  <2>1. worker'.pc # "result" /\ UNCHANGED item
    BY <1>11 DEF Tick, SendNext, NothingLeft, RecordProgress, TypeOK, TickState, store, Idle
  <2> QED  BY <1>3, <2>1 DEF Unmarked
<1> QED
  BY <1>6, <1>7, <1>8, <1>9, <1>10, <1>11
  DEF Next, Work, Record, HoldBack, CanaryPause, Finish, RecordWait, RecordLoginPause, RecordStreakPause,
      QueryFails, Restart, store

\* A step that writes nothing, marks nothing and loses no answer.
LEMMA ClearKept ==
  ASSUME ClearInv, UNCHANGED <<written, unclear>>,
         \A j \in Job, i \in Item, s \in {"done", "pending"} : Shown(j, i, {s}) => Shown(j, i, {s})',
         \/ worker' = worker /\ worker.job \in Job /\ worker.item \in Item
         \/ ~Unmarked /\ worker'.pc \notin {"writing", "result"}
  PROVE  ClearInv'
BY DEF ClearInv, Unmarked

\* A step of the worker that loses or may lose an answer.
LEMMA ClearLost ==
  ASSUME TypeOK, ClearInv, NEW lost, LoseAnswer(lost), UNCHANGED item, Idle.pc = "idle",
         \/ UNCHANGED written
         \/ /\ written' = [written EXCEPT ![worker.job] = @ \cup {worker.item}]
            /\ lost \/ (Unmarked' /\ worker'.job = worker.job /\ worker'.item = worker.item),
         Unmarked => lost, worker.pc # "writing" \/ ~Unmarked
  PROVE  \A j \in Job, i \in Item : i \in written'[j] =>
           \/ i \in unclear'[j] \/ Shown(j, i, {"done"})'
           \/ Unmarked' /\ worker'.job = j /\ worker'.item = i
<1> SUFFICES ASSUME NEW j \in Job, NEW i \in Item, i \in written'[j]
             PROVE  \/ i \in unclear'[j] \/ Shown(j, i, {"done"})'
                    \/ Unmarked' /\ worker'.job = j /\ worker'.item = i
  OBVIOUS
<1>1. /\ unclear[j] \subseteq unclear'[j]
      /\ lost /\ worker.job = j => worker.item \in unclear'[j]
  BY DEF LoseAnswer, TypeOK
<1>2. CASE i \in written[j]
  BY <1>1, <1>2 DEF ClearInv, Shown
<1>3. CASE i \notin written[j]
  <2>1. /\ j = worker.job /\ i = worker.item
        /\ lost \/ (Unmarked' /\ worker'.job = worker.job /\ worker'.item = worker.item)
    BY <1>3 DEF TypeOK
  <2> QED  BY <1>1, <2>1
<1> QED  BY <1>2, <1>3

LEMMA NextClear == IInv /\ ClearInv /\ [Next]_vars => ClearInv'
<1> SUFFICES ASSUME IInv, ClearInv, [Next]_vars PROVE ClearInv'
  OBVIOUS
<1>0. TypeOK  BY DEF IInv
<1> USE <1>0, WorkerFacts
<1>1. CASE /\ UNCHANGED <<item, written, unclear>>
           /\ worker' = worker \/ (~Unmarked /\ worker'.pc \notin {"writing", "result"})
  BY <1>1, ClearKept DEF Shown
<1>2. ASSUME NEW j \in Job, Fill(j) PROVE ClearInv'
  <2>1. prep[j] /\ UNCHANGED <<worker, written, unclear>>
        /\ \A k \in Job \ {j} : item'[k] = item[k]
    BY <1>2 DEF Fill, TypeOK, history
  \* Nothing of a job in preparation is written or in hand.
  <2>2. j \notin started  BY <2>1 DEF IInv, ApprovalInv, Prepared
  <2>3. written[j] = {} /\ (worker.pc # "idle" => worker.job # j)
    BY <2>2 DEF IInv, WrittenInv, WorkerInv
  <2> QED  BY <2>1, <2>3 DEF ClearInv, Shown, Unmarked
<1>3. ASSUME NEW o \in Operator, Act(o) PROVE ClearInv'
  <2>1. worker' = worker /\ call[o].job \in Job /\ UNCHANGED <<written, unclear>>
    BY <1>3 DEF Act, TypeOK, CallState
  <2>2. \A k \in Job, i \in Item, t \in {"done", "pending"} : Shown(k, i, {t}) => Shown(k, i, {t})'
    <3>1. CASE item' = item  BY <3>1 DEF Shown
    <3>2. CASE item' = [item EXCEPT ![call[o].job] = Requeued(item[call[o].job])]
      BY <2>1, <3>2 DEF Requeued, TypeOK, Shown
    <3> QED  BY <1>3, <3>1, <3>2 DEF Act
  <2> QED  BY <2>1, <2>2, ClearKept
<1>4. CASE SendNext
  <2>1. PICK i \in Item : First(i, Pending(worker.job)) /\ worker' = [worker EXCEPT !.pc = "writing", !.item = i]
    BY <1>4 DEF SendNext
  <2>2. /\ worker'.pc = "writing" /\ worker'.item = i /\ worker'.job = worker.job
        /\ worker.pc = "ticked" /\ UNCHANGED <<item, written, unclear>>
    BY <1>4, <2>1 DEF SendNext, TypeOK, TickState, store, history
  <2>3. Shown(worker.job, i, {"pending"})  BY <2>1 DEF First, Pending, Shown
  <2> QED  BY <2>2, <2>3 DEF ClearInv, Shown, Unmarked
<1>5. ASSUME NEW out \in Outcome, NEW applied \in BOOLEAN, Answer(out, applied) PROVE ClearInv'
  <2>1. /\ worker'.pc = "result" /\ worker'.out = out /\ worker'.item = worker.item /\ worker'.job = worker.job
        /\ worker.pc = "writing" /\ UNCHANGED item /\ LoseAnswer(applied /\ out # "done")
        /\ written' = IF applied THEN [written EXCEPT ![worker.job] = @ \cup {worker.item}] ELSE written
    BY <1>5 DEF Answer, TypeOK, TickState, store
  <2> DEFINE lost == applied /\ out # "done"
  <2>2. /\ LoseAnswer(lost) /\ ~Unmarked
        /\ \/ UNCHANGED written
           \/ /\ written' = [written EXCEPT ![worker.job] = @ \cup {worker.item}]
              /\ lost \/ (Unmarked' /\ worker'.job = worker.job /\ worker'.item = worker.item)
    BY <2>1 DEF Unmarked
  <2> HIDE DEF lost
  <2>3. \A j \in Job, i \in Item : i \in written'[j] =>
           \/ i \in unclear'[j] \/ Shown(j, i, {"done"})'
           \/ Unmarked' /\ worker'.job = j /\ worker'.item = i
    BY <2>1, <2>2, ClearLost
  <2> QED  BY <2>1, <2>3 DEF ClearInv, Shown
<1>6. CASE RecordItem
  <2>1. worker.pc = "result" /\ worker'.pc = "marked" /\ UNCHANGED <<written, unclear>>
    BY <1>6 DEF RecordItem, TypeOK, TickState, history
  <2>2. /\ \A k \in Job, i \in Item : <<k, i>> # <<worker.job, worker.item>> => item'[k][i] = item[k][i]
        /\ item'[worker.job][worker.item].status = Mark(worker.out, item[worker.job][worker.item].status)
    BY <1>6 DEF RecordItem, TypeOK
  <2>3. Shown(worker.job, worker.item, {"pending"})  BY <2>1 DEF ClearInv
  <2>4. ASSUME NEW j \in Job, NEW i \in Item, i \in written'[j]
        PROVE  i \in unclear'[j] \/ Shown(j, i, {"done"})'
    <3>1. i \in unclear[j] \/ Shown(j, i, {"done"}) \/ (Unmarked /\ worker.job = j /\ worker.item = i)
      BY <2>1, <2>4 DEF ClearInv
    <3>2. CASE <<j, i>> # <<worker.job, worker.item>>
      BY <2>1, <2>2, <3>1, <3>2 DEF Shown
    <3>3. CASE j = worker.job /\ i = worker.item
      BY <2>1, <2>2, <2>3, <3>1, <3>3 DEF Shown, Mark, Unmarked
    <3> QED  BY <3>2, <3>3
  <2> QED  BY <2>1, <2>4 DEF ClearInv
<1>7. CASE QueryFails \/ Restart
  <2>1. worker' = Idle /\ UNCHANGED item  BY <1>7 DEF QueryFails, Restart, store
  <2>2. \/ UNCHANGED written /\ LoseAnswer(Unmarked)
        \/ /\ worker.pc = "writing" /\ LoseAnswer(TRUE)
           /\ written' = [written EXCEPT ![worker.job] = @ \cup {worker.item}]
    BY <1>7 DEF QueryFails, Restart
  <2>3. CASE UNCHANGED written /\ LoseAnswer(Unmarked)
    BY <2>1, <2>3, ClearLost DEF ClearInv, Unmarked
  <2>4. CASE /\ worker.pc = "writing" /\ LoseAnswer(TRUE)
             /\ written' = [written EXCEPT ![worker.job] = @ \cup {worker.item}]
    BY <2>1, <2>4, ClearLost DEF ClearInv, Unmarked
  <2> QED  BY <2>2, <2>3, <2>4
<1>8. CASE Prepare \/ Sweep \/ UNCHANGED vars
  BY <1>1, <1>2, <1>8 DEF Prepare, Create, PrepareWaits, PrepareFails, Sweep, vars, store, memory, history
<1>9. CASE Operate
  BY <1>1, <1>3, <1>9 DEF Operate, ReadJob, CallFails, store, history
<1>10. CASE \/ Tick \/ HoldBack \/ CanaryPause \/ NothingLeft \/ Finish
            \/ RecordWait \/ RecordLoginPause \/ RecordProgress \/ RecordStreakPause
  <2>1. ~Unmarked /\ worker'.pc \notin {"writing", "result"} /\ UNCHANGED <<item, written, unclear>>
    BY <1>10 DEF Tick, HoldBack, CanaryPause, NothingLeft, Finish, RecordWait, RecordLoginPause, RecordProgress,
       RecordStreakPause, Unmarked, TypeOK, TickState, Idle, store, history
  <2> QED  BY <1>1, <2>1
<1> QED
  BY <1>4, <1>5, <1>6, <1>7, <1>8, <1>9, <1>10 DEF Next, Work, Record

\* What the report shows of a record is so (applyItem, record): done was written,
\* excluded was not, and skipped or failed was not unless an answer was lost; whatever
\* answers are errors, however often a job is re-queued and the server restarts.
THEOREM ReportIsHonest == Spec => []HonestReport
<1>1. Init => DoneInv /\ ClearInv
  BY DEF Init, Idle, DoneInv, ClearInv, Shown, Unmarked
<1>2. IInv /\ DoneInv /\ ClearInv => HonestReport
  <2> SUFFICES ASSUME IInv, DoneInv, ClearInv, NEW j \in Job, NEW i \in Item
               PROVE  LET shown == item[j][i].status IN
                      /\ shown = "done" => i \in written[j]
                      /\ shown = "excluded" => i \notin written[j]
                      /\ shown \in {"skipped", "failed"} /\ i \in written[j] => i \in unclear[j]
    BY DEF HonestReport
  <2>1. item[j][i].status = "done" => i \in written[j]  BY DEF DoneInv, Shown
  <2>2. item[j][i].status = "excluded" => i \notin written[j]  BY DEF IInv, WrittenInv, Writable
  <2>3. item[j][i].status \in {"skipped", "failed"} /\ i \in written[j] => i \in unclear[j]
    BY DEF ClearInv, Shown, Unmarked
  <2> QED  BY <2>1, <2>2, <2>3
<1> QED  BY <1>1, <1>2, TypeCorrect, Invariance, NextDone, NextClear, PTL DEF Spec

LEMMA NextStreak == TypeOK /\ StreakInv /\ [Next]_vars => StreakInv'
<1> SUFFICES ASSUME TypeOK, StreakInv, [Next]_vars, faults' = 0, NEW j \in Job
             PROVE  \/ streak'[j] < PauseAfter
                    \/ /\ worker'.job = j
                       /\ worker'.pc = "counted" \/ (worker'.pc = "marked" /\ worker'.out # "pause")
  BY DEF StreakInv
<1> USE WorkerFacts, BulkAssumption
<1>1. CASE UNCHANGED <<faults, streak, worker>>  BY <1>1 DEF StreakInv
<1>2. CASE Restart \/ QueryFails  BY <1>2 DEF Restart, QueryFails, LoseAnswer, Unmarked, TypeOK
<1>3. ASSUME UNCHANGED <<faults, streak>>, worker.pc \notin {"marked", "counted"} PROVE streak'[j] < PauseAfter
  BY <1>3 DEF StreakInv
<1>4. CASE \/ Tick \/ HoldBack \/ CanaryPause \/ SendNext \/ NothingLeft \/ Finish \/ RecordWait
           \/ \E out \in Outcome, applied \in BOOLEAN : Answer(out, applied)
  <2>1. UNCHANGED <<faults, streak>> /\ worker.pc \notin {"marked", "counted"}
    BY <1>4 DEF Tick, HoldBack, CanaryPause, SendNext, NothingLeft, Finish, RecordWait, Answer
  <2> QED  BY <1>3, <2>1
<1>5. CASE RecordItem
  <2>1. /\ worker.pc = "result" /\ worker'.pc = "marked" /\ worker'.job = worker.job
        /\ worker'.out = worker.out /\ UNCHANGED faults
    BY <1>5 DEF RecordItem, TypeOK, TickState
  <2>2. streak[j] < PauseAfter  BY <2>1 DEF StreakInv
  <2>3. worker.job # j \/ worker.out = "pause" => streak'[j] \in {streak[j], 0}
    BY <1>5 DEF RecordItem, TypeOK
  <2> QED  BY <2>1, <2>2, <2>3
<1>6. CASE RecordLoginPause
  <2>1. UNCHANGED <<faults, streak>> /\ worker.pc = "marked" /\ worker.out = "pause"
    BY <1>6 DEF RecordLoginPause
  <2> QED  BY <2>1 DEF StreakInv
<1>7. CASE RecordProgress
  <2>1. UNCHANGED <<faults, streak>> /\ worker.pc = "marked"  BY <1>7 DEF RecordProgress
  <2>2. CASE StreakFull(worker.job)
    <3>1. worker'.pc = "counted" /\ worker'.job = worker.job
      BY <1>7, <2>2 DEF RecordProgress, TypeOK, TickState
    <3> QED  BY <2>1, <3>1 DEF StreakInv
  <2>3. CASE ~StreakFull(worker.job)
    BY <2>1, <2>3 DEF StreakFull, StreakInv
  <2> QED  BY <2>2, <2>3
<1>8. CASE RecordStreakPause
  <2>1. UNCHANGED faults /\ streak' = [streak EXCEPT ![worker.job] = 0] /\ worker.pc = "counted"
    BY <1>8 DEF RecordStreakPause
  <2> QED  BY <2>1 DEF StreakInv, TypeOK
<1> QED
  BY <1>1, <1>2, <1>4, <1>5, <1>6, <1>7, <1>8
  DEF Next, Work, Record, Prepare, Create, PrepareWaits, Fill, PrepareFails, Sweep, Operate, ReadJob, Act,
      CallFails, vars, memory

\* After PauseAfter failures in a row nothing is sent until the job is resumed (record,
\* failStreak): the pause comes before the next write, for any number of jobs and items,
\* as long as no query of the worker has failed and the server was not restarted.
THEOREM FailuresStop == Spec => []StreakStops
<1>1. Init => StreakInv  BY BulkAssumption DEF Init, StreakInv
<1>2. TypeOK /\ StreakInv => StreakStops  BY WorkerFacts DEF StreakInv, StreakStops
<1> QED  BY <1>1, <1>2, TypeCorrect, NextStreak, PTL DEF Spec
-----------------------------------------------------------------------------
(* The canary.  processed is what a tick saw when it began, retried items  *)
(* are sent again, failed ones re-queued, and counts get lost.  The worker *)
(* takes the first pending item, so whatever lies before the item it holds *)
(* has been counted: in processed, or as the loss of one fault.            *)

Settled(j) == {i \in Item : item[j][i].status \in {"done", "skipped", "failed"}}
InHand(j) == IF worker.job = j /\ worker.pc \in {"writing", "result", "marked"} THEN {worker.item} ELSE {}
Marked(j) == IF worker.pc = "marked" THEN InHand(j) ELSE {}
Passed(j, C, i) == \A k \in Item : k < i => k \in C \/ item[j][k].status = "excluded"

\* C holds the items that are counted: what is settled or written is in C, but for the
\* item in hand and for one whose outcome is still open.
Counted(j, C) ==
  /\ IsFiniteSet(C) /\ IsFiniteSet(written[j])
  /\ Cardinality(C) <= job[j].processed + faults
  /\ Cardinality(C \cup written[j] \cup InHand(j)) <= CanarySize + faults
  /\ Settled(j) \subseteq C \cup Marked(j)
  /\ \A i \in (written[j] \ C) \cup InHand(j) : Passed(j, C, i)

CanaryInv ==
  \A j \in Job : ~checked[j] =>
    /\ job[j].canaryDone => job[j].status # "running"
    /\ \E C \in SUBSET Item : Counted(j, C)

\* The tick's copy of the row is still the row, and it holds a pending item.
RowInv ==
  /\ worker.pc \in {"ticked", "writing", "result", "marked"} =>
       /\ worker.row.processed = job[worker.job].processed
       /\ worker.row.canaryDone = job[worker.job].canaryDone
  /\ worker.pc # "idle" /\ ~checked[worker.job] => ~job[worker.job].canaryDone
  /\ worker.pc \in {"writing", "result", "marked"} /\ ~checked[worker.job] =>
       worker.row.processed < CanarySize
  /\ worker.pc \in {"writing", "result"} \/ (worker.pc = "marked" /\ worker.out \in {"retry", "pause"}) =>
       item[worker.job][worker.item].status = "pending"

\* Nothing of a job that was not started has an outcome.
FreshInv == \A j \in Job : j \notin started => Settled(j) = {}

CountInv == FreshInv /\ RowInv /\ CanaryInv

LEMMA CardFacts ==
  ASSUME NEW S, IsFiniteSet(S)
  PROVE  /\ Cardinality(S) \in Nat
         /\ \A T \in SUBSET S : IsFiniteSet(T) /\ Cardinality(T) \in Nat /\ Cardinality(T) <= Cardinality(S)
         /\ \A x : /\ IsFiniteSet(S \cup {x}) /\ Cardinality(S \cup {x}) \in Nat
                   /\ Cardinality(S \cup {x}) <= Cardinality(S) + 1
<1>1. Cardinality(S) \in Nat  BY FS_CardinalityType
<1>2. ASSUME NEW T \in SUBSET S
      PROVE  IsFiniteSet(T) /\ Cardinality(T) \in Nat /\ Cardinality(T) <= Cardinality(S)
  BY <1>1, FS_Subset, FS_CardinalityType
<1>3. ASSUME NEW x
      PROVE  /\ IsFiniteSet(S \cup {x}) /\ Cardinality(S \cup {x}) \in Nat
             /\ Cardinality(S \cup {x}) <= Cardinality(S) + 1
  BY <1>1, FS_AddElement, FS_CardinalityType
<1> QED  BY <1>1, <1>2, <1>3

\* A job that was not started: nothing is counted, and nothing needs to be.
LEMMA FreshCounted ==
  ASSUME TypeOK, WorkerInv, WrittenInv, NEW j \in Job, j \notin started, Settled(j) = {}
  PROVE  Counted(j, {})
<1>1. written[j] = {} /\ InHand(j) = {}  BY DEF WrittenInv, WorkerInv, InHand
<1>2. IsFiniteSet({}) /\ Cardinality({}) = 0  BY FS_EmptySet
<1> QED  BY <1>1, <1>2, WorkerFacts, BulkAssumption DEF Counted

LEMMA FreshCountedNext ==
  ASSUME NEW j \in Job
  PROVE  (TypeOK /\ WorkerInv /\ WrittenInv /\ j \notin started /\ Settled(j) = {} => Counted(j, {}))'
<1>1. TypeOK /\ WorkerInv /\ WrittenInv /\ j \notin started /\ Settled(j) = {} => Counted(j, {})
  BY FreshCounted
<1> QED  BY <1>1, PTL

LEMMA CountedFinite ==
  ASSUME NEW j \in Job, NEW C, Counted(j, C)
  PROVE  IsFiniteSet(C \cup written[j] \cup InHand(j))
<1>1. IsFiniteSet(C \cup written[j])  BY FS_Union DEF Counted
<1>2. IsFiniteSet(InHand(j))  BY FS_EmptySet, FS_Singleton DEF InHand
<1> QED  BY <1>1, <1>2, FS_Union

\* More items may be counted, of those that were written or in hand.
LEMMA CountedMove ==
  ASSUME TypeOK, TypeOK', NEW j \in Job, NEW C \in SUBSET Item, NEW D \in SUBSET Item, Counted(j, C), C \subseteq D,
         D \cup written'[j] \cup InHand(j)' \subseteq C \cup written[j] \cup InHand(j),
         Cardinality(D) <= job'[j].processed + faults', faults' >= faults,
         InHand(j)' \subseteq InHand(j), Settled(j)' \subseteq D \cup Marked(j)',
         \A k \in Item : item[j][k].status = "excluded" => item'[j][k].status = "excluded"
  PROVE  Counted(j, D)'
<1> DEFINE S == C \cup written[j] \cup InHand(j)
           T == D \cup written'[j] \cup InHand(j)'
<1>1. IsFiniteSet(S) /\ T \in SUBSET S  BY CountedFinite
<1>2. /\ Cardinality(T) <= Cardinality(S) /\ Cardinality(T) \in Nat /\ Cardinality(S) \in Nat
      /\ IsFiniteSet(D) /\ IsFiniteSet(written'[j])
  BY <1>1, CardFacts
<1>3. faults \in Nat /\ faults' \in Nat /\ CanarySize \in Nat
  BY WorkerFacts, BulkAssumption DEF TypeOK
<1>4. Cardinality(T) <= CanarySize + faults'
  BY <1>2, <1>3 DEF Counted
<1>5. \A i \in (written'[j] \ D) \cup InHand(j)' : Passed(j, D, i)'
  BY DEF Counted, Passed
<1> QED  BY <1>2, <1>4, <1>5 DEF Counted

\* What is counted stays so when nothing new is written, settled or taken in hand.
LEMMA CountedKeep ==
  ASSUME TypeOK, TypeOK', NEW j \in Job, NEW C \in SUBSET Item, Counted(j, C),
         job'[j].processed = job[j].processed, faults' >= faults,
         written'[j] \subseteq written[j] \cup InHand(j),
         InHand(j)' \subseteq InHand(j), Settled(j)' \subseteq C \cup Marked(j)',
         \A k \in Item : item[j][k].status = "excluded" => item'[j][k].status = "excluded"
  PROVE  Counted(j, C)'
<1>1. Cardinality(C) \in Nat  BY FS_CardinalityType DEF Counted
<1>2. faults \in Nat /\ faults' \in Nat /\ job[j].processed \in Nat  BY WorkerFacts DEF TypeOK
<1>3. Cardinality(C) <= job'[j].processed + faults'  BY <1>1, <1>2 DEF Counted
<1> QED  BY <1>3, CountedMove

\* What preparations, the sweep and calls leave of a job: its count, and every outcome
\* or none.  A call that lets it run again after the canary is noted.
Spared(j) ==
  /\ job'[j].processed = job[j].processed /\ job'[j].canaryDone = job[j].canaryDone
  /\ Settled(j)' \subseteq Settled(j)
  /\ \A k \in Item : item[j][k].status \in {"excluded", "pending"} => item'[j][k].status = item[j][k].status
  /\ checked[j] => checked'[j]
  /\ job[j].canaryDone /\ job'[j].status = "running" /\ ~checked'[j] => job[j].status = "running"

LEMMA OperateSpares ==
  ASSUME TypeOK, Operate, NEW j \in Job
  PROVE  Spared(j)
<1> PICK o \in Operator : (\E k \in Job, a \in JobAction : ReadJob(o, k, a)) \/ Act(o) \/ CallFails(o)
  BY DEF Operate
<1>1. CASE UNCHANGED <<store, checked>>
  BY <1>1 DEF Spared, Settled, store
<1>2. CASE Act(o)
  <2> DEFINE a == call[o].action
  <2>1. call[o].job \in Job  BY DEF TypeOK, CallState
  <2>2. CASE j # call[o].job
    BY <1>2, <2>1, <2>2 DEF Act, SetStatus, TypeOK, Spared, Settled
  <2>3. CASE j = call[o].job
    <3>1. /\ job'[j].processed = job[j].processed /\ job'[j].canaryDone = job[j].canaryDone
          /\ job'[j].status # job[j].status => a \in DOMAIN NextStatus /\ job'[j].status = NextStatus[a]
      <4>1. CASE a \in DOMAIN NextStatus
        <5>1. job' = [job EXCEPT ![j].status = NextStatus[a]]  BY <1>2, <2>3, <4>1 DEF Act, SetStatus
        <5> QED  BY <4>1, <5>1 DEF TypeOK, Row
      <4>2. CASE a = "retry_failed"  BY <1>2, <4>2 DEF Act, NextStatus
      <4>3. CASE a \notin DOMAIN NextStatus /\ a # "retry_failed"
        <5>1. job' = [job EXCEPT ![j].archived = (a = "archive")]  BY <1>2, <2>3, <4>3 DEF Act
        <5> QED  BY <5>1 DEF TypeOK, Row
      <4> QED  BY <4>1, <4>2, <4>3
    <3>2. item'[j] \in {item[j], Requeued(item[j])}  BY <1>2, <2>3 DEF Act, TypeOK
    <3>3. \A k \in Item : item'[j][k].status = item[j][k].status
            \/ (item[j][k].status = "failed" /\ item'[j][k].status = "pending")
      BY <3>2 DEF Requeued
    <3>4. checked' = IF a \in {"start", "resume"} /\ job[j].canaryDone
                     THEN [checked EXCEPT ![j] = TRUE] ELSE checked
      BY <1>2, <2>3 DEF Act
    <3>5. checked[j] => checked'[j]  BY <3>4 DEF TypeOK
    <3>6. job[j].canaryDone /\ job'[j].status = "running" /\ ~checked'[j] => job[j].status = "running"
      <4> SUFFICES ASSUME job[j].canaryDone, job'[j].status = "running", job[j].status # "running"
                   PROVE  checked'[j]
        OBVIOUS
      <4>1. a \in {"start", "resume"}  BY <3>1 DEF NextStatus
      <4> QED  BY <3>4, <4>1 DEF TypeOK
    <3> QED  BY <3>1, <3>3, <3>5, <3>6 DEF Spared, Settled
  <2> QED  BY <2>2, <2>3
<1>3. CASE \E k \in Job, a \in JobAction : ReadJob(o, k, a)
  BY <1>1, <1>3 DEF ReadJob, history
<1>4. CASE CallFails(o)  BY <1>1, <1>4 DEF CallFails, history
<1> QED  BY <1>2, <1>3, <1>4

\* A started job is prepared, so no preparation touches it any more.
LEMMA PrepareSpares ==
  ASSUME IInv, Prepare \/ Sweep, NEW j \in Job, j \in started
  PROVE  Spared(j)
<1>1. TypeOK /\ ~prep[j] /\ job[j].status # "none"
  BY DEF IInv, ApprovalInv, Prepared, NoRowInv
<1>2. ASSUME job'[j] = job[j], item'[j] = item[j], checked' = checked PROVE Spared(j)
  BY <1>2 DEF Spared, Settled
<1>3. CASE Sweep
  <2>1. CASE UNCHANGED job  BY <1>2, <1>3, <2>1 DEF Sweep, history
  <2>2. CASE job' = [k \in Job |-> IF job[k].status = "preparing"
                                   THEN [job[k] EXCEPT !.status = "failed"] ELSE job[k]]
    BY <1>1, <1>3, <2>2 DEF Sweep, history, Spared, Settled, TypeOK, Row
  <2> QED  BY <1>3, <2>1, <2>2 DEF Sweep
<1>4. CASE Prepare
  <2>1. PICK k \in Job : Create(k) \/ PrepareWaits(k) \/ Fill(k) \/ PrepareFails(k)
    BY <1>4 DEF Prepare
  <2>2. k # j  BY <1>1, <2>1 DEF Create, PrepareWaits, Fill, PrepareFails
  <2>3. job'[j] = job[j] /\ item'[j] = item[j] /\ checked' = checked
    BY <1>1, <2>1, <2>2 DEF Create, PrepareWaits, Fill, PrepareFails, SetStatus, history, TypeOK
  <2> QED  BY <1>2, <2>3
<1> QED  BY <1>3, <1>4

LEMMA SideCounts ==
  ASSUME IInv, IInv', CountInv, Prepare \/ Sweep \/ Operate
  PROVE  CountInv'
<1> USE WorkerFacts
<1>1. TypeOK /\ TypeOK' /\ UNCHANGED <<worker, written, faults>>
  BY DEF IInv, Prepare, Create, PrepareWaits, Fill, PrepareFails, Sweep, Operate, ReadJob, Act, CallFails,
         memory
<1>2. \A j \in Job : j \in started \/ Operate => Spared(j)
  BY <1>1, OperateSpares, PrepareSpares
<1>3. FreshInv'
  <2> SUFFICES ASSUME NEW j \in Job, j \notin started' PROVE Settled(j)' = {}
    BY DEF FreshInv
  <2>1. j \notin started
    BY DEF Prepare, Create, PrepareWaits, Fill, PrepareFails, Sweep, Operate, ReadJob, Act, CallFails, history
  <2>2. Settled(j) = {}  BY <2>1 DEF CountInv, FreshInv
  <2>3. CASE Operate  BY <1>2, <2>2, <2>3 DEF Spared
  <2>4. CASE item'[j] = item[j]  BY <2>2, <2>4 DEF Settled
  <2>5. CASE Fill(j)
    <3> PICK write \in SUBSET Item :
          item' = [item EXCEPT ![j] = [i \in Item |->
             [status |-> IF i \in write THEN "pending" ELSE "excluded", attempts |-> 0]]]
      BY <2>5 DEF Fill
    <3>1. \A i \in Item : item'[j][i].status \in {"pending", "excluded"}  BY <1>1 DEF TypeOK
    <3> QED  BY <3>1 DEF Settled
  <2>6. CASE Prepare
    BY <1>1, <2>4, <2>5, <2>6 DEF Prepare, Create, PrepareWaits, Fill, PrepareFails, TypeOK
  <2> QED  BY <2>3, <2>4, <2>6 DEF Sweep
<1>4. RowInv'
  <2>1. CASE worker.pc = "idle"  BY <1>1, <2>1 DEF RowInv
  <2>2. CASE worker.pc # "idle"
    <3>1. worker.job \in started  BY <2>2 DEF IInv, WorkerInv
    <3>2. Spared(worker.job)  BY <1>1, <1>2, <3>1
    <3> QED  BY <1>1, <3>2 DEF CountInv, RowInv, Spared
  <2> QED  BY <2>1, <2>2
<1>5. CanaryInv'
  <2> SUFFICES ASSUME NEW j \in Job, ~checked'[j]
               PROVE  /\ job'[j].canaryDone => job'[j].status # "running"
                      /\ \E C \in SUBSET Item : Counted(j, C)'
    BY DEF CanaryInv
  <2>1. CASE j \in started \/ Operate
    <3>1. Spared(j) /\ ~checked[j]  BY <1>2, <2>1 DEF Spared
    <3>2. PICK C \in SUBSET Item : Counted(j, C)  BY <3>1 DEF CountInv, CanaryInv
    <3>3. Settled(j) \subseteq C \cup Marked(j)  BY <3>2 DEF Counted
    <3>4. Settled(j)' \subseteq C \cup Marked(j)' /\ InHand(j)' = InHand(j)
      BY <1>1, <3>1, <3>3 DEF Spared, Marked, InHand
    <3>5. Counted(j, C)'  BY <1>1, <3>1, <3>2, <3>4, CountedKeep DEF Spared
    <3>6. job'[j].canaryDone => job'[j].status # "running"
      BY <3>1 DEF Spared, CountInv, CanaryInv
    <3> QED  BY <3>5, <3>6
  <2>2. CASE j \notin started /\ ~Operate
    <3>1. j \notin started'
      BY <2>2 DEF Prepare, Create, PrepareWaits, Fill, PrepareFails, Sweep, history
    <3>2. Counted(j, {})'  BY <1>3, <3>1, FreshCountedNext DEF IInv, FreshInv
    <3>3. job'[j].status # "running"  BY <3>1 DEF IInv, ProgressInv
    <3> QED  BY <3>2, <3>3
  <2> QED  BY <2>1, <2>2
<1> QED  BY <1>3, <1>4, <1>5 DEF CountInv

\* What the worker holds and the item it takes are the first that are not counted.
LEMMA SendCounts ==
  ASSUME IInv, TypeOK', NEW j \in Job, j = worker.job, ~checked[j], RowInv, NEW C \in SUBSET Item, Counted(j, C),
         SendNext
  PROVE  Counted(j, C)'
<1> USE WorkerFacts
<1>1. PICK i \in Item : First(i, Pending(j)) /\ worker' = [worker EXCEPT !.pc = "writing", !.item = i]
  BY DEF SendNext
<1>2. /\ worker.pc = "ticked" /\ worker'.pc = "writing" /\ worker'.job = j /\ worker'.item = i
      /\ UNCHANGED <<job, item, written, faults>>
  BY <1>1 DEF SendNext, store, IInv, TypeOK, TickState
<1>3. InHand(j) = {} /\ InHand(j)' = {i} /\ Marked(j) = {}  BY <1>2 DEF InHand, Marked
<1>4. job[j].processed + 1 <= CanarySize
  BY <1>2, BulkAssumption DEF SendNext, CanaryReached, RowInv, IInv
<1>5. Passed(j, C, i)
  <2> SUFFICES ASSUME NEW k \in Item, k < i, k \notin C PROVE item[j][k].status = "excluded"
    BY DEF Passed
  <2>1. item[j][k].status # "pending"
    BY <1>1, BulkAssumption DEF First, Pending
  <2>2. k \notin Settled(j)  BY <1>3 DEF Counted
  <2> QED  BY <2>1, <2>2 DEF Settled, IInv, TypeOK, ItemRow, ItemStatus
<1>6. C \cup written[j] \cup {i} \subseteq (C \cup written[j] \cup InHand(j)) \/ C \cup written[j] \subseteq C \cup {i}
  <2> SUFFICES ASSUME i \notin C, NEW x \in written[j], x \notin C PROVE x = i
    OBVIOUS
  <2>1. x \in Item /\ item[j][x].status # "excluded"
    BY DEF IInv, WrittenInv, Writable
  <2>2. item[j][i].status = "pending"  BY <1>1 DEF First, Pending
  <2>3. ~(i < x)  BY <2>2 DEF Counted, Passed
  <2>4. ~(x < i)  BY <1>5, <2>1 DEF Passed
  <2> QED  BY <2>1, <2>3, <2>4, BulkAssumption
<1>7. Cardinality(C \cup written[j] \cup {i}) <= CanarySize + faults
  <2>1. CASE C \cup written[j] \cup {i} \subseteq C \cup written[j] \cup InHand(j)
    <3>1. C \cup written[j] \cup {i} = C \cup written[j] \cup InHand(j)  BY <1>3, <2>1
    <3> QED  BY <3>1 DEF Counted
  <2>2. CASE C \cup written[j] \subseteq C \cup {i}
    <3>1. C \cup written[j] \cup {i} = C \cup {i}  BY <2>2
    <3>2. Cardinality(C) \in Nat /\ Cardinality(C \cup {i}) \in Nat /\ Cardinality(C \cup {i}) <= Cardinality(C) + 1
      BY CardFacts DEF Counted
    <3>3. Cardinality(C) <= job[j].processed + faults /\ job[j].processed \in Nat /\ faults \in Nat /\ CanarySize \in Nat
      BY BulkAssumption DEF Counted, IInv
    <3> QED  BY <1>4, <3>1, <3>2, <3>3
  <2> QED  BY <1>6, <2>1, <2>2
<1>8. \A x \in (written[j] \ C) \cup {i} : Passed(j, C, x)  BY <1>5 DEF Counted
<1>9. Passed(j, C, i)' /\ \A x \in written[j] \ C : Passed(j, C, x)'
  BY <1>2, <1>8 DEF Passed
<1>10. Settled(j)' = Settled(j)  BY <1>2 DEF Settled
<1> QED  BY <1>2, <1>3, <1>7, <1>9, <1>10 DEF Counted

\* A step of the worker changes its own job, counts in one place and writes in one.
LEMMA WorkRows ==
  ASSUME TypeOK, Work \/ QueryFails \/ Restart, NEW j \in Job
  PROVE  /\ j # worker.job => job'[j] = job[j] /\ item'[j] = item[j] /\ written'[j] = written[j]
         /\ RecordProgress \/ job'[j].processed = job[j].processed
         /\ RecordItem \/ item' = item
         /\ worker.pc = "writing" \/ written' = written
         /\ faults' >= faults
<1> USE WorkerFacts
<1>1. faults' >= faults
  <2>1. faults' = faults \/ faults' = faults + 1
    BY DEF Work, Record, Tick, HoldBack, CanaryPause, SendNext, NothingLeft, Finish, Answer, RecordWait,
       RecordItem, RecordLoginPause, RecordProgress, RecordStreakPause, QueryFails, Restart
  <2> QED  BY <2>1
<1>2. RecordItem \/ item' = item
  BY DEF Work, Record, Tick, HoldBack, CanaryPause, SendNext, NothingLeft, Finish, Answer, RecordWait,
     RecordLoginPause, RecordProgress, RecordStreakPause, QueryFails, Restart, store
<1>3. \/ written' = written
      \/ worker.pc = "writing" /\ written' = [written EXCEPT ![worker.job] = @ \cup {worker.item}]
  BY DEF Work, Record, Tick, HoldBack, CanaryPause, SendNext, NothingLeft, Finish, Answer, RecordWait,
     RecordItem, RecordLoginPause, RecordProgress, RecordStreakPause, QueryFails, Restart
<1>4. CASE job' = job \/ \E st \in Status : SetStatus(worker.job, st)
  <2>1. (j # worker.job => job'[j] = job[j]) /\ job'[j].processed = job[j].processed
    <3>1. ASSUME NEW st \in Status, SetStatus(worker.job, st)
          PROVE  (j # worker.job => job'[j] = job[j]) /\ job'[j].processed = job[j].processed
      BY <3>1 DEF SetStatus, TypeOK, Row
    <3> QED  BY <1>4, <3>1
  <2>2. j # worker.job => item'[j] = item[j] /\ written'[j] = written[j]
    BY <1>2, <1>3 DEF RecordItem, TypeOK
  <2> QED  BY <1>1, <1>2, <1>3, <2>1, <2>2
<1>5. CASE CanaryPause \/ RecordProgress
  <2>1. (j # worker.job => job'[j] = job[j]) /\ (RecordProgress \/ job'[j].processed = job[j].processed)
    BY <1>5 DEF CanaryPause, RecordProgress, TypeOK, Row
  <2> QED  BY <1>1, <1>5, <2>1 DEF CanaryPause, RecordProgress
<1>6. {"running", "paused", "done"} \subseteq Status  BY DEF Status
<1> QED
  BY <1>4, <1>5, <1>6
  DEF Work, Record, Tick, HoldBack, SendNext, NothingLeft, Finish, Answer, RecordWait, RecordItem,
      RecordLoginPause, RecordStreakPause, QueryFails, Restart, store

\* What the other jobs are, and what a step that ends or moves the tick leaves of its own.
LEMMA WorkCounts ==
  ASSUME IInv, TypeOK', CountInv, Work \/ QueryFails \/ Restart, NEW j \in Job, ~checked[j]
  PROVE  \E C \in SUBSET Item : Counted(j, C)'
<1> USE WorkerFacts
<1>1. PICK C \in SUBSET Item : Counted(j, C)  BY DEF CountInv, CanaryInv
<1>2. TypeOK /\ RowInv /\ faults \in Nat /\ faults' \in Nat
  BY DEF IInv, CountInv, TypeOK
<1>3. Settled(j) \subseteq C \cup Marked(j)  BY <1>1 DEF Counted
<1>4. ASSUME job'[j].processed = job[j].processed, item'[j] = item[j], faults' >= faults,
             written'[j] \subseteq written[j] \cup InHand(j),
             InHand(j)' \subseteq InHand(j), Settled(j) \subseteq C \cup Marked(j)'
      PROVE  Counted(j, C)'
  <2>1. Settled(j)' = Settled(j)  BY <1>4 DEF Settled
  <2> QED  BY <1>1, <1>2, <1>4, <2>1, CountedKeep
<1>5. ASSUME worker'.pc \notin {"writing", "result", "marked"} PROVE InHand(j)' = {} /\ Marked(j)' = {}
  BY <1>5 DEF InHand, Marked
<1>6. CASE SendNext /\ worker.job = j
  BY <1>1, <1>2, <1>6, SendCounts
\* The tick is not about this job, or holds no item: nothing of it changes.
<1>7. CASE worker.pc \notin {"writing", "result", "marked"} /\ ~(SendNext /\ worker.job = j)
  <2>1. Marked(j) = {} /\ InHand(j) = {}  BY <1>7 DEF InHand, Marked
  <2>2. InHand(j)' = {} /\ Marked(j)' = {}
    <3>1. CASE SendNext  BY <1>2, <1>7, <3>1 DEF SendNext, InHand, Marked, TypeOK, TickState
    <3>2. CASE ~SendNext
      <4>1. worker'.pc \notin {"writing", "result", "marked"}
        BY <1>2, <1>7, <3>2 DEF Work, Record, Tick, HoldBack, CanaryPause, NothingLeft, Finish, Answer, RecordWait,
           RecordItem, RecordLoginPause, RecordProgress, RecordStreakPause, QueryFails, Restart, TypeOK, TickState
      <4> QED  BY <1>5, <4>1
    <3> QED  BY <3>1, <3>2
  <2>3. item'[j] = item[j] /\ written'[j] = written[j] /\ faults' >= faults /\ job'[j].processed = job[j].processed
    BY <1>2, <1>7, WorkRows DEF RecordItem, RecordProgress
  <2> QED  BY <1>3, <1>4, <2>1, <2>2, <2>3
<1>8. CASE worker.pc \in {"writing", "result", "marked"} /\ worker.job # j
  <2>1. Marked(j) = {} /\ InHand(j) = {}  BY <1>8 DEF InHand, Marked
  <2>2. InHand(j)' = {} /\ Marked(j)' = {}
    BY <1>2, <1>8 DEF InHand, Marked, Work, Record, Tick, HoldBack, CanaryPause, SendNext, NothingLeft, Finish,
       Answer, RecordWait, RecordItem, RecordLoginPause, RecordProgress, RecordStreakPause, QueryFails, Restart,
       TypeOK, TickState
  <2>3. item'[j] = item[j] /\ written'[j] = written[j] /\ faults' >= faults /\ job'[j] = job[j]
    BY <1>2, <1>8, WorkRows
  <2> QED  BY <1>3, <1>4, <2>1, <2>2, <2>3
\* An item of this job is in hand.
<1>9. CASE worker.pc \in {"writing", "result", "marked"} /\ worker.job = j
  <2>1. PICK i \in Item : i = worker.item  BY <1>2
  <2>2. InHand(j) = {i}  BY <1>9, <2>1 DEF InHand
  <2>3. worker.pc # "marked" => Marked(j) = {}  BY DEF Marked
  <2>4. CASE QueryFails \/ Restart \/ RecordWait \/ RecordLoginPause
    <3>1. InHand(j)' = {} /\ Marked(j)' = {}
      BY <1>2, <1>5, <2>4 DEF QueryFails, Restart, RecordWait, RecordLoginPause, LoseAnswer, Unmarked
    <3>2. item'[j] = item[j] /\ job'[j].processed = job[j].processed
      <4>1. ~RecordItem /\ ~RecordProgress
        BY <1>2, <2>4 DEF QueryFails, Restart, RecordWait, RecordLoginPause, RecordItem, RecordProgress, store,
           LoseAnswer, Unmarked, TypeOK, TickState
      <4> QED  BY <1>2, <2>4, <4>1, WorkRows
    <3>3. written'[j] \subseteq written[j] \cup InHand(j)
      <4>1. CASE Restart
        <5>1. \/ UNCHANGED written
              \/ written' = [written EXCEPT ![worker.job] = @ \cup {worker.item}]
          BY <4>1 DEF Restart, LoseAnswer, Unmarked
        <5> QED  BY <1>2, <1>9, <2>1, <2>2, <5>1 DEF TypeOK
      <4>2. CASE QueryFails \/ RecordWait \/ RecordLoginPause
        BY <4>2 DEF QueryFails, RecordWait, RecordLoginPause, LoseAnswer, Unmarked
      <4> QED  BY <2>4, <4>1, <4>2
    <3>4. CASE Settled(j) \subseteq C
      <4>1. faults' >= faults
        BY <1>2, <2>4 DEF QueryFails, Restart, RecordWait, RecordLoginPause, LoseAnswer, Unmarked
      <4> QED  BY <1>4, <3>1, <3>2, <3>3, <3>4, <4>1
    <3>5. CASE ~(Settled(j) \subseteq C)
      <4>1. worker.pc = "marked"  BY <1>3, <2>3, <3>5
      <4>2. ~RecordWait  BY <4>1 DEF RecordWait
      <4>3. ~RecordLoginPause
        <5>1. ASSUME worker.out = "pause" PROVE i \notin Settled(j)
          BY <1>2, <1>9, <2>1, <4>1, <5>1 DEF RowInv, Settled
        <5>2. worker.out # "pause"  BY <1>3, <2>2, <3>5, <5>1 DEF Marked
        <5> QED  BY <5>2 DEF RecordLoginPause
      <4>4. faults' = faults + 1  BY <2>4, <4>2, <4>3 DEF QueryFails, Restart
      \* The count of the item in hand is lost: the fault pays for it.
      <4>5. Cardinality(C \cup {i}) <= job'[j].processed + faults'
        <5>1. Cardinality(C) \in Nat /\ Cardinality(C \cup {i}) \in Nat /\ Cardinality(C \cup {i}) <= Cardinality(C) + 1
          BY <1>1, CardFacts DEF Counted
        <5>2. Cardinality(C) <= job[j].processed + faults /\ job[j].processed \in Nat  BY <1>1, <1>2 DEF Counted
        <5> QED  BY <1>2, <3>2, <4>4, <5>1, <5>2
      <4>6. Settled(j)' \subseteq C \cup {i}  BY <1>3, <2>2, <3>2 DEF Settled, Marked
      <4>7. C \cup {i} \in SUBSET Item  OBVIOUS
      <4>8. Counted(j, C \cup {i})'
        <5> DEFINE D == C \cup {i}
        <5>1. D \cup written'[j] \cup InHand(j)' \subseteq C \cup written[j] \cup InHand(j)
          BY <2>2, <3>1, <3>3
        <5>2. faults' >= faults /\ InHand(j)' \subseteq InHand(j) /\ C \subseteq D /\ Settled(j)' \subseteq D \cup Marked(j)'
          BY <1>2, <3>1, <4>4, <4>6
        <5>3. \A k \in Item : item[j][k].status = "excluded" => item'[j][k].status = "excluded"  BY <3>2
        <5>4. Cardinality(D) <= job'[j].processed + faults'  BY <4>5
        <5> HIDE DEF D
        <5> QED  BY <1>1, <1>2, <4>7, <5>1, <5>2, <5>3, <5>4, CountedMove DEF D
      <4> QED  BY <4>7, <4>8
    <3> QED  BY <3>4, <3>5
  <2>5. ASSUME NEW out \in Outcome, NEW applied \in BOOLEAN, Answer(out, applied) PROVE Counted(j, C)'
    <3>1. /\ worker.pc = "writing" /\ worker'.pc = "result" /\ worker'.job = j /\ worker'.item = i
          /\ UNCHANGED <<job, item, faults>>
      BY <1>2, <1>9, <2>1, <2>5 DEF Answer, TypeOK, TickState, store
    <3>2. written'[j] \subseteq written[j] \cup InHand(j)
      BY <1>2, <1>9, <2>1, <2>2, <2>5 DEF Answer, TypeOK
    <3>3. InHand(j)' = {i} /\ Marked(j)' = {}  BY <3>1 DEF InHand, Marked
    <3> QED  BY <1>2, <1>3, <1>4, <2>2, <2>3, <3>1, <3>2, <3>3
  <2>6. CASE RecordItem
    <3>1. /\ worker.pc = "result" /\ worker'.pc = "marked" /\ worker'.job = j /\ worker'.item = i
          /\ UNCHANGED <<job, written, faults>>
      BY <1>2, <1>9, <2>1, <2>6 DEF RecordItem, TypeOK, TickState
    <3>2. \A k \in Item : k # i => item'[j][k] = item[j][k]
      BY <1>2, <1>9, <2>1, <2>6 DEF RecordItem, TypeOK
    <3>3. item[j][i].status = "pending"  BY <1>2, <1>9, <2>1, <3>1 DEF RowInv
    <3>4. InHand(j)' = {i} /\ Marked(j)' = {i}  BY <3>1 DEF InHand, Marked
    <3>5. Settled(j)' \subseteq C \cup Marked(j)'
      BY <1>3, <2>3, <3>1, <3>2, <3>4 DEF Settled
    <3>6. \A k \in Item : item[j][k].status = "excluded" => item'[j][k].status = "excluded"
      BY <3>2, <3>3
    <3>7. Counted(j, C)'  BY <1>1, <1>2, <2>2, <3>1, <3>4, <3>5, <3>6, CountedKeep
    <3> QED  BY <3>7
  <2>7. CASE RecordProgress
    <3>1. /\ worker.pc = "marked" /\ worker.out # "pause" /\ UNCHANGED <<item, written, faults>>
          /\ worker'.pc \in {"idle", "counted"}
      BY <1>2, <2>7 DEF RecordProgress, TypeOK, TickState
    <3>2. InHand(j)' = {} /\ Marked(j)' = {}  BY <1>5, <3>1
    <3>3. job'[j].processed = IF worker.out = "retry" THEN job[j].processed ELSE job[j].processed + 1
      <4>1. worker.row.processed = job[j].processed /\ worker.row.processed < CanarySize
        BY <1>2, <1>9, <3>1 DEF RowInv
      <4>2. job'[j].processed = IF worker.out = "retry" THEN worker.row.processed
                                ELSE Saturate(worker.row.processed, CanarySize)
        BY <1>2, <1>9, <2>7 DEF RecordProgress, TypeOK, Row
      <4> QED  BY <4>1, <4>2 DEF Saturate
    <3>4. CASE worker.out = "retry"
      <4>1. i \notin Settled(j)  BY <1>2, <1>9, <2>1, <3>1, <3>4 DEF RowInv, Settled
      <4>2. Settled(j) \subseteq C  BY <1>3, <2>2, <4>1 DEF Marked
      <4>3. Counted(j, C)'  BY <1>2, <1>4, <3>1, <3>2, <3>3, <3>4, <4>2
      <4> QED  BY <4>3
    <3>5. CASE worker.out # "retry"
      <4> DEFINE D == C \cup {i}
      <4>1. Cardinality(D) <= job'[j].processed + faults'
        <5>1. Cardinality(C) \in Nat /\ Cardinality(D) \in Nat /\ Cardinality(D) <= Cardinality(C) + 1
          BY <1>1, CardFacts DEF Counted
        <5>2. Cardinality(C) <= job[j].processed + faults /\ job[j].processed \in Nat  BY <1>1, <1>2 DEF Counted
        <5> QED  BY <1>2, <3>1, <3>3, <3>5, <5>1, <5>2
      <4>2. D \cup written'[j] \cup InHand(j)' \subseteq C \cup written[j] \cup InHand(j)
        BY <2>2, <3>1, <3>2
      <4>3. /\ faults' >= faults /\ InHand(j)' \subseteq InHand(j) /\ C \subseteq D /\ D \in SUBSET Item
            /\ Settled(j)' \subseteq D \cup Marked(j)'
        BY <1>2, <1>3, <2>2, <3>1, <3>2 DEF Settled, Marked
      <4>4. \A k \in Item : item[j][k].status = "excluded" => item'[j][k].status = "excluded"  BY <3>1
      <4>5. Counted(j, D)'
        <5> HIDE DEF D
        <5> QED  BY <1>1, <1>2, <4>1, <4>2, <4>3, <4>4, CountedMove
      <4> QED  BY <4>3, <4>5
    <3> QED  BY <3>4, <3>5
  <2> QED
    BY <1>9, <2>4, <2>5, <2>6, <2>7
    DEF Work, Record, Tick, HoldBack, CanaryPause, SendNext, NothingLeft, Finish, RecordStreakPause
<1> QED  BY <1>6, <1>7, <1>8, <1>9

LEMMA WorkRowInv ==
  ASSUME IInv, TypeOK', CountInv, Work \/ QueryFails \/ Restart
  PROVE  RowInv'
<1> USE WorkerFacts
<1> DEFINE w == worker.job
<1>1. /\ TypeOK /\ RowInv /\ UNCHANGED checked
  BY DEF IInv, CountInv, Work, Record, Tick, HoldBack, CanaryPause, SendNext, NothingLeft, Finish, Answer,
     RecordWait, RecordItem, RecordLoginPause, RecordProgress, RecordStreakPause, QueryFails, Restart, history
<1>2. CASE worker'.pc = "idle"  BY <1>2 DEF RowInv
<1>3. CASE Tick
  <2>1. PICK j \in Job : First(j, Running) /\
          worker' = [Idle EXCEPT !.pc = "ticked", !.job = j,
            !.row = [canaryDone |-> job[j].canaryDone, processed |-> job[j].processed]]
    BY <1>3 DEF Tick
  <2>2. /\ worker'.pc = "ticked" /\ worker'.job = j
        /\ worker'.row = [canaryDone |-> job[j].canaryDone, processed |-> job[j].processed]
    BY <2>1 DEF Idle
  <2>3. job[j].status = "running" /\ UNCHANGED job  BY <1>3, <2>1 DEF First, Running, Tick, store
  <2> QED  BY <1>1, <2>2, <2>3 DEF CountInv, CanaryInv, RowInv
<1>4. CASE SendNext
  <2>1. PICK i \in Item : First(i, Pending(w)) /\ worker' = [worker EXCEPT !.pc = "writing", !.item = i]
    BY <1>4 DEF SendNext
  <2>2. /\ worker.pc = "ticked" /\ worker'.pc = "writing" /\ worker'.job = w /\ worker'.item = i
        /\ worker'.row = worker.row /\ UNCHANGED <<job, item>>
    BY <1>1, <1>4, <2>1 DEF SendNext, store, TypeOK, TickState
  <2>3. item[w][i].status = "pending"  BY <2>1 DEF First, Pending
  <2>4. ~checked[w] => worker.row.processed < CanarySize
    BY <1>1, <1>4, <2>2, BulkAssumption DEF SendNext, CanaryReached, RowInv
  <2> QED  BY <1>1, <2>2, <2>3, <2>4 DEF RowInv
<1>5. CASE NothingLeft
  BY <1>1, <1>5 DEF NothingLeft, RowInv, TypeOK, TickState, store
<1>6. ASSUME NEW out \in Outcome, NEW applied \in BOOLEAN, Answer(out, applied) PROVE RowInv'
  <2>1. /\ worker.pc = "writing" /\ worker'.pc = "result" /\ worker'.job = w /\ worker'.item = worker.item
        /\ worker'.row = worker.row /\ UNCHANGED <<job, item>>
    BY <1>1, <1>6 DEF Answer, store, TypeOK, TickState
  <2> QED  BY <1>1, <2>1 DEF RowInv
<1>7. CASE RecordItem
  <2>1. /\ worker.pc = "result" /\ worker'.pc = "marked" /\ worker'.job = w /\ worker'.item = worker.item
        /\ worker'.row = worker.row /\ worker'.out = worker.out /\ UNCHANGED job
    BY <1>1, <1>7 DEF RecordItem, TypeOK, TickState
  <2>2. item'[w][worker.item].status = Mark(worker.out, item[w][worker.item].status)
    BY <1>1, <1>7 DEF RecordItem, TypeOK
  <2>3. worker.out \in {"retry", "pause"} => item'[w][worker.item].status = "pending"
    BY <1>1, <2>1, <2>2 DEF RowInv, Mark
  <2> QED  BY <1>1, <2>1, <2>3 DEF RowInv
<1>8. CASE RecordProgress
  <2>1. /\ worker.pc = "marked" /\ worker'.pc \in {"idle", "counted"}
        /\ worker'.pc = "counted" => worker'.job = w
        /\ job'[w].canaryDone = job[w].canaryDone
    BY <1>1, <1>8 DEF RecordProgress, TypeOK, TickState, Row
  <2> QED  BY <1>1, <2>1 DEF RowInv
<1> QED
  BY <1>1, <1>2, <1>3, <1>4, <1>5, <1>6, <1>7, <1>8
  DEF Work, Record, HoldBack, CanaryPause, Finish, RecordWait, RecordLoginPause, RecordStreakPause,
      QueryFails, Restart

\* The canary pause is the only step of the worker that touches canaryDone.
LEMMA WorkPauses ==
  ASSUME TypeOK, RowInv, CanaryInv, Work \/ QueryFails \/ Restart,
         NEW j \in Job, ~checked[j], job'[j].canaryDone
  PROVE  job'[j].status # "running"
<1> USE WorkerFacts
<1>1. CASE CanaryPause  BY <1>1 DEF CanaryPause, TypeOK, Row, CanaryInv
<1>2. CASE job' = job  BY <1>2 DEF CanaryInv
<1>3. ASSUME worker.pc # "idle", NEW st \in Status, SetStatus(worker.job, st) PROVE job'[j].status # "running"
  BY <1>3 DEF SetStatus, TypeOK, Row, RowInv, CanaryInv
<1>4. CASE RecordProgress
  BY <1>4 DEF RecordProgress, TypeOK, Row, RowInv, CanaryInv
<1>5. {"running", "paused", "done"} \subseteq Status  BY DEF Status
<1> QED
  BY <1>1, <1>2, <1>3, <1>4, <1>5
  DEF Work, Record, Tick, HoldBack, SendNext, NothingLeft, Finish, Answer, RecordWait, RecordItem,
      RecordLoginPause, RecordStreakPause, QueryFails, Restart, store

LEMMA NextCounts ==
  ASSUME IInv, IInv', CountInv, [Next]_vars
  PROVE  CountInv'
<1> USE WorkerFacts
<1>1. TypeOK /\ TypeOK'  BY DEF IInv
<1>2. CASE Work \/ QueryFails \/ Restart
  <2>1. UNCHANGED <<checked, started>>
    BY <1>2 DEF Work, Record, Tick, HoldBack, CanaryPause, SendNext, NothingLeft, Finish, Answer, RecordWait,
       RecordItem, RecordLoginPause, RecordProgress, RecordStreakPause, QueryFails, Restart, history
  <2>2. FreshInv'
    <3> SUFFICES ASSUME NEW j \in Job, j \notin started PROVE item'[j] = item[j]
      BY <2>1 DEF CountInv, FreshInv, Settled
    <3>1. worker.pc # "idle" => worker.job # j  BY DEF IInv, WorkerInv
    <3> QED  BY <1>1, <1>2, <3>1, WorkRows DEF RecordItem
  <2>3. RowInv'  BY <1>1, <1>2, WorkRowInv
  <2>4. CanaryInv'
    <3> SUFFICES ASSUME NEW j \in Job, ~checked[j]
                 PROVE  /\ job'[j].canaryDone => job'[j].status # "running"
                        /\ \E C \in SUBSET Item : Counted(j, C)'
      BY <2>1 DEF CanaryInv
    <3>1. job'[j].canaryDone => job'[j].status # "running"  BY <1>1, <1>2, WorkPauses DEF CountInv
    <3>2. \E C \in SUBSET Item : Counted(j, C)'  BY <1>1, <1>2, WorkCounts
    <3> QED  BY <3>1, <3>2
  <2> QED  BY <2>2, <2>3, <2>4 DEF CountInv
<1>3. CASE UNCHANGED vars
  <2>1. UNCHANGED <<job, item, worker, written, faults, started, checked>>
    BY <1>3 DEF vars, store, memory, history
  <2>2. \A j \in Job : Settled(j)' = Settled(j) /\ InHand(j)' = InHand(j) /\ Marked(j)' = Marked(j)
    BY <2>1 DEF Settled, InHand, Marked
  <2>3. \A j \in Job, C \in SUBSET Item : Counted(j, C) => Counted(j, C)'
    BY <2>1, <2>2 DEF Counted, Passed
  <2> QED  BY <2>1, <2>2, <2>3 DEF CountInv, FreshInv, RowInv, CanaryInv
<1> QED  BY <1>2, <1>3, SideCounts DEF Next

LEMMA InitCounts == Init => CountInv
<1> SUFFICES ASSUME Init PROVE CountInv
  OBVIOUS
<1>1. IInv  BY InitInv
<1>2. FreshInv  BY DEF Init, FreshInv, Settled
<1>3. RowInv  BY DEF Init, Idle, RowInv
<1>4. ASSUME NEW j \in Job PROVE Counted(j, {}) /\ ~job[j].canaryDone
  <2>1. j \notin started /\ ~job[j].canaryDone  BY DEF Init, NoRow
  <2> QED  BY <1>1, <1>2, <2>1, FreshCounted DEF IInv, FreshInv
<1>5. CanaryInv  BY <1>4 DEF CanaryInv
<1> QED  BY <1>2, <1>3, <1>5 DEF CountInv

\* Until a person has let a job go on after its canary pause, no more than CanarySize
\* records are written, and one more for each restart or failed query (BulkWorker.tick,
\* record), whatever is retried, re-queued or answered with an error, for any number of
\* jobs, items and operators and any canary.
THEOREM CanaryIsSmall == Spec => []CanaryHolds
<1>1. IInv /\ CountInv => CanaryHolds
  <2> SUFFICES ASSUME IInv, CountInv, NEW j \in Job, ~checked[j]
               PROVE  ~(Cardinality(written[j]) > CanarySize + faults)
    BY DEF CanaryHolds
  <2>1. PICK C \in SUBSET Item : Counted(j, C)  BY DEF CountInv, CanaryInv
  <2> DEFINE S == C \cup written[j] \cup InHand(j)
  <2>2. IsFiniteSet(S) /\ written[j] \in SUBSET S  BY <2>1, CountedFinite
  <2>3. /\ Cardinality(written[j]) <= Cardinality(S) /\ Cardinality(written[j]) \in Nat
        /\ Cardinality(S) \in Nat
    BY <2>2, CardFacts
  <2>4. Cardinality(S) <= CanarySize + faults  BY <2>1 DEF Counted
  <2> HIDE DEF S
  <2> QED  BY <2>3, <2>4, WorkerFacts, BulkAssumption DEF IInv
<1>2. IInv /\ IInv' /\ CountInv /\ [Next]_vars => CountInv'  BY NextCounts
<1> QED  BY <1>1, <1>2, InitCounts, Invariance, PTL DEF Spec
-----------------------------------------------------------------------------
(* How far a stop holds.                                                   *)

\* The job is not running, and no tick has it in hand.
Rests(j) == job[j].status # "running" /\ (worker.pc # "idle" => worker.job # j)
\* A person starts or resumes the job.
LetGo(j) ==
  \E o \in Operator : call[o].job = j /\ call[o].action \in {"start", "resume"} /\ Act(o)

\* Nothing of a job at rest is written, and it rests until a person lets it go on.
RestHolds ==
  [][\A j \in Job : Rests(j) => written'[j] = written[j] /\ (Rests(j)' \/ LetGo(j))]_vars

\* A stop that is made when no tick has the job in hand is final: nothing is written, by
\* no tick, preparation, sweep, restart or other action, until a person starts or
\* resumes the job.  What undoes a stop is the tick that was under way (record).
THEOREM StopBetweenTicksHolds == Spec => RestHolds
<1> DEFINE Quiet(j) == Rests(j) => written'[j] = written[j] /\ (Rests(j)' \/ LetGo(j))
           Step == \A j \in Job : Quiet(j)
<1>1. ASSUME TypeOK, Next, NEW j \in Job, Rests(j)
      PROVE  written'[j] = written[j] /\ (Rests(j)' \/ LetGo(j))
  <2>0. /\ job \in [Job -> Row] /\ written \in [Job -> SUBSET Item] /\ worker.job \in Job
        /\ Idle.pc = "idle"
    BY <1>1, WorkerFacts DEF TypeOK
  <2>1. ASSUME job'[j].status # "running", worker' = worker \/ worker'.pc = "idle"
        PROVE  Rests(j)'
    BY <1>1, <2>1 DEF Rests
  <2>2. CASE Prepare \/ Sweep
    <3>1. written' = written /\ worker' = worker
      BY <2>2 DEF Prepare, Create, PrepareWaits, Fill, PrepareFails, Sweep, memory
    <3>2. ASSUME NEW k \in Job, NEW r, r.status # "running", job' = [job EXCEPT ![k] = r]
          PROVE  job'[j].status # "running"
      BY <1>1, <2>0, <3>2 DEF Rests
    <3>3. ASSUME NEW k \in Job, NEW x \in {"preparing", "failed"}, SetStatus(k, x)
          PROVE  job'[j].status # "running"
      BY <1>1, <2>0, <3>3 DEF Rests, SetStatus, Row
    <3>4. ASSUME Sweep PROVE job'[j].status # "running"
      BY <1>1, <2>0, <3>4 DEF Rests, Sweep, Row
    <3>5. ASSUME NEW k \in Job, Create(k) PROVE job'[j].status # "running"
      BY <3>2, <3>5 DEF Create, NoRow
    <3>6. ASSUME NEW k \in Job, Fill(k) PROVE job'[j].status # "running"
      BY <3>2, <3>6 DEF Fill, NoRow
    <3>7. ASSUME NEW k \in Job, PrepareWaits(k) \/ PrepareFails(k) PROVE job'[j].status # "running"
      BY <3>3, <3>7 DEF PrepareWaits, PrepareFails
    <3>8. job'[j].status # "running"
      BY <2>2, <3>4, <3>5, <3>6, <3>7 DEF Prepare
    <3> QED BY <2>1, <3>1, <3>8
  <2>3. CASE Operate
    <3>1. written' = written /\ worker' = worker
      BY <2>3 DEF Operate, ReadJob, Act, CallFails
    <3>2. CASE job' = job
      BY <1>1, <2>1, <3>1, <3>2 DEF Rests
    <3>3. ASSUME NEW o \in Operator, Act(o) PROVE Rests(j)' \/ LetGo(j)
      <4>0. call[o].job \in Job
        BY <1>1 DEF TypeOK, CallState
      <4>1. CASE call[o].job # j
        BY <1>1, <2>0, <2>1, <3>1, <3>3, <4>0, <4>1 DEF Rests, Act, SetStatus
      <4>2. CASE call[o].job = j /\ call[o].action \in {"start", "resume"}
        BY <3>3, <4>2 DEF LetGo
      <4>3. CASE call[o].job = j /\ call[o].action \notin {"start", "resume"}
        <5>1. job'[j].status # "running"
          BY <1>1, <2>0, <3>3, <4>3 DEF Rests, Act, SetStatus, NextStatus, Row
        <5> QED BY <2>1, <3>1, <5>1
      <4> QED BY <4>1, <4>2, <4>3
    <3> QED BY <2>3, <3>1, <3>2, <3>3 DEF Operate, ReadJob, CallFails, store
  <2>4. CASE Tick
    <3>1. PICK k \in Job :
            /\ job[k].status = "running"
            /\ worker' = [Idle EXCEPT !.pc = "ticked", !.job = k,
                 !.row = [canaryDone |-> job[k].canaryDone, processed |-> job[k].processed]]
      BY <2>4 DEF Tick, First, Running
    <3>2. worker'.job = k /\ UNCHANGED <<job, written>>
      BY <2>4, <3>1 DEF Tick, Idle, store
    <3> QED BY <1>1, <3>1, <3>2 DEF Rests
  <2>5. CASE worker.pc # "idle" /\ (Work \/ QueryFails)
    <3>1. worker.job # j
      BY <1>1, <2>5 DEF Rests
    <3>2. worker'.pc # "idle" => worker'.job = worker.job
      <4>1. worker \in TickState
        BY <1>1 DEF TypeOK
      <4>2. \/ worker' = Idle
            \/ \E x : \/ worker' = [worker EXCEPT !.pc = x]
                      \/ \E y : worker' = [worker EXCEPT !.pc = x, !.item = y]
                      \/ \E y : worker' = [worker EXCEPT !.pc = x, !.out = y]
        BY <2>5
        DEF Work, Record, Tick, HoldBack, CanaryPause, SendNext, NothingLeft, Finish, Answer,
            RecordWait, RecordItem, RecordLoginPause, RecordProgress, RecordStreakPause, QueryFails
      <4> QED BY <2>0, <4>1, <4>2 DEF TickState
    <3>3. job'[j] = job[j] /\ written'[j] = written[j]
      BY <2>0, <2>5, <3>1
      DEF Work, Record, Tick, HoldBack, CanaryPause, SendNext, NothingLeft, Finish, Answer, SetStatus,
          RecordWait, RecordItem, RecordLoginPause, RecordProgress, RecordStreakPause, QueryFails, store
    <3> QED BY <1>1, <3>1, <3>2, <3>3 DEF Rests
  <2>6. CASE Restart
    BY <1>1, <2>0, <2>1, <2>6 DEF Restart, Rests, store
  <2>7. Work /\ ~Tick => worker.pc # "idle"
    BY DEF Work, Record, HoldBack, CanaryPause, SendNext, NothingLeft, Finish, Answer,
           RecordWait, RecordItem, RecordLoginPause, RecordProgress, RecordStreakPause
  <2>8. QueryFails => worker.pc # "idle"
    BY DEF QueryFails
  <2> QED BY <1>1, <2>2, <2>3, <2>4, <2>5, <2>6, <2>7, <2>8 DEF Next
<1>2. TypeOK /\ [Next]_vars => [Step]_vars
  BY <1>1
<1> QED BY <1>2, TypeCorrect, PTL DEF RestHolds, Spec

\* No person pauses or cancels a job while a tick has it in hand.
StoppedBetweenTicks ==
  \A j \in Job : job[j].status \in {"paused", "cancelled"} => (worker.pc # "idle" => worker.job # j)

\* What jobAction tells the person is true of every stop between two ticks: only a
\* person's call takes the job out of 'paused' or 'cancelled' into 'running'.
THEOREM StopHoldsBetweenTicks == Spec /\ []StoppedBetweenTicks => StopHolds
<1> DEFINE Quiet == \A j \in Job : Rests(j) => written'[j] = written[j] /\ (Rests(j)' \/ LetGo(j))
           Stays == \A j \in Job : job[j].status \in {"paused", "cancelled"} /\ job'[j].status = "running" =>
                      \E o \in Operator : call[o].job = j /\ call'[o] # call[o]
<1>1. TypeOK /\ StoppedBetweenTicks /\ [Quiet]_vars => [Stays]_vars
  <2> SUFFICES ASSUME TypeOK, StoppedBetweenTicks, Quiet, NEW j \in Job,
                      job[j].status \in {"paused", "cancelled"}, job'[j].status = "running"
               PROVE  \E o \in Operator : call[o].job = j /\ call'[o] # call[o]
    OBVIOUS
  <2>1. Rests(j) /\ ~Rests(j)'
    BY DEF StoppedBetweenTicks, Rests
  <2>2. PICK o \in Operator : call[o].job = j /\ Act(o)
    BY <2>1 DEF LetGo
  <2>3. call' = [call EXCEPT ![o] = NoCall] /\ call[o].pc = "acting" /\ NoCall.pc = "idle"
    BY <2>2 DEF Act, NoCall
  <2>4. call'[o] = NoCall
    BY <2>3 DEF TypeOK
  <2> QED BY <2>2, <2>3, <2>4
<1>2. RestHolds <=> [][Quiet]_vars
  BY DEF RestHolds
<1>3. StopHolds <=> [][Stays]_vars
  BY DEF StopHolds
<1> QED BY <1>1, <1>2, <1>3, TypeCorrect, StopBetweenTicksHolds, PTL
=============================================================================
