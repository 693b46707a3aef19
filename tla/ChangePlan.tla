------------------------------ MODULE ChangePlan ------------------------------
(***************************************************************************)
(* Change plans: frozen lists of changes that people approve row by row    *)
(* and executePlan runs (src/src/change-plans), for plans of one kind.     *)
(*                                                                         *)
(* A row creates a record or updates one.  Executions and reviews work on  *)
(* the rows they read first and await between every two steps, so they     *)
(* interleave with each other, with newer plans and with people who change *)
(* Autotask directly.  A read by id may be answered with a copy that the   *)
(* mirror or the read cache keeps; the builder and findExisting read past  *)
(* both (noCache).  Autotask may apply a write whose answer is lost, and   *)
(* an execution may end anywhere (crash, failed query).                    *)
(***************************************************************************)
EXTENDS Naturals, FiniteSets

CONSTANTS
  Plan,       \* change_plan ids
  NoPlan,     \* no plan
  Row,        \* row numbers, the same in every plan
  Blocked,    \* rows that are shown but can not be approved
  Creates,    \* the rows with action 'create'; the others update a record
  Depends,    \* meta.dependsOn and meta.refs of each row
  Executor,   \* concurrent calls of autotask_change_plan_execute
  Reviewer,   \* concurrent calls of autotask_change_plan_review
  MaxEdits,   \* bound: changes that people make in Autotask
  MaxFaults   \* bound: failed calls, lost answers, crossed reads, answers from a copy,
              \* executions that die

ASSUME ChangePlanAssumption ==
  /\ NoPlan \notin Plan /\ Row # {}
  /\ Row \subseteq Nat /\ Creates \subseteq Row /\ Blocked \subseteq Row
  /\ Depends \in [Row -> SUBSET Row]
  /\ MaxEdits \in Nat /\ MaxFaults \in Nat

VARIABLES
  plan,       \* change_plan.status
  rows,       \* change_plan_row: status and the before image
  record,     \* Autotask: the value of each updated record
  copies,     \* the mirror and the read cache: older values of each record that may be left
  made,       \* Autotask: how often each record to create was created by plans
  exec,       \* executions
  review,     \* reviews
  wrote,      \* history: <<plan, row>> whose write was applied
  edits, faults

vars == <<plan, rows, record, copies, made, exec, review, wrote, edits, faults>>

PlanStatus == {"none", "open", "executing", "done", "superseded"}
RowStatus == {"pending", "approved", "excluded", "applied", "failed", "stale", "skipped"}
\* What a record holds: its old value, another one, or the one that is planned.
Value == {"old", "other", "new"}
PlanRow == [status : RowStatus, before : Value]
NoRow == [status |-> "skipped", before |-> "old"]

\* Created or found as planned, which is what rows that depend on it wait for.
IsIn(x) == x \in {"applied", "skipped"}

\* Rows in their plan's order.
First(r, S) == r \in S /\ \A q \in S : r <= q

\* in: the rows that statusNow has as applied or skipped.  todo: the rows left.  at: the row in hand, out its outcome.
\* stop: a 401 or 429 stops the run.  left: rows were left at the end.
\* moved: the record changed after what it was read as was read from Autotask (history).
Exec == [pc : {"idle", "begin", "next", "look", "write", "verify", "record", "end", "close"},
         plan : Plan \cup {NoPlan}, in : SUBSET Row, todo : SUBSET Row, at : Row,
         out : RowStatus, stop : BOOLEAN, left : BOOLEAN, moved : BOOLEAN]
Review == [pc : {"idle", "mark"}, plan : Plan \cup {NoPlan}, rows : SUBSET Row, as : {"approved", "excluded"}]

AnyRow == CHOOSE r \in Row : TRUE
NotRunning ==
  [pc |-> "idle", plan |-> NoPlan, in |-> {},
   todo |-> {}, at |-> AnyRow, out |-> "pending", stop |-> FALSE, left |-> FALSE, moved |-> FALSE]
NotReviewing == [pc |-> "idle", plan |-> NoPlan, rows |-> {}, as |-> "approved"]

Init ==
  /\ plan = [p \in Plan |-> "none"] /\ rows = [p \in Plan |-> [r \in Row |-> NoRow]]
  /\ record = [r \in Row |-> "old"] /\ copies = [r \in Row |-> {}] /\ made = [r \in Row |-> 0]
  /\ exec = [e \in Executor |-> NotRunning] /\ review = [o \in Reviewer |-> NotReviewing]
  /\ wrote = {} /\ edits = 0 /\ faults = 0

Statuses(p) == {rows[p][r].status : r \in Row}
-----------------------------------------------------------------------------
(* Building and reviewing.                                                 *)

\* A record that is already as planned gets no row.
Planned(r) == IF r \in Creates THEN made[r] = 0 ELSE record[r] # "new"

\* The builder reads Autotask; create() supersedes what is open and adds the plan.
Build(p) ==
  /\ plan[p] = "none"
  /\ \E r \in Row : Planned(r)
  /\ rows' = [rows EXCEPT ![p] =
       [r \in Row |-> IF Planned(r) THEN [status |-> "pending", before |-> record[r]] ELSE NoRow]]
  /\ plan' = [q \in Plan |-> IF q = p THEN "open"
                             ELSE IF plan[q] = "open" THEN "superseded" ELSE plan[q]]
  /\ UNCHANGED <<record, copies, made, exec, review, wrote, edits, faults>>

CanBeMarked(x) == x \in {"pending", "approved", "excluded", "failed"}

\* setApproval reads the plan and decides which rows it will change.
StartReview(o, p) ==
  /\ review[o].pc = "idle" /\ plan[p] = "open"
  /\ \E R \in SUBSET {r \in Row \ Blocked : CanBeMarked(rows[p][r].status)},
        as \in {"approved", "excluded"} :
       /\ R # {}
       /\ review' = [review EXCEPT ![o] = [pc |-> "mark", plan |-> p, rows |-> R, as |-> as]]
  /\ UNCHANGED <<plan, rows, record, copies, made, exec, wrote, edits, faults>>

\* One UPDATE per row, whatever the row has become.
Mark(o) ==
  LET v == review[o] IN
  /\ v.pc = "mark"
  /\ \E r \in Row :
       /\ First(r, v.rows)
       /\ rows' = [rows EXCEPT ![v.plan][r].status = v.as]
       /\ review' = [review EXCEPT ![o] =
            IF v.rows = {r} THEN NotReviewing ELSE [v EXCEPT !.rows = v.rows \ {r}]]
  /\ UNCHANGED <<plan, record, copies, made, exec, wrote, edits, faults>>
-----------------------------------------------------------------------------
(* Executing.                                                              *)

Goto(e, pc) == exec' = [exec EXCEPT ![e].pc = pc]
Got(e, out, stop) == exec' = [exec EXCEPT ![e].pc = "record", ![e].out = out, ![e].stop = stop]

\* The tool reads the plan; the caller, and rows held for a customer's notice, may narrow the rows.
Load(e, p) ==
  LET approved == {r \in Row : rows[p][r].status = "approved"}
      in == {r \in Row : IsIn(rows[p][r].status)} IN
  /\ exec[e].pc = "idle"
  /\ plan[p] \in {"open", "executing"}
  /\ \E todo \in SUBSET approved \ {{}} :
       exec' = [exec EXCEPT ![e] = [NotRunning EXCEPT !.pc = "begin", !.plan = p, !.todo = todo, !.in = in]]
  /\ UNCHANGED <<plan, rows, record, copies, made, review, wrote, edits, faults>>

Begin(e) ==
  /\ exec[e].pc = "begin"
  /\ plan' = [plan EXCEPT ![exec[e].plan] = "executing"]
  /\ Goto(e, "next")
  /\ UNCHANGED <<rows, record, copies, made, review, wrote, edits, faults>>

\* Mutant: rows run in their order alone.
InOrder(in, r) == TRUE
\* What a row depends on must be in.
Ready(in, r) == Depends[r] \subseteq in

Ended(x) == [NotRunning EXCEPT !.pc = "end", !.plan = x.plan]

\* The next row; one that is not ready is passed over and stays approved.
NextRow(e) ==
  LET x == exec[e] IN
  /\ x.pc = "next"
  /\ \/ x.todo = {} /\ exec' = [exec EXCEPT ![e] = Ended(x)]
     \/ \E r \in Row :
          /\ First(r, x.todo)
          /\ exec' = [exec EXCEPT ![e] =
               IF Ready(x.in, r) THEN [x EXCEPT !.pc = "look", !.todo = x.todo \ {r}, !.at = r]
               ELSE [x EXCEPT !.todo = x.todo \ {r}]]
  /\ UNCHANGED <<plan, rows, record, copies, made, review, wrote, edits, faults>>

\* Mutant: the record is not compared with what the plan saw.
NeverMoved(now, before) == FALSE
Moved(now, before) == now # before

\* Mutant: a create does not look for the record first.
NeverThere(r) == FALSE
AlreadyThere(r) == made[r] > 0

\* Mutant: what is found as planned counts as applied.
FoundApplied == "applied"
Found == "skipped"

\* findExisting.  A create on another record's state (a contract line) is stale
\* when that has moved.
LookCreate(e) ==
  /\ exec[e].pc = "look" /\ exec[e].at \in Creates
  /\ \/ Got(e, "stale", FALSE)
     \/ IF AlreadyThere(exec[e].at) THEN Got(e, Found, FALSE) ELSE Goto(e, "write")
  /\ UNCHANGED <<plan, rows, record, copies, made, review, wrote, edits, faults>>

\* A read by id is answered with the record or, while it lives (15 minutes for Services,
\* 5 for ContractServices), with a copy, which counts as a fault.
Answered(r, now) ==
  \/ now = record[r] /\ UNCHANGED faults
  \/ now \in copies[r] /\ faults < MaxFaults /\ faults' = faults + 1

\* io.get; a record that moved is as planned already, or stale.
LookUpdate(e) ==
  LET x == exec[e] IN
  /\ x.pc = "look" /\ x.at \notin Creates
  /\ \E now \in Value :
       /\ Answered(x.at, now)
       /\ IF ~Moved(now, rows[x.plan][x.at].before)
          THEN exec' = [exec EXCEPT ![e].pc = "write", ![e].moved = record[x.at] # now]
          ELSE Got(e, IF now = "new" THEN Found ELSE "stale", FALSE)
  /\ UNCHANGED <<plan, rows, record, copies, made, review, wrote, edits>>

\* A change of a record leaves the copies of what it held before.
Leaves(r) == copies' = [copies EXCEPT ![r] = (@ \cup {record[r]}) \ {record'[r]}]

\* The write is applied.  Its answer drops the copies, except one that a read which the
\* write crosses may keep (a fault, see ReadCache); when the answer is lost they all stay.
Apply(e) ==
  LET r == exec[e].at IN
  /\ exec[e].pc = "write"
  /\ IF r \in Creates THEN made' = [made EXCEPT ![r] = @ + 1] /\ UNCHANGED record
     ELSE record' = [record EXCEPT ![r] = "new"] /\ UNCHANGED made
  /\ wrote' = wrote \cup {<<exec[e].plan, r>>}
  /\ \/ Goto(e, "verify") /\ copies' = [copies EXCEPT ![r] = {}] /\ UNCHANGED faults
     \/ /\ faults < MaxFaults /\ faults' = faults + 1
        /\ Got(e, "failed", FALSE) \/ (r \notin Creates /\ Goto(e, "verify"))
        /\ Leaves(r)
  /\ UNCHANGED <<plan, rows, review, edits>>

\* A read or a write fails (or the target is gone), a 401 or 429 for the whole run.
Refused(e) ==
  /\ exec[e].pc \in {"look", "write", "verify"}
  /\ faults < MaxFaults /\ faults' = faults + 1
  /\ \E stop \in BOOLEAN : Got(e, "failed", stop)
  /\ UNCHANGED <<plan, rows, record, copies, made, review, wrote, edits>>

\* The read-back: a create may not be readable (yet) as planned.
Verify(e) ==
  LET x == exec[e] IN
  /\ x.pc = "verify"
  /\ \/ /\ x.at \in Creates /\ UNCHANGED faults
        /\ \E out \in {"applied", "failed"} : Got(e, out, FALSE)
     \/ /\ x.at \notin Creates
        /\ \E now \in Value :
             Answered(x.at, now) /\ Got(e, IF now = "new" THEN "applied" ELSE "failed", FALSE)
  /\ UNCHANGED <<plan, rows, record, copies, made, review, wrote, edits>>

\* Mutant: a row counts once it was tried.
IntoTried(x) == x.in \cup {x.at}
\* Whatever came of an earlier result, statusNow has the last one.
Into(x) == IF IsIn(x.out) THEN x.in \cup {x.at} ELSE x.in \ {x.at}

\* done(): the row gets its result.  onApplied may fail after it; the row then failed.
Record(e) ==
  LET x == exec[e] IN
  /\ x.pc = "record"
  /\ rows' = [rows EXCEPT ![x.plan][x.at].status = x.out]
  /\ \/ /\ exec' = [exec EXCEPT ![e] =
              IF x.stop THEN Ended(x)
              ELSE [NotRunning EXCEPT !.pc = "next", !.plan = x.plan, !.in = Into(x), !.todo = x.todo]]
        /\ UNCHANGED faults
     \/ /\ IsIn(x.out) /\ faults < MaxFaults
        /\ exec' = [exec EXCEPT ![e] = [x EXCEPT !.in = Into(x), !.out = "failed"]]
        /\ faults' = faults + 1
  /\ UNCHANGED <<plan, record, copies, made, review, wrote, edits>>

Left(p) == Statuses(p) \cap {"approved", "pending"} # {}

End(e) ==
  /\ exec[e].pc = "end"
  /\ exec' = [exec EXCEPT ![e].pc = "close", ![e].left = Left(exec[e].plan)]
  /\ UNCHANGED <<plan, rows, record, copies, made, review, wrote, edits, faults>>

Close(e) ==
  /\ exec[e].pc = "close"
  /\ plan' = [plan EXCEPT ![exec[e].plan] = IF exec[e].left THEN "open" ELSE "done"]
  /\ exec' = [exec EXCEPT ![e] = NotRunning]
  /\ UNCHANGED <<rows, record, copies, made, review, wrote, edits, faults>>

\* The process ends, or the query that records a result fails.
Die(e) ==
  /\ exec[e].pc # "idle" /\ faults < MaxFaults
  /\ faults' = faults + 1
  /\ exec' = [exec EXCEPT ![e] = NotRunning]
  /\ UNCHANGED <<plan, rows, record, copies, made, review, wrote, edits>>

\* A person changes a record that a plan updates.
Edit(r, v) ==
  /\ r \notin Creates /\ edits < MaxEdits /\ record[r] # v
  /\ record' = [record EXCEPT ![r] = v] /\ Leaves(r)
  /\ edits' = edits + 1
  /\ exec' = [e \in Executor |-> IF exec[e].at = r /\ exec[e].pc = "write"
                                 THEN [exec[e] EXCEPT !.moved = TRUE] ELSE exec[e]]
  /\ UNCHANGED <<plan, rows, made, review, wrote, faults>>

Step(e) == \/ Begin(e) \/ NextRow(e) \/ LookCreate(e) \/ LookUpdate(e) \/ Apply(e) \/ Refused(e)
           \/ Verify(e) \/ Record(e) \/ End(e) \/ Close(e) \/ Die(e)
Next == \/ \E p \in Plan : Build(p) \/ (\E o \in Reviewer : StartReview(o, p))
                                    \/ (\E e \in Executor : Load(e, p))
        \/ \E o \in Reviewer : Mark(o)
        \/ \E e \in Executor : Step(e)
        \/ \E r \in Row, v \in Value : Edit(r, v)

Spec == Init /\ [][Next]_vars
-----------------------------------------------------------------------------
(* Properties.                                                             *)

\* Plans, rows and executions keep their types; what the row in hand depends on is in.
TypeOK ==
  /\ plan \in [Plan -> PlanStatus] /\ rows \in [Plan -> [Row -> PlanRow]]
  /\ record \in [Row -> Value] /\ copies \in [Row -> SUBSET Value] /\ made \in [Row -> Nat]
  /\ exec \in [Executor -> Exec] /\ review \in [Reviewer -> Review]
  /\ wrote \subseteq Plan \X Row /\ edits \in 0..MaxEdits /\ faults \in 0..MaxFaults
  /\ \A e \in Executor : exec[e].pc \in {"look", "write", "verify"} => Depends[exec[e].at] \subseteq exec[e].in

\* "Re-running is safe": whatever was lost, died or was approved again, plans
\* executed one at a time create a record once.
CreatedOnce == \A r \in Creates : made[r] <= 1

\* A row is written only when every record that it depends on and that plans create
\* exists (the notReady check of executePlan): an old contract line ends only after
\* the new one is in, an order's lines come after its contract.
DependenciesIn ==
  \A p \in Plan, r \in Row : <<p, r>> \in wrote => \A d \in Depends[r] \cap Creates : made[d] > 0

\* A row that reads 'applied' was written by its own plan, as a revert assumes.
AppliedWasWritten ==
  \A p \in Plan, r \in Row : rows[p][r].status = "applied" => <<p, r>> \in wrote

\* A value that the plan did not see is not written over, unless it was set after the
\* reading of the record that the execution was answered with: after its own read, or
\* after the copy was taken that the mirror or the read cache answered it with (io.get
\* is not noCache).
NotOverwritten ==
  [][\A r \in Row \ Creates, e \in Executor :
       /\ exec[e].pc = "write" /\ exec'[e].pc # "write" /\ exec[e].at = r
       /\ record'[r] # record[r] /\ ~exec[e].moved
       => record[r] = rows[exec[e].plan][r].before]_vars
=============================================================================
