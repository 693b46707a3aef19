------------------------- MODULE ChangePlanProofs -------------------------
(***************************************************************************)
(* Proofs about ChangePlan, for any number of plans, rows, executions and  *)
(* reviews at the same time.                                               *)
(*                                                                         *)
(* Good says what an execution knows about the world: which rows it holds  *)
(* to be in, and what the outcome in its hand stands for.  Both only rest  *)
(* on wrote and made, which never shrink, so other actors can not undo it. *)
(* Placed and Created carry the same facts through the table and from one  *)
(* execution to the next.                                                  *)
(***************************************************************************)
EXTENDS ChangePlan, TLAPS

Good(x, m, w) ==
  /\ x.pc # "idle" => x.plan \in Plan
  /\ x.pc \in {"look", "write", "verify"} => Depends[x.at] \subseteq x.in
  /\ \A r \in x.in \cap Creates : m[r] > 0
  /\ x.pc = "verify" => <<x.plan, x.at>> \in w
  /\ x.pc = "record" /\ x.out = "applied" => <<x.plan, x.at>> \in w
  /\ x.pc = "record" /\ IsIn(x.out) /\ x.at \in Creates => m[x.at] > 0

Knows == \A e \in Executor : Good(exec[e], made, wrote)
Started == \A e \in Executor : exec[e].pc # "idle" => plan[exec[e].plan] # "none"
Reviewed == \A o \in Reviewer : review[o].pc = "mark" => review[o].plan \in Plan
Placed ==
  \A p \in Plan, r \in Creates : plan[p] # "none" /\ IsIn(rows[p][r].status) => made[r] > 0
Created == \A p \in Plan, r \in Creates : <<p, r>> \in wrote => made[r] > 0

Inv == TypeOK /\ Knows /\ Started /\ Reviewed /\ Placed /\ Created /\ AppliedWasWritten /\ DependenciesIn

\* What one execution does to itself, with only its counters beside it, is safe
\* when it knows what it should.
LEMMA StepKeeps ==
  ASSUME Inv, NEW e \in Executor, NEW x \in Exec, Good(x, made, wrote),
         exec' = [exec EXCEPT ![e] = x], UNCHANGED <<rows, record, made, review, wrote, edits>>,
         plan' \in [Plan -> PlanStatus], \A p \in Plan : plan[p] = "none" <=> plan'[p] = "none",
         x.pc # "idle" => plan[x.plan] # "none", faults' \in 0..MaxFaults, copies' \in [Row -> SUBSET Value]
  PROVE  Inv'
<1>1. TypeOK'
  BY DEF Inv, TypeOK, Good
<1>2. Knows' /\ Reviewed' /\ Started'
  BY DEF Inv, TypeOK, Knows, Reviewed, Started, Good
<1>3. Placed' /\ Created' /\ AppliedWasWritten' /\ DependenciesIn'
  BY DEF Inv, TypeOK, Placed, Created, AppliedWasWritten, DependenciesIn
<1> QED BY <1>1, <1>2, <1>3 DEF Inv

LEMMA Idle == NotRunning \in Exec /\ Good(NotRunning, made, wrote) /\ NotRunning.pc = "idle"
<1>1. AnyRow \in Row
  BY ChangePlanAssumption DEF AnyRow
<1> QED BY <1>1 DEF NotRunning, Exec, RowStatus, Good

\* Where nothing is known yet: an execution at its end, or between two rows.
LEMMA Fresh ==
  ASSUME NEW p \in Plan, NEW pc \in {"next", "end", "begin"}, NEW in \in SUBSET Row,
         NEW todo \in SUBSET Row, \A r \in in \cap Creates : made[r] > 0
  PROVE  LET x == [NotRunning EXCEPT !.pc = pc, !.plan = p, !.in = in, !.todo = todo]
         IN  x \in Exec /\ Good(x, made, wrote)
BY Idle DEF Exec, Good

LEMMA EndedIsGood ==
  ASSUME Inv, NEW e \in Executor, exec[e].pc # "idle"
  PROVE  Ended(exec[e]) \in Exec /\ Good(Ended(exec[e]), made, wrote)
BY Idle DEF Inv, TypeOK, Knows, Ended, Exec, Good

\* A new outcome in the hand (Got), and a move of the program counter (Goto).
LEMMA GotKeeps ==
  ASSUME Inv, NEW e \in Executor, NEW out \in RowStatus, NEW stop \in BOOLEAN,
         exec[e].pc # "idle", Got(e, out, stop), UNCHANGED <<plan, rows, record, made, review, wrote, edits>>,
         faults' \in 0..MaxFaults, copies' \in [Row -> SUBSET Value],
         out = "applied" => <<exec[e].plan, exec[e].at>> \in wrote,
         IsIn(out) /\ exec[e].at \in Creates => made[exec[e].at] > 0
  PROVE  Inv'
<1> DEFINE x == [exec[e] EXCEPT !.pc = "record", !.out = out, !.stop = stop]
<1>1. exec[e] \in Exec /\ Good(exec[e], made, wrote) /\ exec \in [Executor -> Exec]
      /\ plan[exec[e].plan] # "none"
  BY DEF Inv, TypeOK, Knows, Started
<1>2. x \in Exec /\ Good(x, made, wrote) /\ x.plan = exec[e].plan
  BY <1>1 DEF Exec, Good
<1>3. exec' = [exec EXCEPT ![e] = x]
  BY <1>1 DEF Got
<1>4. plan' \in [Plan -> PlanStatus]
  BY DEF Inv, TypeOK
<1> HIDE DEF x
<1> QED BY <1>1, <1>2, <1>3, <1>4, StepKeeps

LEMMA GotoKeeps ==
  ASSUME Inv, NEW e \in Executor, NEW pc, exec[e].pc # "idle",
         Goto(e, pc), UNCHANGED <<rows, record, made, review, wrote, edits, faults>>,
         plan' \in [Plan -> PlanStatus], \A p \in Plan : plan[p] = "none" <=> plan'[p] = "none",
         pc = "next" \/ (pc = "write" /\ exec[e].pc = "look"), copies' \in [Row -> SUBSET Value]
  PROVE  Inv'
<1> DEFINE x == [exec[e] EXCEPT !.pc = pc]
<1>1. exec[e] \in Exec /\ Good(exec[e], made, wrote) /\ exec \in [Executor -> Exec]
      /\ plan[exec[e].plan] # "none"
  BY DEF Inv, TypeOK, Knows, Started
<1>2. x \in Exec /\ Good(x, made, wrote) /\ x.plan = exec[e].plan
  BY <1>1 DEF Exec, Good
<1>3. exec' = [exec EXCEPT ![e] = x]
  BY <1>1 DEF Goto
<1>4. faults' \in 0..MaxFaults
  BY DEF Inv, TypeOK
<1> HIDE DEF x
<1> QED BY <1>1, <1>2, <1>3, <1>4, StepKeeps

\* Reading a plan, starting it, and closing it.
LEMMA LoadKeeps == ASSUME Inv, NEW e \in Executor, NEW p \in Plan, Load(e, p) PROVE Inv'
<1> DEFINE in == {r \in Row : IsIn(rows[p][r].status)}
<1>1. PICK todo \in SUBSET Row :
        exec' = [exec EXCEPT ![e] = [NotRunning EXCEPT !.pc = "begin", !.plan = p, !.todo = todo, !.in = in]]
  BY DEF Load
<1>2. plan[p] # "none" /\ UNCHANGED <<plan, rows, record, copies, made, review, wrote, edits, faults>>
  BY DEF Load
<1>3. in \in SUBSET Row /\ \A r \in in \cap Creates : made[r] > 0
  BY <1>2 DEF Inv, Placed
<1> DEFINE x == [NotRunning EXCEPT !.pc = "begin", !.plan = p, !.in = in, !.todo = todo]
<1>4. x \in Exec /\ Good(x, made, wrote) /\ x.plan = p
  <2>1. x \in Exec /\ Good(x, made, wrote)
    BY <1>3, Fresh
  <2>2. x.plan = p
    BY Idle DEF Exec
  <2> QED BY <2>1, <2>2
<1>5. x = [NotRunning EXCEPT !.pc = "begin", !.plan = p, !.todo = todo, !.in = in]
  BY Idle DEF Exec
<1>6. plan' \in [Plan -> PlanStatus] /\ faults' \in 0..MaxFaults /\ copies' \in [Row -> SUBSET Value]
  BY <1>2 DEF Inv, TypeOK
<1> HIDE DEF x, in
<1> QED BY <1>1, <1>2, <1>4, <1>5, <1>6, StepKeeps

LEMMA BeginKeeps == ASSUME Inv, NEW e \in Executor, Begin(e) PROVE Inv'
<1>1. exec[e].plan \in Plan /\ plan[exec[e].plan] # "none"
  BY DEF Inv, Knows, Started, Good, Begin
<1>2. plan' \in [Plan -> PlanStatus] /\ \A p \in Plan : plan[p] = "none" <=> plan'[p] = "none"
  BY <1>1 DEF Begin, Inv, TypeOK, PlanStatus
<1>3. copies' \in [Row -> SUBSET Value]
  BY DEF Begin, Inv, TypeOK
<1> QED BY <1>2, <1>3, GotoKeeps DEF Begin

LEMMA CloseKeeps == ASSUME Inv, NEW e \in Executor, End(e) \/ Close(e) \/ Die(e) PROVE Inv'
<1>0. exec[e] \in Exec /\ Good(exec[e], made, wrote) /\ exec \in [Executor -> Exec]
      /\ (exec[e].pc # "idle" => exec[e].plan \in Plan /\ plan[exec[e].plan] # "none")
  BY DEF Inv, TypeOK, Knows, Started, Good
<1> copies' \in [Row -> SUBSET Value]
  BY DEF End, Close, Die, Inv, TypeOK
<1>1. CASE End(e)
  <2> DEFINE x == [exec[e] EXCEPT !.pc = "close", !.left = Left(exec[e].plan)]
  <2>1. x \in Exec /\ Good(x, made, wrote) /\ x.plan = exec[e].plan /\ exec[e].pc = "end"
    BY <1>0, <1>1 DEF End, Exec, Good, Left
  <2>2. exec' = [exec EXCEPT ![e] = x]
    BY <1>0, <1>1 DEF End
  <2>3. plan' \in [Plan -> PlanStatus] /\ faults' \in 0..MaxFaults /\ plan' = plan
    BY <1>1 DEF End, Inv, TypeOK
  <2> HIDE DEF x
  <2> QED BY <1>0, <1>1, <2>1, <2>2, <2>3, StepKeeps DEF End
<1>2. CASE Close(e)
  <2>1. plan' \in [Plan -> PlanStatus] /\ \A p \in Plan : plan[p] = "none" <=> plan'[p] = "none"
    BY <1>0, <1>2 DEF Close, Inv, TypeOK, PlanStatus
  <2>2. faults' \in 0..MaxFaults
    BY <1>2 DEF Close, Inv, TypeOK
  <2> QED BY <1>2, <2>1, <2>2, Idle, StepKeeps DEF Close
<1>3. CASE Die(e)
  <2>1. plan' \in [Plan -> PlanStatus] /\ plan' = plan
    BY <1>3 DEF Die, Inv, TypeOK
  <2>2. faults' \in 0..MaxFaults
    BY <1>3, ChangePlanAssumption DEF Die, Inv, TypeOK
  <2> QED BY <1>3, <2>1, <2>2, Idle, StepKeeps DEF Die
<1> QED BY <1>1, <1>2, <1>3

\* The next row is taken when it is ready, and passed over when it is not.
LEMMA NextRowKeeps == ASSUME Inv, NEW e \in Executor, NextRow(e) PROVE Inv'
<1>0. /\ exec[e] \in Exec /\ Good(exec[e], made, wrote) /\ exec[e].pc = "next"
      /\ exec[e].plan \in Plan /\ plan[exec[e].plan] # "none"
      /\ plan' \in [Plan -> PlanStatus] /\ plan' = plan /\ faults' \in 0..MaxFaults
      /\ copies' \in [Row -> SUBSET Value]
  BY DEF Inv, TypeOK, Knows, Started, Good, NextRow
<1>1. UNCHANGED <<rows, record, made, review, wrote, edits>>
  BY DEF NextRow
<1>2. CASE exec' = [exec EXCEPT ![e] = Ended(exec[e])]
  <2>1. Ended(exec[e]).plan = exec[e].plan
    BY Idle DEF Ended, Exec
  <2> QED BY <1>0, <1>1, <1>2, <2>1, EndedIsGood, StepKeeps
<1>3. CASE exec' # [exec EXCEPT ![e] = Ended(exec[e])]
  <2>1. PICK r \in Row : exec' = [exec EXCEPT ![e] =
               IF Ready(exec[e].in, r) THEN [exec[e] EXCEPT !.pc = "look", !.todo = exec[e].todo \ {r}, !.at = r]
               ELSE [exec[e] EXCEPT !.todo = exec[e].todo \ {r}]]
    BY <1>3 DEF NextRow
  <2>2. CASE Ready(exec[e].in, r)
    <3> DEFINE x == [exec[e] EXCEPT !.pc = "look", !.todo = exec[e].todo \ {r}, !.at = r]
    <3>1. x \in Exec /\ Good(x, made, wrote) /\ x.plan = exec[e].plan
      BY <1>0, <2>2 DEF Exec, Good, Ready
    <3>2. exec' = [exec EXCEPT ![e] = x]
      BY <2>1, <2>2
    <3> HIDE DEF x
    <3> QED BY <1>0, <1>1, <3>1, <3>2, StepKeeps
  <2>3. CASE ~Ready(exec[e].in, r)
    <3> DEFINE x == [exec[e] EXCEPT !.todo = exec[e].todo \ {r}]
    <3>1. x \in Exec /\ Good(x, made, wrote) /\ x.plan = exec[e].plan
      BY <1>0 DEF Exec, Good
    <3>2. exec' = [exec EXCEPT ![e] = x]
      BY <2>1, <2>3
    <3> HIDE DEF x
    <3> QED BY <1>0, <1>1, <3>1, <3>2, StepKeeps
  <2> QED BY <2>2, <2>3
<1> QED BY <1>2, <1>3

\* What a look, a refusal and a read-back put in the hand.
LEMMA LookKeeps ==
  ASSUME Inv, NEW e \in Executor,
         LookCreate(e) \/ LookUpdate(e) \/ Refused(e) \/ Verify(e)
  PROVE  Inv'
<1>0. /\ exec[e] \in Exec /\ Good(exec[e], made, wrote) /\ made \in [Row -> Nat]
      /\ plan \in [Plan -> PlanStatus] /\ faults \in 0..MaxFaults
  BY DEF Inv, TypeOK, Knows
<1>1. UNCHANGED <<plan, rows, record, made, review, wrote, edits>> /\ exec[e].pc # "idle"
  BY DEF LookCreate, LookUpdate, Refused, Verify
<1>2. faults' \in 0..MaxFaults
  <2>1. faults' = faults \/ (faults < MaxFaults /\ faults' = faults + 1)
    BY DEF LookCreate, LookUpdate, Refused, Verify, Answered
  <2> QED BY <1>0, <2>1, ChangePlanAssumption
<1> copies' \in [Row -> SUBSET Value]
  BY DEF LookCreate, LookUpdate, Refused, Verify, Inv, TypeOK
<1>3. CASE Goto(e, "write") /\ LookCreate(e)
  <2>1. exec[e].pc = "look" /\ UNCHANGED <<rows, record, made, review, wrote, edits, faults>>
        /\ plan' = plan
    BY <1>3 DEF LookCreate
  <2>2. plan' \in [Plan -> PlanStatus]
    BY <1>0, <2>1
  <2> QED BY <1>3, <2>1, <2>2, GotoKeeps
<1>4. CASE \E out \in RowStatus, stop \in BOOLEAN :
             /\ Got(e, out, stop)
             /\ out = "applied" => <<exec[e].plan, exec[e].at>> \in wrote
             /\ IsIn(out) /\ exec[e].at \in Creates => made[exec[e].at] > 0
  BY <1>1, <1>2, <1>4, GotKeeps
<1>5. CASE LookCreate(e) /\ ~Goto(e, "write")
  <2>1. \/ Got(e, "stale", FALSE)
        \/ Got(e, "skipped", FALSE) /\ made[exec[e].at] > 0
    BY <1>5 DEF LookCreate, AlreadyThere, Found
  <2> QED BY <2>1, <1>4 DEF RowStatus, IsIn
<1>6. CASE LookUpdate(e)
  <2>0. exec[e].pc = "look" /\ exec[e].at \notin Creates /\ UNCHANGED plan
    BY <1>6 DEF LookUpdate
  <2>1. PICK now \in Value :
          \/ exec' = [exec EXCEPT ![e].pc = "write", ![e].moved = record[exec[e].at] # now]
          \/ Got(e, "stale", FALSE) \/ Got(e, "skipped", FALSE)
    BY <1>6 DEF LookUpdate, Found
  <2>2. CASE exec' = [exec EXCEPT ![e].pc = "write", ![e].moved = record[exec[e].at] # now]
    <3> DEFINE m == record[exec[e].at] # now
    <3>0. m \in BOOLEAN
      OBVIOUS
    <3> HIDE DEF m
    <3> DEFINE x == [exec[e] EXCEPT !.pc = "write", !.moved = m]
    <3>1. x \in Exec /\ Good(x, made, wrote) /\ x.plan = exec[e].plan /\ x.pc = "write"
      BY <1>0, <2>0, <3>0 DEF Exec, Good
    <3>2. exec' = [exec EXCEPT ![e] = x]
      BY <1>0, <2>2 DEF m, Inv, TypeOK
    <3>3. plan[x.plan] # "none" /\ plan' \in [Plan -> PlanStatus]
      BY <1>0, <1>1, <2>0, <3>1 DEF Inv, Started
    <3> HIDE DEF x
    <3> QED BY <1>1, <1>2, <2>0, <3>1, <3>2, <3>3, StepKeeps
  <2>3. CASE Got(e, "stale", FALSE) \/ Got(e, "skipped", FALSE)
    BY <2>0, <2>3, <1>4 DEF RowStatus, IsIn
  <2> QED BY <2>1, <2>2, <2>3
<1>7. CASE Refused(e)
  <2>1. \E stop \in BOOLEAN : Got(e, "failed", stop)
    BY <1>7 DEF Refused
  <2> QED BY <2>1, <1>4 DEF RowStatus, IsIn
<1>8. CASE Verify(e)
  <2>1. exec[e].pc = "verify" /\ (Got(e, "applied", FALSE) \/ Got(e, "failed", FALSE))
    BY <1>8 DEF Verify
  <2>2. exec[e].plan \in Plan /\ <<exec[e].plan, exec[e].at>> \in wrote
    BY <1>0, <2>1 DEF Good
  <2>3. exec[e].at \in Creates => made[exec[e].at] > 0
    BY <2>2 DEF Inv, Created
  <2> QED BY <2>1, <2>2, <2>3, <1>4 DEF RowStatus, IsIn
<1> QED BY <1>3, <1>5, <1>6, <1>7, <1>8

\* More writes and more records never take away what anyone knows.
LEMMA GoodStays ==
  ASSUME NEW x \in Exec, NEW m \in [Row -> Nat], NEW n \in [Row -> Nat], NEW w, NEW v,
         Good(x, m, w), w \subseteq v, \A r \in Row : m[r] > 0 => n[r] > 0
  PROVE  Good(x, n, v)
BY DEF Good, Exec

\* A write is applied for a row that is ready; its record is there afterwards.
LEMMA ApplyKeeps == ASSUME Inv, NEW e \in Executor, Apply(e) PROVE Inv'
<1> DEFINE p == exec[e].plan
           r == exec[e].at
<1>0. /\ exec[e] \in Exec /\ Good(exec[e], made, wrote) /\ exec \in [Executor -> Exec]
      /\ made \in [Row -> Nat] /\ record \in [Row -> Value] /\ copies \in [Row -> SUBSET Value] /\ faults \in 0..MaxFaults
      /\ exec[e].pc = "write" /\ p \in Plan /\ r \in Row /\ plan[p] # "none"
      /\ Creates \subseteq Row
  BY ChangePlanAssumption DEF Inv, TypeOK, Knows, Started, Good, Apply, Exec
<1>1. made' \in [Row -> Nat] /\ record' \in [Row -> Value]
      /\ (\A q \in Row : made[q] > 0 => made'[q] > 0) /\ (r \in Creates => made'[r] > 0)
  <2>1. CASE r \in Creates
    BY <1>0, <2>1 DEF Apply
  <2>2. CASE r \notin Creates
    BY <1>0, <2>2 DEF Apply, Value
  <2> QED BY <2>1, <2>2
<1>2. wrote' = wrote \cup {<<p, r>>} /\ UNCHANGED <<plan, rows, review, edits>>
  BY DEF Apply
<1>3. faults' \in 0..MaxFaults
  <2>1. faults' = faults \/ (faults < MaxFaults /\ faults' = faults + 1)
    BY DEF Apply
  <2> QED BY <1>0, <2>1, ChangePlanAssumption
<1> copies' \in [Row -> SUBSET Value]
  <2>1. CASE Leaves(r)
    BY <1>0, <2>1 DEF Leaves
  <2>2. CASE copies' = [copies EXCEPT ![r] = {}]
    BY <1>0, <2>2
  <2> QED BY <2>1, <2>2 DEF Apply
<1>4. PICK x \in Exec : /\ exec' = [exec EXCEPT ![e] = x] /\ x.plan = p
                        /\ Good(x, made', wrote')
  <2>1. CASE Goto(e, "verify")
    <3> DEFINE x == [exec[e] EXCEPT !.pc = "verify"]
    <3>1. x \in Exec /\ x.plan = p /\ x.pc = "verify" /\ x.at = r /\ x.in = exec[e].in
      BY <1>0 DEF Exec
    <3>2. exec' = [exec EXCEPT ![e] = x]
      BY <1>0, <2>1 DEF Goto
    <3> HIDE DEF x
    <3>3. Good(x, made', wrote')
      BY <1>0, <1>1, <1>2, <3>1 DEF Good, Exec
    <3> QED BY <3>1, <3>2, <3>3
  <2>2. CASE Got(e, "failed", FALSE)
    <3> DEFINE x == [exec[e] EXCEPT !.pc = "record", !.out = "failed", !.stop = FALSE]
    <3>1. x \in Exec /\ x.plan = p /\ x.pc = "record" /\ x.at = r /\ x.in = exec[e].in /\ x.out = "failed"
      BY <1>0 DEF Exec, RowStatus
    <3>2. exec' = [exec EXCEPT ![e] = x]
      BY <1>0, <2>2 DEF Got
    <3> HIDE DEF x
    <3>3. Good(x, made', wrote')
      BY <1>0, <1>1, <1>2, <3>1 DEF Good, Exec, IsIn
    <3> QED BY <3>1, <3>2, <3>3
  <2> QED BY <2>1, <2>2 DEF Apply
<1>5. \A f \in Executor : f # e => exec'[f] = exec[f] /\ Good(exec[f], made', wrote')
  <2> SUFFICES ASSUME NEW f \in Executor, f # e
               PROVE  exec'[f] = exec[f] /\ Good(exec[f], made', wrote')
    OBVIOUS
  <2>1. exec[f] \in Exec /\ Good(exec[f], made, wrote)
    BY DEF Inv, TypeOK, Knows
  <2>2. wrote \subseteq wrote'
    BY <1>2
  <2>3. Good(exec[f], made', wrote')
    BY <1>0, <1>1, <2>1, <2>2, GoodStays
  <2> QED BY <1>0, <1>4, <2>3
<1>6. Knows' /\ Started' /\ Reviewed'
  BY <1>0, <1>2, <1>4, <1>5 DEF Inv, Knows, Started, Reviewed
<1>7. TypeOK'
  BY <1>0, <1>1, <1>2, <1>3, <1>4, <1>6 DEF Inv, TypeOK, Knows, Good
<1>8. Placed' /\ Created' /\ AppliedWasWritten'
  BY <1>0, <1>1, <1>2 DEF Inv, Placed, Created, AppliedWasWritten
<1>9. DependenciesIn'
  <2>1. \A d \in Depends[r] \cap Creates : made[d] > 0
    BY <1>0 DEF Good
  <2> QED BY <1>0, <1>1, <1>2, <2>1 DEF Inv, DependenciesIn
<1> QED BY <1>6, <1>7, <1>8, <1>9 DEF Inv

WithStatus(p, r, s) == [rows EXCEPT ![p][r].status = s]

\* One row's status is set, and no other row is touched.
LEMMA SetStatus ==
  ASSUME rows \in [Plan -> [Row -> PlanRow]], NEW p \in Plan, NEW r \in Row, NEW s \in RowStatus,
         rows' = WithStatus(p, r, s)
  PROVE  /\ rows' \in [Plan -> [Row -> PlanRow]]
         /\ \A q \in Plan, n \in Row : rows'[q][n].status = IF q = p /\ n = r THEN s ELSE rows[q][n].status
         /\ \A q \in Plan, n \in Row : rows'[q][n].before = rows[q][n].before
<1> DEFINE new == [rows[p][r] EXCEPT !.status = s]
<1>1. rows[p] \in [Row -> PlanRow] /\ rows[p][r] \in PlanRow
  OBVIOUS
<1>2. new \in PlanRow /\ new.status = s /\ new.before = rows[p][r].before
  BY <1>1 DEF PlanRow
<1>3. rows' = [rows EXCEPT ![p] = [rows[p] EXCEPT ![r] = new]]
  BY DEF WithStatus
<1> HIDE DEF new
<1> DEFINE one == [rows[p] EXCEPT ![r] = new]
<1>4. one \in [Row -> PlanRow] /\ \A n \in Row : one[n] = IF n = r THEN new ELSE rows[p][n]
  BY <1>1, <1>2
<1> HIDE DEF one
<1>5. rows' \in [Plan -> [Row -> PlanRow]] /\ \A q \in Plan : rows'[q] = IF q = p THEN one ELSE rows[q]
  BY <1>3, <1>4 DEF one
<1>6. \A q \in Plan, n \in Row : rows'[q][n].status = IF q = p /\ n = r THEN s ELSE rows[q][n].status
  BY <1>2, <1>4, <1>5
<1>7. \A q \in Plan, n \in Row : rows'[q][n].before = rows[q][n].before
  BY <1>2, <1>4, <1>5
<1> QED BY <1>5, <1>6, <1>7

\* A result is recorded; what it stands for is known to the execution.
LEMMA RecordKeeps == ASSUME Inv, NEW e \in Executor, Record(e) PROVE Inv'
<1> DEFINE p == exec[e].plan
           r == exec[e].at
<1>0. /\ exec[e] \in Exec /\ Good(exec[e], made, wrote) /\ exec \in [Executor -> Exec]
      /\ faults \in 0..MaxFaults /\ exec[e].pc = "record" /\ p \in Plan /\ r \in Row
      /\ plan[p] # "none" /\ rows \in [Plan -> [Row -> PlanRow]] /\ exec[e].out \in RowStatus
  BY DEF Inv, TypeOK, Knows, Started, Good, Record, Exec
<1>1. UNCHANGED <<plan, record, copies, made, review, wrote, edits>>
      /\ rows' = [rows EXCEPT ![p][r].status = exec[e].out]
  BY DEF Record
<1>2. faults' \in 0..MaxFaults
  <2>1. faults' = faults \/ (faults < MaxFaults /\ faults' = faults + 1)
    BY DEF Record
  <2> QED BY <1>0, <2>1, ChangePlanAssumption
<1>3. Into(exec[e]) \in SUBSET Row /\ \A q \in Into(exec[e]) \cap Creates : made[q] > 0
  BY <1>0 DEF Into, Good, Exec
<1>4. PICK x \in Exec : /\ exec' = [exec EXCEPT ![e] = x] /\ x.plan = p
                        /\ Good(x, made, wrote)
  <2>1. CASE exec' = [exec EXCEPT ![e] =
                 IF exec[e].stop THEN Ended(exec[e])
                 ELSE [NotRunning EXCEPT !.pc = "next", !.plan = p, !.in = Into(exec[e]), !.todo = exec[e].todo]]
    <3>1. CASE exec[e].stop
      <4>1. Ended(exec[e]).plan = p
        BY Idle DEF Ended, Exec
      <4> QED BY <1>0, <2>1, <3>1, <4>1, EndedIsGood
    <3>2. CASE ~exec[e].stop
      <4> DEFINE x == [NotRunning EXCEPT !.pc = "next", !.plan = p, !.in = Into(exec[e]), !.todo = exec[e].todo]
      <4>0. exec[e].todo \in SUBSET Row
        BY <1>0 DEF Exec
      <4>1. x \in Exec /\ Good(x, made, wrote)
        BY <1>0, <1>3, <4>0, Fresh
      <4>2. x.plan = p
        BY Idle DEF Exec
      <4> QED BY <2>1, <3>2, <4>1, <4>2
    <3> QED BY <3>1, <3>2
  <2>2. CASE exec' = [exec EXCEPT ![e] = [exec[e] EXCEPT !.in = Into(exec[e]), !.out = "failed"]]
    <3> DEFINE x == [exec[e] EXCEPT !.in = Into(exec[e]), !.out = "failed"]
    <3>1. x \in Exec /\ x.plan = p /\ x.pc = "record" /\ x.in = Into(exec[e]) /\ x.out = "failed"
      BY <1>0, <1>3 DEF Exec, RowStatus
    <3>2. exec' = [exec EXCEPT ![e] = x]
      BY <2>2
    <3> HIDE DEF x
    <3>3. Good(x, made, wrote)
      BY <1>0, <1>3, <3>1 DEF Good, IsIn
    <3> QED BY <3>1, <3>2, <3>3
  <2> QED BY <2>1, <2>2 DEF Record
<1>5. rows' \in [Plan -> [Row -> PlanRow]]
      /\ \A q \in Plan, n \in Row : rows'[q][n].status = IF q = p /\ n = r THEN exec[e].out ELSE rows[q][n].status
  <2>1. rows' = WithStatus(p, r, exec[e].out)
    BY <1>1 DEF WithStatus
  <2> HIDE DEF p, r
  <2> QED BY <1>0, <2>1, SetStatus
<1>6. Knows' /\ Started' /\ Reviewed'
  BY <1>0, <1>1, <1>4 DEF Inv, Knows, Started, Reviewed
<1>7. TypeOK'
  BY <1>0, <1>1, <1>2, <1>4, <1>5, <1>6 DEF Inv, TypeOK, Knows, Good
<1>8. Placed' /\ AppliedWasWritten'
  BY <1>0, <1>1, <1>5, ChangePlanAssumption DEF Inv, Placed, AppliedWasWritten, Good
<1>9. Created' /\ DependenciesIn'
  BY <1>1 DEF Inv, Created, DependenciesIn
<1> QED BY <1>6, <1>7, <1>8, <1>9 DEF Inv

\* A person's change is only remembered in the execution that it overtakes.
LEMMA EditKeeps == ASSUME Inv, NEW r \in Row, NEW v \in Value, Edit(r, v) PROVE Inv'
<1>1. UNCHANGED <<plan, rows, made, review, wrote, faults>> /\ record' \in [Row -> Value]
      /\ edits' \in 0..MaxEdits
  BY ChangePlanAssumption DEF Edit, Inv, TypeOK
<1> copies' \in [Row -> SUBSET Value]
  BY DEF Edit, Leaves, Inv, TypeOK
<1>2. exec' \in [Executor -> Exec] /\ \A e \in Executor :
        /\ exec'[e].pc = exec[e].pc /\ exec'[e].plan = exec[e].plan /\ exec'[e].in = exec[e].in
        /\ exec'[e].at = exec[e].at /\ exec'[e].out = exec[e].out
  <2>1. \A e \in Executor : exec[e] \in Exec
    BY DEF Inv, TypeOK
  <2>2. exec' = [e \in Executor |-> IF exec[e].at = r /\ exec[e].pc = "write"
                                    THEN [exec[e] EXCEPT !.moved = TRUE] ELSE exec[e]]
    BY DEF Edit
  <2>3. ASSUME NEW x \in Exec
        PROVE  LET y == [x EXCEPT !.moved = TRUE]
               IN  y \in Exec /\ y.pc = x.pc /\ y.plan = x.plan /\ y.in = x.in /\ y.at = x.at /\ y.out = x.out
    BY DEF Exec
  <2>4. ASSUME NEW e \in Executor
        PROVE  /\ exec'[e] \in Exec /\ exec'[e].pc = exec[e].pc /\ exec'[e].plan = exec[e].plan
               /\ exec'[e].in = exec[e].in /\ exec'[e].at = exec[e].at /\ exec'[e].out = exec[e].out
    <3>1. CASE exec'[e] = exec[e]
      BY <2>1, <3>1
    <3>2. CASE exec'[e] = [exec[e] EXCEPT !.moved = TRUE]
      BY <2>1, <2>3, <3>2
    <3> QED BY <2>2, <3>1, <3>2
  <2>5. exec' \in [Executor -> Exec]
    BY <2>2, <2>4
  <2> QED BY <2>4, <2>5
<1>3. TypeOK'
  BY <1>1, <1>2 DEF Inv, TypeOK
<1>4. Knows' /\ Started' /\ Reviewed'
  BY <1>1, <1>2 DEF Inv, Knows, Started, Reviewed, Good
<1>5. Placed' /\ Created' /\ AppliedWasWritten' /\ DependenciesIn'
  BY <1>1 DEF Inv, Placed, Created, AppliedWasWritten, DependenciesIn
<1> QED BY <1>3, <1>4, <1>5 DEF Inv

\* A new plan has rows for what is not there yet; it supersedes open ones.
LEMMA BuildKeeps == ASSUME Inv, NEW p \in Plan, Build(p) PROVE Inv'
<1>1. /\ UNCHANGED <<record, copies, made, exec, review, wrote, edits, faults>> /\ plan[p] = "none"
      /\ plan' \in [Plan -> PlanStatus] /\ \A q \in Plan : plan[q] # "none" => plan'[q] # "none"
      /\ \A q \in Plan : q # p /\ plan'[q] # "none" => plan[q] # "none"
  BY DEF Build, Inv, TypeOK, PlanStatus
<1>2. /\ rows' \in [Plan -> [Row -> PlanRow]] /\ \A q \in Plan : q # p => rows'[q] = rows[q]
      /\ \A r \in Row : rows'[p][r].status \in {"pending", "skipped"}
      /\ \A r \in Row : rows'[p][r].status = "skipped" => ~Planned(r)
  BY DEF Build, Inv, TypeOK, PlanRow, RowStatus, NoRow, Value
<1>3. TypeOK'
  BY <1>1, <1>2 DEF Inv, TypeOK
<1>4. Knows' /\ Started' /\ Reviewed'
  BY <1>1 DEF Inv, Knows, Started, Reviewed, Good
<1>5. Placed' /\ AppliedWasWritten'
  <2>1. Placed'
    <3> SUFFICES ASSUME NEW q \in Plan, NEW c \in Creates, plan'[q] # "none", IsIn(rows'[q][c].status)
                 PROVE  made[c] > 0
      BY <1>1 DEF Placed
    <3>0. c \in Row /\ made[c] \in Nat
      BY ChangePlanAssumption DEF Inv, TypeOK
    <3>1. CASE q = p
      <4>1. ~Planned(c)
        BY <1>2, <3>0, <3>1 DEF IsIn
      <4> QED BY <3>0, <4>1 DEF Planned
    <3>2. CASE q # p
      BY <1>1, <1>2, <3>2 DEF Inv, Placed
    <3> QED BY <3>1, <3>2
  <2>2. AppliedWasWritten'
    <3> SUFFICES ASSUME NEW q \in Plan, NEW r \in Row, rows'[q][r].status = "applied"
                 PROVE  <<q, r>> \in wrote
      BY <1>1 DEF AppliedWasWritten
    <3>1. q # p
      BY <1>2
    <3> QED BY <1>2, <3>1 DEF Inv, AppliedWasWritten
  <2> QED BY <2>1, <2>2
<1>6. Created' /\ DependenciesIn'
  BY <1>1 DEF Inv, Created, DependenciesIn
<1> QED BY <1>3, <1>4, <1>5, <1>6 DEF Inv

LEMMA ReviewKeeps ==
  ASSUME Inv, NEW o \in Reviewer, Mark(o) \/ \E p \in Plan : StartReview(o, p)
  PROVE  Inv'
<1>0. review \in [Reviewer -> Review] /\ NotReviewing \in Review /\ NotReviewing.pc = "idle"
      /\ rows \in [Plan -> [Row -> PlanRow]]
  BY DEF Inv, TypeOK, Review, NotReviewing
<1>1. UNCHANGED <<plan, record, copies, made, exec, wrote, edits, faults>>
  BY DEF Mark, StartReview
<1>2. /\ rows' \in [Plan -> [Row -> PlanRow]]
      /\ \A q \in Plan, r \in Row : rows'[q][r].status \in {rows[q][r].status, "approved", "excluded"}
  <2>1. CASE rows' = rows
    BY <1>0, <2>1
  <2>2. CASE Mark(o)
    <3>1. PICK row \in Row : rows' = [rows EXCEPT ![review[o].plan][row].status = review[o].as]
      BY <2>2 DEF Mark
    <3>2. review[o].plan \in Plan /\ review[o].as \in {"approved", "excluded"}
      BY <1>0, <2>2 DEF Mark, Inv, Reviewed, Review
    <3>3. review[o].as \in RowStatus
      BY <3>2 DEF RowStatus
    <3>4. rows' = WithStatus(review[o].plan, row, review[o].as)
      BY <3>1 DEF WithStatus
    <3>5. /\ rows' \in [Plan -> [Row -> PlanRow]]
          /\ \A q \in Plan, n \in Row :
               rows'[q][n].status = IF q = review[o].plan /\ n = row THEN review[o].as ELSE rows[q][n].status
      BY <1>0, <3>2, <3>3, <3>4, SetStatus
    <3> QED BY <3>2, <3>5
  <2> QED BY <2>1, <2>2 DEF StartReview
<1>3. review' \in [Reviewer -> Review] /\ Reviewed'
  <2>1. CASE Mark(o)
    <3>1. PICK r \in Row : review' = [review EXCEPT ![o] =
            IF review[o].rows = {r} THEN NotReviewing ELSE [review[o] EXCEPT !.rows = review[o].rows \ {r}]]
      BY <2>1 DEF Mark
    <3> QED BY <1>0, <3>1 DEF Review, Inv, Reviewed
  <2>2. ASSUME NEW p \in Plan, StartReview(o, p) PROVE review' \in [Reviewer -> Review] /\ Reviewed'
    <3>1. PICK R \in SUBSET Row, as \in {"approved", "excluded"} :
            review' = [review EXCEPT ![o] = [pc |-> "mark", plan |-> p, rows |-> R, as |-> as]]
      BY <2>2 DEF StartReview
    <3> DEFINE v == [pc |-> "mark", plan |-> p, rows |-> R, as |-> as]
    <3>2. v \in Review /\ v.plan = p
      BY DEF Review
    <3> HIDE DEF v
    <3>3. review' = [review EXCEPT ![o] = v]
      BY <3>1 DEF v
    <3> QED BY <1>0, <3>2, <3>3 DEF Inv, Reviewed
  <2> QED BY <2>1, <2>2
<1>4. TypeOK'
  BY <1>1, <1>2, <1>3 DEF Inv, TypeOK
<1>5. Knows' /\ Started'
  BY <1>1 DEF Inv, Knows, Started, Good
<1>6. Placed' /\ AppliedWasWritten'
  BY <1>1, <1>2, ChangePlanAssumption DEF Inv, Placed, AppliedWasWritten, IsIn
<1>7. Created' /\ DependenciesIn'
  BY <1>1 DEF Inv, Created, DependenciesIn
<1> QED BY <1>3, <1>4, <1>5, <1>6, <1>7 DEF Inv

LEMMA Invariance == Spec => []Inv
<1>1. Init => Inv
  <2> SUFFICES ASSUME Init PROVE Inv
    OBVIOUS
  <2>1. NotReviewing \in Review /\ NoRow \in PlanRow /\ NoRow.status = "skipped" /\ NotReviewing.pc = "idle"
    BY DEF NotReviewing, Review, NoRow, PlanRow, RowStatus, Value
  <2>2. TypeOK
    BY <2>1, Idle, ChangePlanAssumption DEF Init, TypeOK, PlanStatus, Value
  <2>3. Knows /\ Started /\ Reviewed
    BY <2>1, Idle DEF Init, Knows, Started, Reviewed
  <2>4. Placed /\ Created /\ AppliedWasWritten /\ DependenciesIn
    BY <2>1 DEF Init, Placed, Created, AppliedWasWritten, DependenciesIn
  <2> QED BY <2>2, <2>3, <2>4 DEF Inv
<1>2. Inv /\ [Next]_vars => Inv'
  <2> SUFFICES ASSUME Inv, [Next]_vars PROVE Inv'
    OBVIOUS
  <2>1. CASE UNCHANGED vars
    BY <2>1 DEF vars, Inv, TypeOK, Knows, Started, Reviewed, Placed, Created, AppliedWasWritten,
                DependenciesIn, Good
  <2>2. CASE Next
    BY <2>2, BuildKeeps, ReviewKeeps, LoadKeeps, BeginKeeps, NextRowKeeps, LookKeeps, ApplyKeeps,
       RecordKeeps, CloseKeeps, EditKeeps DEF Next, Step
  <2> QED BY <2>1, <2>2
<1> QED BY <1>1, <1>2, PTL DEF Spec

\* Plans, rows, executions and reviews keep their types, and a row is in hand
\* only with everything it depends on in, for any number of them.
THEOREM TypeCorrect == Spec => []TypeOK
<1>1. Inv => TypeOK
  BY DEF Inv
<1> QED BY <1>1, Invariance, PTL

\* A move never ends the old line before the new one exists: a written row
\* finds what it depends on created, with any executions running at once.
THEOREM DependenciesFirst == Spec => []DependenciesIn
<1>1. Inv => DependenciesIn
  BY DEF Inv
<1> QED BY <1>1, Invariance, PTL

\* A row that reads 'applied' was written by its own plan, whatever executions
\* and reviews overtook each other (what a revert puts back was really changed).
THEOREM AppliedIsReal == Spec => []AppliedWasWritten
<1>1. Inv => AppliedWasWritten
  BY DEF Inv
<1> QED BY <1>1, Invariance, PTL
-----------------------------------------------------------------------------
(***************************************************************************)
(* What an execution has looked at before it writes, and what may happen   *)
(* to it between the two.                                                  *)
(***************************************************************************)

\* The record in hand is as the plan saw it, or by now as planned, unless a
\* person changed it after what the execution read was read from Autotask.
Looked(x) ==
  x.pc = "write" /\ x.at \notin Creates /\ ~x.moved
    => record[x.at] \in {rows[x.plan][x.at].before, "new"}
AllLooked == \A e \in Executor : Looked(exec[e])

\* A record to create was looked for, and is not there.
NotThere == \A e \in Executor : exec[e].pc = "write" /\ exec[e].at \in Creates => made[exec[e].at] = 0

\* An execution only comes to a write by looking.
LEMMA WriteFollowsLook ==
  ASSUME Inv, NEW e \in Executor, Step(e) \/ \E p \in Plan : Load(e, p)
  PROVE  /\ \A f \in Executor : f # e => exec'[f] = exec[f]
         /\ exec'[e].pc = "write" =>
              /\ exec'[e].plan = exec[e].plan /\ exec'[e].at = exec[e].at
              /\ UNCHANGED <<plan, rows, record, made>>
              /\ exec[e].plan \in Plan /\ exec[e].at \in Row
              /\ exec[e].at \in Creates => made[exec[e].at] = 0
              /\ exec[e].at \notin Creates /\ ~exec'[e].moved
                   => record[exec[e].at] = rows[exec[e].plan][exec[e].at].before
<1>0. /\ exec \in [Executor -> Exec] /\ exec[e] \in Exec /\ NotRunning \in Exec /\ NotRunning.pc = "idle"
      /\ made \in [Row -> Nat]
      /\ exec[e].pc # "idle" => exec[e].plan \in Plan
  BY Idle DEF Inv, TypeOK, Knows, Good
<1> DEFINE to(x) == exec' = [exec EXCEPT ![e] = x]
           Others == \A f \in Executor : f # e => exec'[f] = exec[f]
<1>1. ASSUME NEW x, to(x), x.pc # "write" PROVE Others /\ exec'[e].pc # "write"
  BY <1>0, <1>1
<1>2. ASSUME NEW p \in Plan, Load(e, p) PROVE Others /\ exec'[e].pc # "write"
  <2>1. PICK in, todo : to([NotRunning EXCEPT !.pc = "begin", !.plan = p, !.todo = todo, !.in = in])
    BY <1>2 DEF Load
  <2>2. [NotRunning EXCEPT !.pc = "begin", !.plan = p, !.todo = todo, !.in = in].pc = "begin"
    BY <1>0 DEF Exec
  <2> QED BY <1>1, <2>1, <2>2
<1>3. CASE Begin(e)
  BY <1>0, <1>3 DEF Begin, Goto, Exec
<1>4. Ended(exec[e]).pc = "end"
  BY <1>0 DEF Ended, Exec
<1>5. CASE NextRow(e)
  <2>1. exec[e].pc = "next"
    BY <1>5 DEF NextRow
  <2>2. CASE to(Ended(exec[e]))
    BY <1>1, <1>4, <2>2
  <2>3. ASSUME NEW r \in Row, to([exec[e] EXCEPT !.pc = "look", !.todo = exec[e].todo \ {r}, !.at = r])
        PROVE  Others /\ exec'[e].pc # "write"
    BY <1>0, <1>1, <2>3 DEF Exec
  <2>4. ASSUME NEW r \in Row, to([exec[e] EXCEPT !.todo = exec[e].todo \ {r}])
        PROVE  Others /\ exec'[e].pc # "write"
    BY <1>0, <1>1, <2>1, <2>4 DEF Exec
  <2> QED BY <1>5, <2>2, <2>3, <2>4 DEF NextRow
<1>6. ASSUME NEW out, NEW stop, Got(e, out, stop) PROVE Others /\ exec'[e].pc # "write"
  BY <1>0, <1>6 DEF Got, Exec
<1>7. CASE LookCreate(e)
  <2>1. CASE Goto(e, "write")
    <3>1. to([exec[e] EXCEPT !.pc = "write"])
      BY <1>0, <2>1 DEF Goto
    <3>2. made[exec[e].at] = 0
      <4>1. ~AlreadyThere(exec[e].at)
        <5>1. ASSUME NEW out, NEW stop PROVE ~Got(e, out, stop)
          BY <1>0, <1>6, <2>1, <3>1
        <5> QED BY <1>7, <5>1 DEF LookCreate
      <4> QED BY <1>0, <4>1 DEF AlreadyThere, Exec
    <3>3. UNCHANGED <<plan, rows, record, made>> /\ exec[e].pc = "look" /\ exec[e].at \in Row /\ exec[e].at \in Creates
      BY <1>0, <1>7 DEF LookCreate, Exec
    <3>4. exec'[e] = [exec[e] EXCEPT !.pc = "write"] /\ Others
      BY <1>0, <3>1
    <3>5. exec'[e].plan = exec[e].plan /\ exec'[e].at = exec[e].at
      BY <1>0, <3>4 DEF Exec
    <3> QED BY <1>0, <3>2, <3>3, <3>4, <3>5
  <2>2. CASE ~Goto(e, "write")
    <3>1. \E out \in RowStatus : Got(e, out, FALSE)
      BY <1>7, <2>2 DEF LookCreate, Found, RowStatus
    <3> QED BY <1>6, <3>1
  <2> QED BY <2>1, <2>2
<1>13. CASE LookUpdate(e)
  <2>0. /\ UNCHANGED <<plan, rows, record, made>> /\ exec[e].pc = "look" /\ exec[e].at \in Row
        /\ exec[e].at \notin Creates
    BY <1>0, <1>13 DEF LookUpdate, Exec
  <2>1. PICK now \in Value :
          \/ /\ now = rows[exec[e].plan][exec[e].at].before
             /\ exec' = [exec EXCEPT ![e].pc = "write", ![e].moved = record[exec[e].at] # now]
          \/ \E out \in RowStatus : Got(e, out, FALSE)
    BY <1>13 DEF LookUpdate, Moved, Found, RowStatus
  <2>2. CASE /\ now = rows[exec[e].plan][exec[e].at].before
             /\ exec' = [exec EXCEPT ![e].pc = "write", ![e].moved = record[exec[e].at] # now]
    <3> DEFINE m == record[exec[e].at] # now
    <3>0. m \in BOOLEAN /\ (~m => record[exec[e].at] = rows[exec[e].plan][exec[e].at].before)
      BY <2>2
    <3>1. to([exec[e] EXCEPT !.pc = "write", !.moved = m])
      BY <1>0, <2>2
    <3> HIDE DEF m
    <3>2. exec'[e] = [exec[e] EXCEPT !.pc = "write", !.moved = m] /\ Others
      BY <1>0, <3>1
    <3>3. exec'[e].plan = exec[e].plan /\ exec'[e].at = exec[e].at /\ exec'[e].moved = m
      BY <1>0, <3>0, <3>2 DEF Exec
    <3> QED BY <1>0, <2>0, <3>0, <3>2, <3>3
  <2> QED BY <1>6, <2>1, <2>2
<1>8. CASE Apply(e)
  BY <1>0, <1>6, <1>8 DEF Apply, Goto, Exec
<1>9. CASE Refused(e) \/ Verify(e)
  BY <1>6, <1>9 DEF Refused, Verify
<1>10. CASE Record(e)
  <2>1. CASE to(IF exec[e].stop THEN Ended(exec[e])
                ELSE [NotRunning EXCEPT !.pc = "next", !.plan = exec[e].plan, !.in = Into(exec[e]), !.todo = exec[e].todo])
    <3>1. [NotRunning EXCEPT !.pc = "next", !.plan = exec[e].plan, !.in = Into(exec[e]), !.todo = exec[e].todo].pc = "next"
      BY <1>0 DEF Exec
    <3> QED BY <1>1, <1>4, <2>1, <3>1
  <2>2. CASE to([exec[e] EXCEPT !.in = Into(exec[e]), !.out = "failed"])
    <3>1. [exec[e] EXCEPT !.in = Into(exec[e]), !.out = "failed"].pc = "record"
      BY <1>0, <1>10 DEF Record, Exec
    <3> QED BY <1>1, <2>2, <3>1
  <2> QED BY <1>10, <2>1, <2>2 DEF Record
<1>11. CASE End(e)
  BY <1>0, <1>11 DEF End, Exec
<1>12. CASE Close(e) \/ Die(e)
  BY <1>0, <1>1, <1>12 DEF Close, Die
<1> QED BY <1>2, <1>3, <1>5, <1>7, <1>8, <1>9, <1>10, <1>11, <1>12, <1>13 DEF Step

\* What a plan saw when it was built is never rewritten.
LEMMA BeforeStays ==
  ASSUME Inv, Next, NEW p \in Plan, plan[p] # "none", NEW r \in Row
  PROVE  rows'[p][r].before = rows[p][r].before
<1>0. rows \in [Plan -> [Row -> PlanRow]] /\ exec \in [Executor -> Exec] /\ review \in [Reviewer -> Review]
  BY DEF Inv, TypeOK
<1>1. ASSUME NEW q \in Plan, NEW n \in Row, NEW s \in RowStatus,
             rows' = [rows EXCEPT ![q][n].status = s]
      PROVE  rows'[p][r].before = rows[p][r].before
  <2>1. rows' = WithStatus(q, n, s)
    BY <1>1 DEF WithStatus
  <2> QED BY <1>0, <2>1, SetStatus
<1>2. ASSUME NEW q \in Plan, Build(q) PROVE rows'[p][r].before = rows[p][r].before
  BY <1>0, <1>2 DEF Build
<1>3. ASSUME NEW o \in Reviewer, Mark(o) PROVE rows'[p][r].before = rows[p][r].before
  <2>1. PICK n \in Row : rows' = [rows EXCEPT ![review[o].plan][n].status = review[o].as]
    BY <1>3 DEF Mark
  <2>2. review[o].plan \in Plan /\ review[o].as \in RowStatus
    BY <1>0, <1>3 DEF Mark, Inv, Reviewed, Review, RowStatus
  <2> QED BY <1>1, <2>1, <2>2
<1>4. ASSUME NEW e \in Executor, Record(e) PROVE rows'[p][r].before = rows[p][r].before
  <2>1. exec[e].plan \in Plan /\ exec[e].at \in Row /\ exec[e].out \in RowStatus
    BY <1>0, <1>4 DEF Record, Inv, Knows, Good, Exec
  <2>2. rows' = [rows EXCEPT ![exec[e].plan][exec[e].at].status = exec[e].out]
    BY <1>4 DEF Record
  <2> QED BY <1>1, <2>1, <2>2
<1>5. ASSUME NEW e \in Executor, Step(e), ~Record(e) PROVE rows' = rows
  BY <1>5 DEF Step, Begin, NextRow, LookCreate, LookUpdate, Apply, Refused, Verify, End, Close, Die
<1> QED BY <1>2, <1>3, <1>4, <1>5 DEF Next, StartReview, Load, Edit

LEMMA LookedStays ==
  ASSUME Inv, Inv', AllLooked, [Next]_vars
  PROVE  AllLooked'
<1> SUFFICES ASSUME NEW e \in Executor, exec'[e].pc = "write", exec'[e].at \notin Creates, ~exec'[e].moved
             PROVE  record'[exec'[e].at] \in {rows'[exec'[e].plan][exec'[e].at].before, "new"}
  BY DEF AllLooked, Looked
<1>0. /\ exec \in [Executor -> Exec] /\ exec[e] \in Exec /\ record \in [Row -> Value]
      /\ exec[e].pc # "idle" => exec[e].plan \in Plan /\ plan[exec[e].plan] # "none"
  BY DEF Inv, TypeOK, Knows, Started, Good
<1>1. CASE UNCHANGED vars
  BY <1>1 DEF vars, AllLooked, Looked
<1>2. CASE exec'[e] = exec[e] /\ Next
  <2>1. /\ exec[e].pc = "write" /\ exec[e].plan \in Plan /\ exec[e].at \in Row
        /\ plan[exec[e].plan] # "none"
        /\ record[exec[e].at] \in {rows[exec[e].plan][exec[e].at].before, "new"}
    BY <1>0, <1>2 DEF AllLooked, Looked, Exec
  <2>2. rows'[exec[e].plan][exec[e].at].before = rows[exec[e].plan][exec[e].at].before
    BY <1>2, <2>1, BeforeStays
  <2>3. record'[exec[e].at] \in {record[exec[e].at], "new"}
    <3>1. ASSUME NEW r \in Row, NEW v \in Value, Edit(r, v) PROVE record'[exec[e].at] = record[exec[e].at]
      <4>1. CASE exec[e].at = r
        <5>1. exec'[e] = [exec[e] EXCEPT !.moved = TRUE]
          BY <2>1, <3>1, <4>1 DEF Edit
        <5>2. exec'[e].moved
          BY <1>0, <5>1 DEF Exec
        <5> QED BY <5>2
      <4>2. CASE exec[e].at # r
        BY <1>0, <3>1, <4>2 DEF Edit
      <4> QED BY <4>1, <4>2
    <3>2. ASSUME NEW f \in Executor, Step(f) PROVE record'[exec[e].at] \in {record[exec[e].at], "new"}
      <4>1. CASE Apply(f)
        BY <1>0, <2>1, <4>1 DEF Apply
      <4>2. CASE ~Apply(f)
        BY <3>2, <4>2 DEF Step, Begin, NextRow, LookCreate, LookUpdate, Refused, Verify, Record, End, Close, Die
      <4> QED BY <4>1, <4>2
    <3> QED BY <1>2, <3>1, <3>2 DEF Next, Build, StartReview, Load, Mark
  <2> QED BY <1>2, <2>1, <2>2, <2>3
<1>3. CASE exec'[e] # exec[e] /\ Next
  <2>1. CASE Step(e) \/ \E p \in Plan : Load(e, p)
    <3>1. /\ exec'[e].at = exec[e].at /\ exec'[e].plan = exec[e].plan
          /\ UNCHANGED <<plan, rows, record, made>>
          /\ record[exec[e].at] = rows[exec[e].plan][exec[e].at].before
      BY <2>1, WriteFollowsLook
    <3> QED BY <3>1
  <2>2. ASSUME NEW f \in Executor, f # e, Step(f) \/ \E p \in Plan : Load(f, p) PROVE FALSE
    BY <1>3, <2>2, WriteFollowsLook
  <2>3. ASSUME NEW r \in Row, NEW v \in Value, Edit(r, v) PROVE FALSE
    <3>1. exec'[e] = [exec[e] EXCEPT !.moved = TRUE]
      BY <1>3, <2>3 DEF Edit
    <3>2. exec'[e].moved
      BY <1>0, <3>1 DEF Exec
    <3> QED BY <3>2
  <2> QED BY <1>3, <2>1, <2>2, <2>3 DEF Next, Build, StartReview, Mark
<1> QED BY <1>1, <1>2, <1>3

\* A value that the plan did not see is not written over, with any number of
\* executions at once, unless a person set it after what the execution was answered
\* with was read from Autotask: by its own read, or by the one that left the copy.
THEOREM OldIsKept == Spec => NotOverwritten
<1>1. Init => AllLooked
  BY Idle DEF Init, AllLooked, Looked
<1>2. AllLooked /\ Inv /\ Inv' /\ [Next]_vars => AllLooked'
  BY LookedStays
<1> DEFINE Kept == \A r \in Row \ Creates, e \in Executor :
             /\ exec[e].pc = "write" /\ exec'[e].pc # "write" /\ exec[e].at = r
             /\ record'[r] # record[r] /\ ~exec[e].moved
             => record[r] = rows[exec[e].plan][r].before
<1>3. ASSUME Inv, AllLooked, [Next]_vars PROVE [Kept]_vars
  <2> SUFFICES ASSUME Next, NEW e \in Executor, exec[e].pc = "write", exec'[e].pc # "write",
                      exec[e].at \in Row \ Creates, record'[exec[e].at] # record[exec[e].at], ~exec[e].moved
               PROVE  record[exec[e].at] = rows[exec[e].plan][exec[e].at].before
    BY <1>3 DEF vars
  <2>0. exec \in [Executor -> Exec] /\ exec[e] \in Exec /\ record \in [Row -> Value]
    BY <1>3 DEF Inv, TypeOK
  <2>1. Step(e)
    <3>1. ASSUME NEW r \in Row, NEW v \in Value, Edit(r, v) PROVE FALSE
      <4>1. exec'[e] = exec[e] \/ exec'[e] = [exec[e] EXCEPT !.moved = TRUE]
        BY <3>1 DEF Edit
      <4>2. exec'[e].pc = exec[e].pc
        BY <2>0, <4>1 DEF Exec
      <4> QED BY <4>2
    <3>2. ASSUME NEW f \in Executor, Step(f) PROVE f = e
      BY <1>3, <3>2, WriteFollowsLook
    <3> QED BY <3>1, <3>2 DEF Next, Build, StartReview, Load, Mark
  <2>2. Apply(e)
    BY <2>1 DEF Step, Begin, NextRow, LookCreate, LookUpdate, Refused, Verify, Record, End, Close, Die
  <2>3. record'[exec[e].at] = "new"
    BY <2>0, <2>2 DEF Apply
  <2> QED BY <1>3, <2>3 DEF AllLooked, Looked
<1>4. NotOverwritten <=> [][Kept]_vars
  BY DEF NotOverwritten
<1> QED BY <1>1, <1>2, <1>3, <1>4, Invariance, PTL DEF Spec

\* No two executions are between the look for a record and its create at once.
CreatesAlone ==
  \A e, f \in Executor :
    /\ exec[e].pc = "write" /\ exec[f].pc = "write"
    /\ exec[e].at = exec[f].at /\ exec[e].at \in Creates
    => e = f

\* "Re-running is safe", and how far: with any number of executions of the same and of
\* other plans, nothing that is lost, dies, fails or is approved again makes a record be
\* created twice, unless two executions find it missing before either has created it
\* (findExisting, then create).
THEOREM OnlyOverlappingCreatesRepeat == Spec /\ []CreatesAlone => []CreatedOnce
<1>1. Init => CreatedOnce /\ NotThere
  BY Idle, ChangePlanAssumption DEF Init, CreatedOnce, NotThere
<1>2. ASSUME Inv, CreatesAlone, CreatedOnce, NotThere, [Next]_vars PROVE CreatedOnce' /\ NotThere'
  <2>0. made \in [Row -> Nat] /\ exec \in [Executor -> Exec]
    BY <1>2 DEF Inv, TypeOK
  <2>1. CASE UNCHANGED vars
    BY <1>2, <2>1 DEF vars, CreatedOnce, NotThere
  <2>2. ASSUME NEW e \in Executor, Apply(e) PROVE CreatedOnce' /\ NotThere'
    <3>1. exec[e].at \in Row /\ exec[e].pc = "write"
      BY <2>0, <2>2 DEF Apply, Exec
    <3>2. CreatedOnce'
      <4>1. CASE exec[e].at \in Creates
        <5>1. made[exec[e].at] = 0 /\ made' = [made EXCEPT ![exec[e].at] = @ + 1]
          BY <1>2, <2>2, <3>1, <4>1 DEF NotThere, Apply
        <5> QED BY <1>2, <2>0, <3>1, <5>1, ChangePlanAssumption DEF CreatedOnce
      <4>2. CASE exec[e].at \notin Creates
        BY <1>2, <2>2, <4>2 DEF Apply, CreatedOnce
      <4> QED BY <4>1, <4>2
    <3>3. exec'[e].pc # "write" /\ \A f \in Executor : f # e => exec'[f] = exec[f]
      BY <2>0, <2>2 DEF Apply, Goto, Got, Exec
    <3>4. \A r \in Row : made'[r] = made[r] \/ (r = exec[e].at /\ r \in Creates)
      BY <2>0, <2>2, <3>1 DEF Apply
    <3>5. \A f \in Executor : exec[f].at \in Row
      BY <2>0 DEF Exec
    <3>6. NotThere'
      BY <1>2, <3>1, <3>3, <3>4, <3>5 DEF NotThere, CreatesAlone
    <3> QED BY <3>2, <3>6
  <2>3. ASSUME NEW e \in Executor, Step(e) \/ \E p \in Plan : Load(e, p), ~Apply(e)
        PROVE  CreatedOnce' /\ NotThere'
    <3>1. made' = made
      BY <2>3 DEF Step, Load, Begin, NextRow, LookCreate, LookUpdate, Refused, Verify, Record, End, Close, Die
    <3>2. /\ \A f \in Executor : f # e => exec'[f] = exec[f]
          /\ exec'[e].pc = "write" => /\ exec'[e].at = exec[e].at
                                      /\ exec[e].at \in Creates => made[exec[e].at] = 0
      BY <1>2, <2>3, WriteFollowsLook
    <3> QED BY <1>2, <3>1, <3>2 DEF CreatedOnce, NotThere
  <2>4. ASSUME NEW r \in Row, NEW v \in Value, Edit(r, v) PROVE CreatedOnce' /\ NotThere'
    <3>1. made' = made
      BY <2>4 DEF Edit
    <3>2. \A e \in Executor : exec'[e] = exec[e] \/ exec'[e] = [exec[e] EXCEPT !.moved = TRUE]
      BY <2>4 DEF Edit
    <3>3. \A e \in Executor : exec'[e].pc = exec[e].pc /\ exec'[e].at = exec[e].at
      BY <2>0, <3>2 DEF Exec
    <3> QED BY <1>2, <3>1, <3>3 DEF CreatedOnce, NotThere
  <2>5. CASE UNCHANGED <<made, exec>>
    BY <1>2, <2>5 DEF CreatedOnce, NotThere
  <2> QED BY <1>2, <2>1, <2>2, <2>3, <2>4, <2>5 DEF Next, Build, StartReview, Mark, Step
<1> QED BY <1>1, <1>2, Invariance, PTL DEF Spec

\* One execution at a time never overlaps with another: each record is created once,
\* in any number of plans.
THEOREM OneAtATime ==
  ASSUME \A e, f \in Executor : e = f
  PROVE  Spec => []CreatedOnce
<1>1. CreatesAlone
  BY DEF CreatesAlone
<1> QED BY <1>1, OnlyOverlappingCreatesRepeat, PTL
=============================================================================
