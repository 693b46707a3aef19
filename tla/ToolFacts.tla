------------------------------ MODULE ToolFacts ------------------------------
(***************************************************************************)
(* What the gates of ToolCalls rely on: that the hand-kept lists and hints *)
(* of ToolTable agree with what the handlers of ToolHandlers do.  The      *)
(* facts are about the tables alone, every tool under every name and with  *)
(* every method, and depend on no CONSTANT: TLC evaluates them in full,    *)
(* and the proofs build on them.                                           *)
(***************************************************************************)
EXTENDS ToolCalls

\* The programs of a tool, called directly and through execute_tool.
Programs(t) == {ProgramOf(t, n, m) : n \in {t, "execute_tool"}, m \in {"GET", "POST", "PATCH", "DELETE"}}

\* A program is not empty, ends before an early return would land, and no jump leaves it backwards.
Runs(p) ==
  /\ Len(p) \in 1..(Returns - 1)
  /\ \A i \in 1..Len(p) :
       /\ p[i].op \in Writes \cup {"read", "peek", "ends", "dry", "dryFirst", "fork", "jump"}
       /\ p[i].fails \in 0..Returns
       /\ p[i].by \in (1 - i)..Returns

\* A program that changes nothing in Autotask.
Quiet(p) == \A i \in 1..Len(p) : p[i].op \notin Writes

\* Step d returns the plan of a dry run; before it nothing is written and no path leads past it.
PlansAt(p, d, Ops) ==
  /\ p[d].op \in Ops
  /\ \A i \in 1..(d - 1) :
       /\ p[i].op \notin Writes
       /\ i + p[i].by <= d
       /\ i + p[i].fails \notin (d + 1)..Len(p)
PlansFirst(p, Ops) == Quiet(p) \/ \E d \in 1..Len(p) : PlansAt(p, d, Ops)

\* Every program stays within its steps.
ASSUME ProgramsRun == \A t \in AllTools : \A p \in Programs(t) : Runs(p)

\* The switch for write tools covers every tool that writes but change_plan_execute.
ASSUME WritersSwitched ==
  \A t \in AllTools \ {"change_plan_execute"} : \A p \in Programs(t) : Quiet(p) \/ Blocked(t, FALSE, {})

\* Every tool that writes counts as mutating, but the three with gates of their own or none.
ASSUME WritersMutate ==
  \A t \in AllTools \ {"raw_request", "find_or_create_contact", "change_plan_execute"} :
    \A p \in Programs(t) : Quiet(p) \/ isMutatingTool(t)

\* A tool that offers dryRun returns its plan before it writes, also when it is a dry run by default.
ASSUME PreviewsPlan ==
  /\ \A t \in AllTools : Hints[t].dry => \A p \in Programs(t) : PlansFirst(p, {"dry", "dryFirst"})
  /\ DRY_RUN_FIRST_TOOLS \subseteq AllTools
  /\ \A t \in DRY_RUN_FIRST_TOOLS : \A p \in Programs(t) : PlansFirst(p, {"dryFirst"})
==============================================================================
