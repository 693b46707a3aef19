----------------------------- MODULE MCToolCalls -----------------------------
EXTENDS ToolFacts

\* A request with everything left out, and its variations over the tools.
Bare(t) ==
  [tool |-> t, via |-> FALSE, method |-> "GET", key |-> "none", dry |-> "unset", confirm |-> FALSE,
   pg |-> FALSE, role |-> "off", sends |-> "once"]
DryRuns(t) == IF Hints[t].dry THEN {"unset", "yes", "no"} ELSE {"unset"}
Executes(t) == IF Hints[t].dry THEN "no" ELSE "unset"

\* Every tool, directly or through execute_tool, with and without confirm and dryRun.
ForGates ==
  UNION {{[Bare(t) EXCEPT !.via = v, !.dry = d, !.confirm = c, !.method = m] :
            v \in BOOLEAN \ (IF t = "execute_tool" THEN {TRUE} ELSE {}), d \in DryRuns(t),
            c \in IF requiresExplicitConfirmation(t) THEN BOOLEAN ELSE {FALSE},
            m \in IF t = "raw_request" THEN {"GET", "POST", "PATCH", "DELETE"} ELSE {"GET"}} : t \in AllTools}
\* Every tool, for callers of each kind of role.
ForRoles ==
  UNION {{[Bare(t) EXCEPT !.dry = Executes(t), !.confirm = TRUE, !.role = r, !.method = "POST"] :
            r \in {"unmapped", "staff", "sales", "executive", "administrator"}} : t \in AllTools}
\* Every tool that keys are for, repeated after its answer or sent twice at once.
ForRetries ==
  UNION {{[Bare(t) EXCEPT !.dry = Executes(t), !.confirm = TRUE, !.method = "POST", !.key = k, !.pg = p, !.sends = s] :
            k \in {"derived", "explicit"}, p \in BOOLEAN, s \in {"again", "twice"}} :
         t \in {t \in AllTools : mayWrite(t, "POST")}}
MCRequests == ForGates \cup ForRoles \cup ForRetries
==============================================================================
