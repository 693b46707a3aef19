------------------------------ MODULE ToolCalls ------------------------------
(***************************************************************************)
(* One tool call from its arrival to its answer: dispatchToolCall of       *)
(* handlers/tool.handler.ts around the program of the tool                 *)
(* (ToolHandlers), behind the gates that ToolTable's classifications feed. *)
(*                                                                         *)
(* A client sends one logical request, once or twice: again after an       *)
(* answer, or twice at once (a double submit, a retry after its own        *)
(* timeout).  An administrator may turn write tools off meanwhile.  The    *)
(* gates are synchronous, so they are one action; every request to         *)
(* Autotask and every query to Postgres is a step of its own.  The claim   *)
(* of a durable key is atomic here: Operations takes it apart.             *)
(***************************************************************************)
EXTENDS ToolTable, ToolHandlers

CONSTANTS
  Requests,   \* the requests that are sent
  Switches    \* may an administrator turn write tools off?

Attempt == {"first", "second"}
\* tool, through execute_tool or not; method: of raw_request; key: none, derived from the
\* conversation or sent by the client; dry: dryRun left out, true or false; confirm: true was
\* sent; role: of the caller, "off" without permissions; pg: the operation log is on.
Request ==
  [tool : AllTools, via : BOOLEAN, method : {"GET", "POST", "PATCH", "DELETE"}, key : {"none", "derived", "explicit"},
   dry : {"unset", "yes", "no"}, confirm : BOOLEAN, pg : BOOLEAN,
   role : {"off", "unmapped"} \cup DOMAIN ROLE_MAX_RISK, sends : {"once", "again", "twice"}]

ASSUME ToolCallsAssumption ==
  /\ Requests \subseteq Request
  /\ \A r \in Requests : r.via => r.tool # "execute_tool"
  /\ Switches \in BOOLEAN

VARIABLES
  req,       \* the logical request
  writesOn,  \* the setting tools.writesEnabled
  row,       \* mcp_operation: the row of the request's key
  stored,    \* does the in-memory store hold a result of the request?
  call       \* the attempts

vars == <<req, writesOn, row, stored, call>>

\* ip: the step of the program.  on: writesOn when the gate was passed.  did: the kinds of
\* writes made.  beside: entities written by another path than their cache entries are kept
\* under.  behind: read one of those.  late: started after a result was returned.
NotCalled == [pc |-> "idle", ip |-> 0, on |-> TRUE, did |-> {}, beside |-> {},
              behind |-> FALSE, claimed |-> FALSE, late |-> FALSE, answer |-> "none"]

Init ==
  /\ req \in Requests
  /\ writesOn = TRUE /\ row = "free" /\ stored = FALSE
  /\ call = [a \in Attempt |-> NotCalled]

\* The name the pipeline sees: the arguments of the inner tool are execute_tool's own.
name == IF req.via THEN "execute_tool" ELSE req.tool
Answered(a, x) == call' = [call EXCEPT ![a].pc = "done", ![a].answer = x]
-----------------------------------------------------------------------------
(* The gates.                                                              *)

\* Mutant: the inner tool of execute_tool is not checked.
OuterOnly == {name}
\* The tools whose switches are checked: execute_tool checks the inner one again.
Switched == {name, req.tool}
SwitchedOff == \E t \in Switched : Blocked(t, writesOn, {})

\* Mutant: a caller whose role is unknown is not restricted.
KnownDenied == req.role \notin {"off", "unmapped"} /\ isMutatingTool(name) /\ ~evaluatePermission(req.role, classifyRisk(name))
\* Permissions are on, and the role does not allow the tool.
Denied ==
  /\ req.role # "off"
  /\ \/ isMutatingTool(name) /\ ~evaluatePermission(req.role, classifyRisk(name))
     \/ name = "raw_request" /\ req.role # "administrator"

\* evaluateRawRequest, without the environment's opt-ins: DELETE goes through a typed tool.
RawDenied == name = "raw_request" /\ req.method = "DELETE"

\* Mutant: a call that does not ask for execution is taken for a dry run, whatever the tool.
DryUnlessTold == ~req.via /\ req.dry # "no"
\* A dry run needs no confirm: dryRun true on any tool, or left out on a dry-run-first one.
isDryRunCall == ~req.via /\ (req.dry = "yes" \/ (name \in DRY_RUN_FIRST_TOOLS /\ req.dry # "no"))
Unconfirmed == requiresExplicitConfirmation(name) /\ ~req.confirm /\ ~isDryRunCall

\* A durable key is claimed before the tool runs; otherwise a key of a mutating tool
\* is looked up in memory.
Durable == req.pg /\ req.key = "explicit" /\ mayWrite(name, req.method)
Remembered == ~Durable /\ req.key # "none" /\ isMutatingTool(name)

\* Does the call wait for the caller's identity or role first?
Prepares == name \in ACTING_RESOURCE_TOOLS \cup ACTING_ROLE_FIELDS
Start(a) ==
  /\ call[a].pc = "idle"
  /\ a = "second" => \/ req.sends = "again" /\ call["first"].pc = "done"
                     \/ req.sends = "twice" /\ call["first"].pc # "idle"
  /\ IF SwitchedOff \/ Denied \/ RawDenied \/ Unconfirmed
     THEN Answered(a, "refused")
     ELSE call' = [call EXCEPT ![a].pc = IF Prepares THEN "prepare" ELSE "claim", ![a].on = writesOn,
                                ![a].late = \E b \in Attempt : call[b].answer = "ok"]
  /\ UNCHANGED <<req, writesOn, row, stored>>

\* The caller is found, or asked to identify himself, or the lookup throws.
Prepare(a) ==
  /\ call[a].pc = "prepare"
  /\ \/ call' = [call EXCEPT ![a].pc = "claim"]
     \/ Answered(a, "refused") \/ Answered(a, "error")
  /\ UNCHANGED <<req, writesOn, row, stored>>

\* Mutant: a key whose call is still running is taken over.
HalfDone == row = "partial"
\* The outcome of an earlier call is unknown, or it failed after writing.
InDoubt == row \in {"running", "partial"}

\* claim: a row is refused (in doubt), replayed (ok) or released and taken (error); a
\* query that fails ends the call.
Claim(a) ==
  /\ call[a].pc = "claim"
  /\ IF Durable /\ InDoubt THEN Answered(a, "refused") /\ UNCHANGED row
     ELSE IF Durable /\ row = "ok" THEN Answered(a, "replay") /\ UNCHANGED row
     ELSE /\ row' = IF Durable THEN "running" ELSE row
          /\ call' = [call EXCEPT ![a].pc = "lookup", ![a].claimed = Durable]
  /\ UNCHANGED <<req, writesOn, stored>>
ClaimFails(a) ==
  /\ call[a].pc = "claim" /\ Durable
  /\ Answered(a, "error")
  /\ UNCHANGED <<req, writesOn, row, stored>>

\* A remembered result is replayed; otherwise the tool runs.
Lookup(a) ==
  /\ call[a].pc = "lookup"
  /\ IF Remembered /\ stored THEN Answered(a, "replay")
     ELSE call' = [call EXCEPT ![a].pc = "run", ![a].ip = 1]
  /\ UNCHANGED <<req, writesOn, row, stored>>
-----------------------------------------------------------------------------
(* The program of the tool.                                                *)

\* A created record is read back after the tool, for the tools in VerifyRead.
verifyCreatedEntity(n) == IF n \in DOMAIN VerifyRead THEN Glance({VerifyRead[n]}) ELSE <<>>
\* What tool t sends when the pipeline sees the name n.
ProgramOf(t, n, method) ==
  (IF t = "raw_request" THEN raw_request(method) ELSE Dispatch[t]) \o verifyCreatedEntity(n)
Program == ProgramOf(req.tool, name, req.method)

\* The call goes on at step ip, or the tool has returned.
Goes(a, ip, c) ==
  call' = [call EXCEPT ![a] = IF ip > Len(Program) THEN [c EXCEPT !.pc = "return"] ELSE [c EXCEPT !.ip = ip]]

\* Entities whose cache entries outlive a write by another path (http-cache.ts).
Kept == {"Resources", "ResourceRoles", "Roles", "Departments", "BillingCodes", "InternalLocations",
         "ServiceBundles", "Services", "Products", "Companies", "CompanyLocations", "Contracts",
         "ContractServices", "Contacts"}
\* invalidateAfterWrite: the entries of the path's first segment go, and everything volatile.
Besides(c, s) == (c.beside \cup (s.on \cap Kept)) \ {s.root}

\* One request: it succeeds, or it fails and throws or is caught.
Send(a, s) ==
  LET c == call[a]
      read == [c EXCEPT !.behind = @ \/ (s.op = "read" /\ s.on \cap c.beside # {})]
      written == [c EXCEPT !.did = @ \cup {s.op}, !.beside = Besides(c, s)] IN
  \/ Goes(a, c.ip + 1, IF s.op \in Writes THEN written ELSE read)
  \/ s.fails > 0 /\ Goes(a, c.ip + s.fails, c)
  \/ s.fails = 0 /\ call' = [call EXCEPT ![a].pc = "throw"]

\* Mutant: a tool that is a dry run by default runs unless dryRun is true.
PlansWhenAsked(s) == s.op \in {"dry", "dryFirst"} /\ req.dry = "yes"
\* Does the handler return its plan at step s?
Plans(s) == (s.op = "dry" /\ req.dry = "yes") \/ (s.op = "dryFirst" /\ req.dry # "no")
\* Control: a return, a dry run, a branch.
Turn(a, s) ==
  LET c == call[a] IN
  CASE s.op = "ends" -> Goes(a, c.ip + 1, c) \/ Goes(a, c.ip + Returns, c)
    [] s.op \in {"dry", "dryFirst"} -> Goes(a, c.ip + (IF Plans(s) THEN Returns ELSE 1), c)
    [] s.op = "fork" -> Goes(a, c.ip + 1, c) \/ Goes(a, c.ip + s.by, c)
    [] s.op = "jump" -> Goes(a, c.ip + s.by, c)

Run(a) ==
  LET s == Program[call[a].ip] IN
  /\ call[a].pc = "run"
  /\ IF s.op \in Writes \cup {"read", "peek"} THEN Send(a, s) ELSE Turn(a, s)
  /\ UNCHANGED <<req, writesOn, row, stored>>
-----------------------------------------------------------------------------
(* The answer.                                                             *)

\* Mutant: a failure is an error, whatever was written.
AlwaysError(ok, did) == IF ok THEN "ok" ELSE "error"
\* Failed after writing is partial, before it is an error.
Outcome(ok, did) == IF ok THEN "ok" ELSE IF did # {} THEN "partial" ELSE "error"

\* The outcome is recorded: the row of a claimed key gets it, unless the query fails.
Finish(a) ==
  /\ call[a].pc \in {"return", "throw"}
  /\ \E ok \in IF call[a].pc = "throw" THEN {FALSE} ELSE IF name \in ReadNamed THEN BOOLEAN ELSE {TRUE} :
       /\ row' \in IF call[a].claimed THEN {row, Outcome(ok, call[a].did)} ELSE {row}
       /\ stored' = (stored \/ (ok /\ Remembered))
       /\ Answered(a, IF ok THEN "ok" ELSE "error")
  /\ UNCHANGED <<req, writesOn>>

\* The console turns write tools off; calls that passed the gate go on.
SwitchOff ==
  /\ Switches /\ writesOn
  /\ writesOn' = FALSE
  /\ UNCHANGED <<req, row, stored, call>>

Handle(a) == Start(a) \/ Prepare(a) \/ Claim(a) \/ ClaimFails(a) \/ Lookup(a) \/ Run(a) \/ Finish(a)
Next == SwitchOff \/ \E a \in Attempt : Handle(a)

Spec == Init /\ [][Next]_vars
-----------------------------------------------------------------------------
(* Properties.                                                             *)

Wrote(a) == call[a].did # {}

\* Types; and a claimed row is never free again, and only a run under a claim moves it.
TypeOK ==
  /\ req \in Request /\ writesOn \in BOOLEAN /\ stored \in BOOLEAN
  /\ row \in {"free", "running", "ok", "error", "partial"}
  /\ \A a \in Attempt :
       /\ call[a].pc \in {"idle", "prepare", "claim", "lookup", "run", "return", "throw", "done"}
       /\ call[a].did \subseteq Writes
       /\ call[a].pc = "run" => call[a].ip \in 1..Len(Program)
       /\ call[a].claimed /\ call[a].pc # "done" => row = "running"

\* "Allow write tools" is off (toolBlockReason): a call that starts then changes nothing
\* in Autotask, whichever tool it names and however the name reads, execute_tool
\* included.  change_plan_execute is told apart in ToolCallsReadOnly.
SwitchHolds == req.tool # "change_plan_execute" => \A a \in Attempt : ~call[a].on => ~Wrote(a)

\* The same of every tool ("True when a tool can change Autotask data.  Errs toward write").
ReadOnlyMode == \A a \in Attempt : ~call[a].on => ~Wrote(a)

\* The hints the client is given are true: a tool that says readOnlyHint writes nothing
\* on any path of its handler, and one that deletes says destructiveHint.  Of two that
\* delete otherwise one is raw_request, inside execute_tool (README), and one replaces
\* the excluded resources of a webhook, its own subrecords.
HintsTrue ==
  \A a \in Attempt :
    /\ Hints[req.tool].hint = "readOnly" => ~Wrote(a)
    /\ "delete" \in call[a].did =>
         Hints[req.tool].hint = "destructive" \/ req.tool \in {"raw_request", "set_webhook_excluded_resources"}

\* A dry run of a tool that offers one changes nothing, on any path of its handler; the
\* tools the gate takes for dry runs by default are dry runs by default.
DryRunIsDry ==
  (Hints[req.tool].dry /\ req.dry = "yes") \/ (req.tool \in DRY_RUN_FIRST_TOOLS /\ req.dry = "unset")
    => \A a \in Attempt : ~Wrote(a)

\* A tool whose risk needs it changes something only in a call with confirm:true: what
\* gets past the confirm gate as a dry run is one.  (dryRun sent to a tool that does
\* not offer it, and the inner tool of execute_tool, are in the README.)
ConfirmedFirst ==
  ~req.via /\ classifyRisk(req.tool) \in {"destructive", "financial", "inventory-movement"}
    /\ (req.dry = "yes" => Hints[req.tool].dry)
    => \A a \in Attempt : Wrote(a) => req.confirm

\* With permissions on, a typed tool that is called directly changes something only for a
\* role that its risk allows: every tool whose handler writes is mutating by its name
\* (isMutatingTool), which is what the gate asks.  find_or_create_contact and
\* change_plan_execute are not, and are in the README.
PermittedFirst ==
  /\ req.role # "off" /\ ~req.via
  /\ req.tool \notin {"raw_request", "find_or_create_contact", "change_plan_execute"}
  => \A a \in Attempt : Wrote(a) => evaluatePermission(req.role, classifyRisk(req.tool))

\* A repeated request is written once.  Under a durable key one attempt writes, whatever
\* fails; under a remembered key an attempt that starts after one has returned its
\* result does not write.
RetryWritesNothing ==
  /\ Durable => ~(Wrote("first") /\ Wrote("second"))
  /\ Remembered => \A a \in Attempt : call[a].late => ~Wrote(a)

\* No tool reads back, through the cache, what it has just written by a path that left
\* the cached entries in place: what it returns is not older than its own write.
ReadBackFresh == \A a \in Attempt : ~call[a].behind
==============================================================================
