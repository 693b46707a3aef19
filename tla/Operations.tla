------------------------------ MODULE Operations ------------------------------
(***************************************************************************)
(* Durable idempotency of tool calls: claim and finish of                  *)
(* src/src/db/operation-store.ts around the call that dispatchToolCall     *)
(* (src/src/handlers/tool.handler.ts) makes.                               *)
(*                                                                         *)
(* An attempt is one tool call with an idempotency key and a payload (tool *)
(* and argsDigest); its identity is its operationId.  claim is a loop of   *)
(* separate statements, so attempts of several processes interleave        *)
(* between them.  The table row of a key is what it is bound to.  While it *)
(* runs, an attempt writes to Autotask as often as its tool does; opScope  *)
(* notes a write when Autotask acknowledges it.                            *)
(***************************************************************************)
CONSTANTS
  Key, Payload,
  Attempt,     \* tool calls: operationIds
  Nobody,      \* no operation
  AnswersLost  \* may Autotask apply a write whose answer never arrives?

ASSUME OperationsAssumption ==
  /\ Nobody \notin Attempt
  /\ Key # {} /\ Payload # {}
  /\ AnswersLost \in BOOLEAN

VARIABLES
  row,    \* mcp_operation: the row of each key
  call,   \* the attempts
  wrote   \* history: the attempts that changed something in Autotask

vars == <<row, call, wrote>>

AnyKey == CHOOSE k \in Key : TRUE
AnyPayload == CHOOSE p \in Payload : TRUE
Status == {"running", "ok", "error", "partial"}
\* stale: started more than RUNNING_STALE_MS ago.
Row == [op : Attempt, payload : Payload, status : Status, stale : BOOLEAN]
NoRow == [op |-> Nobody, payload |-> AnyPayload, status |-> "error", stale |-> FALSE]
Answer == {"none", "ok", "error", "partial", "replay", "conflict", "in_progress", "incomplete"}
\* second: in the second and last round of claim's loop.
\* seen: the operation whose 'error' row is about to be deleted.
\* noted: opScope holds a write.  returned: the handler came back with a result.
Call == [pc : {"idle", "insert", "select", "delete", "run", "finish", "done"},
         key : Key, payload : Payload, second : BOOLEAN, seen : Attempt \cup {Nobody},
         noted : BOOLEAN, returned : BOOLEAN, answer : Answer]
NotCalled == [pc |-> "idle", key |-> AnyKey, payload |-> AnyPayload, second |-> FALSE,
              seen |-> Nobody, noted |-> FALSE, returned |-> FALSE, answer |-> "none"]

Free(k) == row[k].op = Nobody
Answered(a, x) == call' = [call EXCEPT ![a].pc = "done", ![a].answer = x]

Init == row = [k \in Key |-> NoRow] /\ call = [a \in Attempt |-> NotCalled] /\ wrote = {}
-----------------------------------------------------------------------------
(* claim.                                                                  *)

Arrive(a) ==
  /\ call[a].pc = "idle"
  /\ \E k \in Key, p \in Payload :
       call' = [call EXCEPT ![a] = [NotCalled EXCEPT !.pc = "insert", !.key = k, !.payload = p]]
  /\ UNCHANGED <<row, wrote>>

\* INSERT ... ON CONFLICT DO NOTHING.  Its answer may be lost with the connection.
Insert(a) ==
  LET k == call[a].key IN
  /\ call[a].pc = "insert"
  /\ IF Free(k)
     THEN /\ row' = [row EXCEPT ![k] = [op |-> a, payload |-> call[a].payload,
                                        status |-> "running", stale |-> FALSE]]
          /\ call' = [call EXCEPT ![a].pc = "run"] \/ Answered(a, "error")
     ELSE /\ call' = [call EXCEPT ![a].pc = "select"]
          /\ UNCHANGED row
  /\ UNCHANGED wrote

\* The next round of the loop, or "could not be claimed".
Again(a) ==
  IF ~call[a].second THEN call' = [call EXCEPT ![a].pc = "insert", ![a].second = TRUE]
  ELSE Answered(a, "error")

\* Mutant: a call that failed after writing is released like any failure.
ReleasesPartial(r) == r.status \in {"error", "partial"}
\* Failed before writing anything: the key may be claimed again.
Releases(r) == r.status = "error"

\* Mutant: the payload is not compared.
AnyPayloadDoes(r, p) == TRUE
SamePayload(r, p) == r.payload = p

\* What a repeat is told.
Refusal(r, p) ==
  CASE ~SamePayload(r, p)              -> "conflict"
    [] SamePayload(r, p) /\ r.status = "ok"      -> "replay"
    [] SamePayload(r, p) /\ r.status = "partial" -> "partial"
    [] OTHER -> IF r.stale THEN "incomplete" ELSE "in_progress"

Select(a) ==
  LET r == row[call[a].key] IN
  /\ call[a].pc = "select"
  /\ IF Free(call[a].key) THEN Again(a)
     ELSE IF Releases(r) THEN call' = [call EXCEPT ![a].pc = "delete", ![a].seen = r.op]
     ELSE Answered(a, Refusal(r, call[a].payload))
  /\ UNCHANGED <<row, wrote>>

\* Mutant: the DELETE goes by the key.
WhateverIsThere(r, seen) == TRUE
\* WHERE operation_id = the one seen AND it may still be released.
Deletes(r, seen) == r.op = seen /\ Releases(r)

\* The key is released, then claimed in the next round.
Delete(a) ==
  LET k == call[a].key IN
  /\ call[a].pc = "delete"
  /\ row' = IF Deletes(row[k], call[a].seen) THEN [row EXCEPT ![k] = NoRow] ELSE row
  /\ Again(a) \/ Answered(a, "error")
  /\ UNCHANGED wrote

\* A query fails: the call is refused, since its claim cannot be made.
ClaimFails(a) ==
  /\ call[a].pc \in {"insert", "select", "delete"}
  /\ Answered(a, "error")
  /\ UNCHANGED <<row, wrote>>
-----------------------------------------------------------------------------
(* The tool runs, and its operation is recorded.                           *)

\* A write is acknowledged and noted.
Write(a) ==
  /\ call[a].pc = "run"
  /\ wrote' = wrote \cup {a}
  /\ call' = [call EXCEPT ![a].noted = TRUE]
  /\ UNCHANGED row

\* A write times out and the handler throws.  Autotask may have applied the
\* write all the same, when AnswersLost; nothing is noted.
WriteLost(a) ==
  /\ call[a].pc = "run"
  /\ wrote' \in IF AnswersLost THEN {wrote, wrote \cup {a}} ELSE {wrote}
  /\ call' = [call EXCEPT ![a].pc = "finish"]
  /\ UNCHANGED row

\* The handler returns, throws (a refused write, a validation) or finds nothing.
End(a) ==
  /\ call[a].pc = "run"
  /\ \E back \in BOOLEAN : call' = [call EXCEPT ![a].pc = "finish", ![a].returned = back]
  /\ UNCHANGED <<row, wrote>>

\* Mutant: a failure is an error, whatever was written.
AllErrors(returned, noted) == IF returned THEN "ok" ELSE "error"
\* Failed after writing is partial, before it is an error.
Outcome(returned, noted) ==
  IF returned THEN "ok" ELSE IF noted THEN "partial" ELSE "error"

\* finish: the row gets the outcome, which is lost when the query fails; the
\* answer is lost when the process ends before it is sent.
Finish(a) ==
  LET k == call[a].key
      out == Outcome(call[a].returned, call[a].noted) IN
  /\ call[a].pc = "finish"
  /\ row' \in {row, IF row[k].op = a THEN [row EXCEPT ![k].status = out] ELSE row}
  /\ Answered(a, out) \/ Answered(a, "none")
  /\ UNCHANGED wrote

\* The process ends in the middle of a call.
Crash(a) ==
  /\ call[a].pc \notin {"idle", "done"}
  /\ Answered(a, "none")
  /\ UNCHANGED <<row, wrote>>

GetsStale(k) ==
  /\ ~Free(k) /\ row[k].status = "running" /\ ~row[k].stale
  /\ row' = [row EXCEPT ![k].stale = TRUE]
  /\ UNCHANGED <<call, wrote>>

Claim(a) == Insert(a) \/ Select(a) \/ Delete(a) \/ ClaimFails(a)
Run(a) == Write(a) \/ WriteLost(a) \/ End(a) \/ Finish(a)
Next == \/ \E a \in Attempt : Arrive(a) \/ Claim(a) \/ Run(a) \/ Crash(a)
        \/ \E k \in Key : GetsStale(k)

Spec == Init /\ [][Next]_vars
-----------------------------------------------------------------------------
(* Properties.                                                             *)

\* Rows and attempts keep their types, a row names an attempt on its key, and an
\* attempt that runs its tool is the one its key is bound to.
TypeOK ==
  /\ row \in [Key -> Row \cup {NoRow}]
  /\ call \in [Attempt -> Call]
  /\ wrote \subseteq Attempt
  /\ \A k \in Key : ~Free(k) => call[row[k].op].key = k
  /\ \A a \in Attempt : call[a].pc \in {"run", "finish"} => row[call[a].key].op = a

\* One logical action is written once: of all the attempts on a key, concurrent,
\* repeated or after a restart, at most one changes Autotask (claim).
WrittenOnce == \A a, b \in wrote : call[a].key = call[b].key => a = b

\* A replay is the stored result of the same action: some attempt on this key
\* with this payload ran to its end and returned a result.
ReplayIsTheSame ==
  \A a \in Attempt : call[a].answer = "replay" =>
    \E b \in Attempt \ {a} : /\ call[b].key = call[a].key /\ call[b].payload = call[a].payload
                             /\ call[b].returned

\* "Failed before writing anything: safe to run again": whoever releases a key
\* releases one under which nothing was written.
ReleasedIsClean ==
  [][\A k \in Key : ~Free(k) /\ row'[k].op # row[k].op => row[k].op \notin wrote]_vars

\* What the claim promises whoever repeats a call, as a specification of its own, also
\* when answers are lost: the attempt that holds the row is the one that writes, its row
\* is released only when nothing of it is noted or returned, and a replay is its result.
Promise == INSTANCE ClaimedKey WITH
  holder <- [k \in Key |-> row[k].op],
  noted <- {a \in Attempt : call[a].noted},
  returned <- {a \in Attempt : call[a].returned},
  repeated <- {a \in Attempt : call[a].answer = "replay"}
KeepsClaim == Promise!Spec
=============================================================================
