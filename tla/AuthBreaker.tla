------------------------------ MODULE AuthBreaker ------------------------------
(***************************************************************************)
(* The pause that keeps rejected logins from locking the Autotask API user *)
(* (authBlocks in src/src/services/autotask-http.ts), with the saved copy  *)
(* of it (db/auth-block-store.ts) and the administrator's "Retry now".     *)
(*                                                                         *)
(* A request runs to its next await in one step: it passes the gate and is *)
(* sent; its answer comes; after a first 401 the zone is looked up again   *)
(* and the login confirmed with ThresholdInformation.  Clocks are flags.   *)
(* A request is answered or times out within 60 s, less than the probe     *)
(* window (90 s) and the pause (300 s), but the zone lookup before it has  *)
(* no timeout (utils/config.ts): a deadline that passes although a probe   *)
(* or a check is still out is a fault.                                     *)
(***************************************************************************)
EXTENDS Naturals, FiniteSets

CONSTANTS
  Caller,     \* what sends requests
  Cred,       \* fingerprints of the credentials a process may start with
  MaxProbes,  \* AUTOTASK_AUTH_MAX_PROBES
  MaxFaults   \* bound: restarts, failed checks, late lookups, moved zones

ASSUME BreakerAssumption ==
  IsFiniteSet(Caller) /\ Cred # {} /\ MaxProbes \in Nat /\ MaxFaults \in Nat

VARIABLES
  block,     \* authBlocks.get(tenant)
  call,      \* the request of each caller
  cooldown,  \* the tenant's 429 cooldown
  cred,      \* credFp of the running process
  db,        \* the row of autotask_auth_block
  login,     \* Autotask: does it accept cred?
  spent,     \* history: rejected logins since they began or "Retry now"
  tested,    \* history: probes answered 401 since the tenant was last unblocked
            \* (after a restart, those the restored row stands for)
  faults     \* bound

vars == <<block, call, cooldown, cred, db, login, spent, tested, faults>>

Confirmed == {"pause", "held"}
Failures == 0..MaxProbes + 1
\* live: until > now.  probe: probeAt, and whether its window is still open.
Block == [kind : {"none", "provisional"} \cup Confirmed, live : BOOLEAN, failures : Failures,
          probe : {"none", "open", "past"}, fp : Cred]
Unconfirmed(kind, live) == [kind |-> kind, live |-> live, failures |-> 0, probe |-> "none",
                            fp |-> CHOOSE c \in Cred : TRUE]
NoBlock == Unconfirmed("none", FALSE)
\* The first 401 is being checked.
Provisional == Unconfirmed("provisional", TRUE)
\* late: its zone lookup outlasted a window or a pause.
Request == [pc : {"idle", "sent", "relook", "confirm"}, probing : BOOLEAN, late : BOOLEAN,
            isZoneRetry : BOOLEAN]
NoRequest == [pc |-> "idle", probing |-> FALSE, late |-> FALSE, isZoneRetry |-> FALSE]
Idle(c) == call' = [call EXCEPT ![c] = NoRequest]
\* A probe from probeAt on: the lookup before it is sent included.
Probing == {c \in Caller : call[c].pc = "sent" /\ call[c].probing}
OnTime == {c \in Probing : ~call[c].late}
Late == Probing \ OnTime
Checks == {c \in Caller : call[c].pc \in {"relook", "confirm"}}

Init ==
  /\ block = NoBlock /\ db = NoBlock /\ call = [c \in Caller |-> NoRequest]
  /\ cooldown = FALSE /\ cred \in Cred /\ login \in BOOLEAN
  /\ spent = 0 /\ tested = 0 /\ faults = 0

Fault == faults < MaxFaults /\ faults' = faults + 1
\* persist: saved in the background; the save may fail or be overtaken.
Persist(b) == db' \in {b, db}
-----------------------------------------------------------------------------
(* sendUngated: the gate.                                                  *)

\* A saved pause of other credentials no longer applies.
Mine(b) == IF b.kind \in Confirmed /\ b.fp # cred THEN NoBlock ELSE b

\* Mutants: a probe keeps everyone else waiting for ever, or nobody.
ProbeStays(b) == b.probe # "none"
ProbeIgnored(b) == FALSE
ProbeBusy(b) == b.probe = "open"
Closed(b) == b.kind # "none" /\ (b.live \/ ProbeBusy(b))

\* The request is sent; if there is a pause that has run out it is the probe.
\* In a 429 cooldown it is not sent, but probeAt is set by then.
Begin(c) ==
  LET b == Mine(block) IN
  /\ call[c].pc = "idle" /\ ~Closed(b)
  /\ block' = IF b.kind = "none" THEN b ELSE [b EXCEPT !.probe = "open"]
  /\ IF b # block THEN Persist(NoBlock) /\ tested' = 0 ELSE UNCHANGED <<db, tested>>
  /\ IF cooldown THEN UNCHANGED call
     ELSE call' = [call EXCEPT ![c] = [pc |-> "sent", probing |-> b.kind # "none",
                                         late |-> FALSE, isZoneRetry |-> FALSE]]
  /\ UNCHANGED <<cooldown, cred, login, spent, faults>>
-----------------------------------------------------------------------------
(* sendUngated: the answer.                                                *)

\* A 2xx with a body: the login works, the pause is over.
Accepted(c) ==
  LET ends == call[c].probing \/ block.kind = "provisional" IN
  /\ call[c].pc = "sent" /\ login
  /\ Idle(c)
  /\ block' = IF ends THEN NoBlock ELSE block
  /\ tested' = IF ends THEN 0 ELSE tested
  /\ IF call[c].probing /\ block.kind # "none" THEN Persist(NoBlock) ELSE UNCHANGED db
  /\ UNCHANGED <<cooldown, cred, login, spent, faults>>

\* Says nothing about the login: 204, 404, 5xx, 429, no answer.
Inconclusive(c) ==
  /\ call[c].pc = "sent"
  /\ Idle(c)
  /\ cooldown' \in {cooldown, TRUE}
  /\ UNCHANGED <<block, cred, db, login, spent, tested, faults>>

Spend(n) == spent' = IF login THEN spent ELSE spent + n

\* Mutants: calls that were in flight when the pause began escalate it too; one
\* test more than MaxProbes.
NeverCounted(b) == FALSE
HeldLate(n) == n > MaxProbes + 1
\* tripAuthBlock: a pause that runs already and has not been probed.
Counted(b) == b.kind \in Confirmed /\ b.live /\ b.probe = "none"
Held(n) == n > MaxProbes

\* A confirmed rejection.
Trip ==
  LET n == IF block.kind \in Confirmed THEN block.failures + 1 ELSE 1
      new == [kind |-> IF Held(n) THEN "held" ELSE "pause", live |-> TRUE,
              failures |-> n, probe |-> "none", fp |-> cred] IN
  IF Counted(block) THEN UNCHANGED <<block, db>> ELSE block' = new /\ Persist(new)

\* A 401: of the login, or of one entity this user may not read.  A probe's is
\* taken for a rejected login as it is.
ProbeRejected(c) ==
  /\ call[c].pc = "sent" /\ call[c].probing
  /\ Trip /\ Idle(c) /\ Spend(1)
  /\ tested' = IF tested > MaxProbes THEN tested ELSE tested + 1
  /\ UNCHANGED <<cooldown, cred, login, faults>>

\* While another request checks the login or the tenant is paused, that is all.
StragglerRejected(c) ==
  /\ call[c].pc = "sent" /\ ~call[c].probing /\ block.kind # "none"
  /\ Idle(c) /\ Spend(1)
  /\ UNCHANGED <<block, cooldown, cred, db, login, tested, faults>>

\* The first 401 stops every other request and starts the check.  The zone is not
\* looked up for an absolute path (the next page), nor for the retry.
FirstRejected(c) ==
  /\ call[c].pc = "sent" /\ ~call[c].probing /\ block.kind = "none"
  /\ block' = Provisional
  /\ \E step \in {"relook", "confirm"} :
       /\ call[c].isZoneRetry => step = "confirm"
       /\ call' = [call EXCEPT ![c].pc = step]
  /\ Spend(1)
  /\ UNCHANGED <<cooldown, cred, db, login, tested, faults>>

ZoneSame(c) ==
  /\ call[c].pc = "relook"
  /\ call' = [call EXCEPT ![c].pc = "confirm"]
  /\ UNCHANGED <<block, cooldown, cred, db, login, spent, tested, faults>>

\* The tenant moved: whatever block there is goes, and the request is sent again
\* (or not, in a cooldown).
ZoneMoved(c) ==
  /\ call[c].pc = "relook" /\ Fault
  /\ block' = NoBlock /\ tested' = 0
  /\ IF cooldown THEN Idle(c) ELSE call' = [call EXCEPT ![c].pc = "sent", ![c].isZoneRetry = TRUE]
  /\ UNCHANGED <<cooldown, cred, db, login, spent>>

\* credentialsRejected: ThresholdInformation answers 401 too.
ConfirmRejected(c) ==
  /\ call[c].pc = "confirm" /\ ~login
  /\ Trip /\ Idle(c) /\ Spend(1)
  /\ UNCHANGED <<cooldown, cred, login, tested, faults>>

\* It answers anything else, or (a fault) the check itself fails.
NotConfirmed(c) ==
  /\ call[c].pc = "confirm"
  /\ IF login THEN UNCHANGED faults ELSE Fault
  /\ block' = IF block.kind = "provisional" THEN NoBlock ELSE block
  /\ Idle(c)
  /\ UNCHANGED <<cooldown, cred, db, login, spent, tested>>
-----------------------------------------------------------------------------
(* Clocks, people, restarts, Autotask.                                     *)

Overdue == call' = [c \in Caller |-> [call[c] EXCEPT !.late = @ \/ c \in Probing]]
\* A deadline passes; those it should have waited for are out all the same.
PassedBy(out) == IF out = {} THEN UNCHANGED <<call, faults>> ELSE Fault /\ Overdue

PauseEnds ==
  /\ block.kind = "pause" /\ block.live /\ PassedBy(OnTime \cup Checks)
  /\ block' = [block EXCEPT !.live = FALSE]
  /\ UNCHANGED <<cooldown, cred, db, login, spent, tested>>

\* The check takes longer than PROVISIONAL_MS.
ProvisionalEnds ==
  /\ block.kind = "provisional" /\ block.live /\ Fault /\ Overdue
  /\ block' = [block EXCEPT !.live = FALSE]
  /\ UNCHANGED <<cooldown, cred, db, login, spent, tested>>

\* From here on another call may be the probe, whether this one was answered or not.
ProbeWindowEnds ==
  /\ block.probe = "open" /\ PassedBy(OnTime)
  /\ block' = [block EXCEPT !.probe = "past"]
  /\ UNCHANGED <<cooldown, cred, db, login, spent, tested>>

CooldownEnds ==
  /\ cooldown /\ cooldown' = FALSE
  /\ UNCHANGED <<block, call, cred, db, login, spent, tested, faults>>

\* clearAuthBlock: "Retry now".
RetryNow ==
  /\ block.kind # "none"
  /\ block' = NoBlock /\ Persist(NoBlock) /\ spent' = 0 /\ tested' = 0
  /\ UNCHANGED <<call, cooldown, cred, login, faults>>

\* A new process, perhaps with other credentials: restoreAuthBlocks, from the
\* saved row (a pause may have run out by now), or from nothing when the load fails.
Restart ==
  /\ Fault
  /\ call' = [c \in Caller |-> NoRequest] /\ cooldown' = FALSE
  /\ \/ block' = NoBlock
     \/ \E live \in BOOLEAN : block' = [db EXCEPT !.live = db.kind = "held" \/ (db.kind = "pause" /\ live)]
  /\ cred' \in Cred
  /\ IF cred' = cred THEN UNCHANGED <<login, spent>> ELSE login' \in BOOLEAN /\ spent' = 0
  /\ tested' = IF block'.failures = 0 THEN 0 ELSE block'.failures - 1
  /\ UNCHANGED db

LoginBreaks ==
  /\ login /\ login' = FALSE /\ spent' = 0
  /\ UNCHANGED <<block, call, cooldown, cred, db, tested, faults>>

LoginFixed ==
  /\ ~login /\ login' = TRUE
  /\ UNCHANGED <<block, call, cooldown, cred, db, spent, tested, faults>>

Respond(c) == \/ Accepted(c) \/ Inconclusive(c)
              \/ ProbeRejected(c) \/ StragglerRejected(c) \/ FirstRejected(c)
              \/ ZoneSame(c) \/ ZoneMoved(c) \/ ConfirmRejected(c) \/ NotConfirmed(c)
Clock == PauseEnds \/ ProvisionalEnds \/ ProbeWindowEnds \/ CooldownEnds
World == RetryNow \/ Restart \/ LoginBreaks \/ LoginFixed
Next == (\E c \in Caller : Begin(c) \/ Respond(c)) \/ Clock \/ World

Spec == Init /\ [][Next]_vars

(* Requests keep coming and are answered, time passes.  Autotask does not  *)
(* answer an accepted login inconclusively for ever.                       *)
Fairness ==
  /\ \A c \in Caller : WF_vars(Begin(c)) /\ WF_vars(Respond(c)) /\ SF_vars(Accepted(c))
  /\ WF_vars(PauseEnds) /\ WF_vars(ProbeWindowEnds) /\ WF_vars(CooldownEnds)
FairSpec == Spec /\ Fairness
-----------------------------------------------------------------------------
(* Properties.                                                             *)

\* Every variable keeps its type; a hold is the one block that never ends.
TypeOK ==
  /\ block \in Block /\ db \in Block /\ call \in [Caller -> Request]
  /\ cooldown \in BOOLEAN /\ cred \in Cred /\ login \in BOOLEAN
  /\ spent \in Nat /\ tested \in 0..MaxProbes + 1 /\ faults \in 0..MaxFaults
  /\ block.kind = "held" => block.live

\* Autotask locks a user after too many failed logins (the comment above
\* AuthBlock): what was in flight, one check and MaxProbes tests are all that is
\* spent until a person acts; each fault allows as many again.
LoginsBounded ==
  spent <= (faults + 1) * (Cardinality(Caller) + 1 + MaxProbes)

\* After a pause a single call tests the login and the others wait for its window
\* (probeAt); a second one is let in only beside a probe whose zone lookup outlasted
\* it, and each of these took a fault.
OneProbe == (\A c, d \in OnTime : c = d) /\ Cardinality(Late) <= faults

\* Only a test that failed makes the pause longer: calls that were in flight when
\* it began, and late checks, do not bring the tenant closer to a hold, unless the
\* check outlasts the whole pause (a fault).
OnlyProbesEscalate == block.kind \in Confirmed => block.failures <= tested + 1 + faults

\* Once Autotask accepts the login again, a pause ends by itself (a hold does not).
Recovers == <>[]login => []<>(block.kind \in {"none", "held"})
=============================================================================
