# PSArelay in TLA+

PSArelay is an MCP server between AI assistants and the Autotask PSA REST API. It is one Node process with a single-threaded event
loop, an optional Postgres store, an admin console and a few background loops. What makes it hard is not any one handler. Every
handler awaits many times, and between two awaits other tool calls, the console, a background loop, Autotask's own users or a restart
may change what it has read; Autotask throttles (three calls at a time per endpoint, 429), locks its API user after too many rejected
logins, and applies writes whose answers never arrive. The modules here model the parts where that matters most: what each of the 300
tools asks of Autotask and which gates it passes, what mass changes, repeated calls and plans write, the client all of them go through,
and the mirror many reads are answered from. Paths are relative to the repository; the
program's own code is in `src/src`.

## 1. The system

### Components, their state and operations

| component | state | operations | must hold | status |
|---|---|---|---|---|
| Bulk jobs `bulk/{store,service,worker,tools}.ts` | `bulk_job`, `bulk_job_item`; in memory: busy flag, failure streak | prepare (background), approve by hash, start, pause, resume, cancel, retry_failed, archive, the worker's tick | only approved records are written; canary; failure pause; honest report; a running job settles | **BulkJob**, **ApprovedBatch** |
| Endpoint gate `services/autotask-http.ts` 120–140, 524–545 | `active`, `waiting` per endpoint | take a slot, wait, hand on | never more than the limit, no lost wake-up, no leaked slot | **EndpointGate** |
| Read cache `services/http-cache.ts` | entries by key, in-flight reads | cachedRead, invalidateAfterWrite, switch | no stale answer after a write, misses not cached | **ReadCache** |
| Login pause `services/autotask-http.ts` 140–420, 547–720; `db/auth-block-store.ts` | block per tenant, probe, saved row | gate, first 401 check, probe, hold, restore, Retry now | few rejected logins; one probe; recovers | **AuthBreaker** |
| Operation log `db/operation-store.ts`, `utils/operation-context.ts`, the dispatcher | `mcp_operation` | claim, run, finish | one logical action writes once; replays are the same | **Operations**, **ClaimedKey** |
| Change plans `change-plans/*.ts`, `vendors/catalog-tools.ts` | `change_plan`, `change_plan_row` | build (supersede), review, execute, revert | dependencies, no overwriting, honest rows, no double create | **ChangePlan** |
| Tools and dispatch `handlers/tool.{definitions,handler}.ts`, `utils/{idempotency,operations,permissions,raw-gate,risk}.ts` | the in-memory key store | 300 handlers; gates, claim, run, read back, record | the gates know what a tool does: nothing is written unconfirmed, unpermitted, in a dry run, or twice | **ToolTable**, **ToolHandlers**, **ToolCalls** |
| Service operations `services/autotask.service.ts` | none of their own | some 270 methods, each one or several requests | no partial work is reported whole; nothing stale is read back | **ServiceRequests**, **ServiceRecords** |
| Settings and tool gate `admin/{settings,tool-gate}.ts` | values, read on every call | switch write tools off | read-only means read-only | **ToolTable**, **ToolCalls** |
| Shadow mirror `db/shadow-*.ts` | mirrored rows, watermark, dirty ids, call budget | sync, refresh, reconcile, verify, serve reads | what is not read again is right; own writes are read live; the mirror catches up | **ShadowMirror** (one incremental entity) |
| Commerce orders `commerce/*.ts` | `commerce_order` | create (with a plan), track, mark_paid, cancel | a cancel or a payment is final; orders reach paid | planned |
| Notifications `services/notif*.ts` | lastSent, watch state | emit, send, watch | an event is not lost; "cleared" is true | planned |
| Audit ledger and feed `db/{audit-*,activity-feed,history-backfill,webhook-ingest}.ts` | `audit_event`, checkpoints, jobs | ingest, collect, page, backfill | nothing is missed between two pages or two runs | planned |
| Admin accounts `admin/{store,server}.ts` | `admin_user`, `admin_session` | sign in, set password, demote, delete | never without an administrator; a changed password ends sessions | planned |
| Backpressure and schedule `services/backpressure.ts`, `bulk/{schedule,patient}.ts` | none (pure); waited time | verdict, quiet hours, best window, wait out a throttle | boundaries | planned |
| Name and picklist caches `utils/mapping.service.ts`, `services/picklist.cache.ts` | shared maps, in-flight loads | load, clear, refresh | a failed load is not kept for ever | planned |
| Migrations `db/migrate.ts` | `schema_migrations` | apply under a lock | each file once, no drift | planned, small |
| Merge, vendor billing `merge/*`, `vendors/*` | documents, runs, decisions | import, reconcile, propose rows | pure classification; their writes go through change plans | not modelled |
| Call log, gaps | counters, single rows | single updates | nothing spans two steps | not modelled |
| Reports, transports, generated code | none of their own | formatting, I/O | – | not modelled |

`PROJECT.json` lists every component with its files and reasons, and under `hazards` each hard-to-test spot at its line.

### How they interact

A tool call comes in through `mcp/server.ts`, passes the gates of `dispatchToolCall` (**ToolCalls** over **ToolTable**). With an
idempotency key it claims its operation (**Operations**), then runs its handler (**ToolHandlers**), which calls service methods
(**ServiceRequests**, **ServiceRecords**). Each of these is one or several requests through `AutotaskHttpClient.request`:
a read first asks the mirror (**ShadowMirror**) and the cache (**ReadCache**), then waits for an endpoint slot (**EndpointGate**), then passes the 429 cooldown and the
login pause (**AuthBreaker**); a write, once acknowledged, invalidates the cache, makes the mirror's row dirty and is noted in the operation scope. Mass changes are
not written by the call at all: the call prepares a job, and the worker loop writes it after a person's approval (**BulkJob**). Changes
computed by merge, catalogue and contract tools become rows of a plan that people review and execute (**ChangePlan**); an order follows
its plan. The console acts on the same rows as the tools. Components share data through Postgres rows (last writer wins, few updates
name a status they expect) and through per-tenant maps in memory that a restart loses.

## 2. Modules

Each module states its actors, its abstractions and its bounds in its header. `pc` fields mark the awaits: what runs between two awaits
is one action. Variables marked *history* record what happened for the properties and are not read by any guard. Definitions marked
*Mutant* are broken variants of the definition that follows them and are not part of any specification; each shows that the property
it belongs to would notice the bug.

**BulkJob** (`bulk/*.ts`). `job` and `item` are the two tables; `prep` and `sweep` the background preparation and the start-up UPDATE;
`worker` the tick with the row it read; `call` an operator's call, which read a row (`ReadJob`) and updates it later (`Act`), as
`jobAction` does when its caller read the job before. The tick is split as the code awaits: `Tick` (running job read, usage awaited),
`SendNext`/`Answer` (the PATCH), `RecordItem`, `RecordProgress`, `RecordStreakPause`. `SetStatus` writes unconditionally, as the
SQL does. The approval hash is the set of records it binds. `Possible` says which classification an applied or refused write may get; the
history `unclear` holds the records that were written although the answer was an error or never came. `Restart` and `QueryFails` may strike between any two steps.
**ApprovedBatch** is the abstract promise: approve a list, start, write from that list. BulkJob implements it with `written` and the
histories of approval and start as the mapping.

**EndpointGate**. The order of promise continuations decides whether the limit holds, so the microtask queue is a variable (`ready`).
A new event runs only on an empty queue; each continuation runs up to its next await. `Take` after a release is a continuation of its
own, as in `acquireEndpointSlot`, where the woken waiter counts itself only when it runs. The gate closes only on answers of its own
endpoint; the code's cooldown and login pause are the tenant's and may close it from elsewhere, on which no property here turns.

**ReadCache**. A key stands for one read and its result is a version, 0 for "not found" or empty. `Look` is the moment Autotask reads its
data, somewhere between request and answer; a new record may read as missing for a while (`lagging`). `Route` holds what a write's path
names first against what it really writes; `NamedFirst` are the keys whose writes all name their entity first, or that are volatile. TTLs
are one action (`Age`).

**AuthBreaker**. `block` is the entry of `authBlocks`, `db` its saved copy (saved in the background: it may fail or be overtaken). A
request passes the gate (`Begin`), is answered (`Accepted`, `Inconclusive`, one of the three `...Rejected`), and after a first 401 is
checked (`relook`, `confirm`). Clocks are flags. A request is answered or times out in 60 s, before the probe window (90 s) and the
shortest pause (300 s) end; but the zone lookup before it has no timeout (`utils/config.ts:276`), and `probeAt` is set before that lookup
(`autotask-http.ts:579`, `:594`). So both deadlines may pass with a probe or a check still out, which is then `late`; each time is a fault.

**Operations**. `row` is the table row of a key; an attempt walks through `claim`'s statements one by one (INSERT, SELECT, DELETE, two
rounds), runs its tool, and `Finish`es. Writes may happen any number of times while it runs; a write that times out is `WriteLost`, and
with `AnswersLost` Autotask may have applied it. **ClaimedKey** is the abstract promise of a key: one attempt at a time holds it, only the
holder writes, it is released only with nothing acknowledged or returned under it, and a repeat is told the holder's result. Operations
implements it with the rows' owners as holders.

**ChangePlan**. `plan` and `rows` are the tables; an execution holds what `executePlan` has in its locals (`in` is `statusNow`) and
walks row by row through read, write, read-back and record; a review first decides which rows it will change and then updates them one
at a time. People edit records in between. An execution reads the record of an update by id (`io.get` is `byId`,
`catalog-tools.ts:46-47`, over `http.get`), which the mirror or the read cache may answer (`Answered`): `copies` holds the older values
of each record that a copy may have, after any change (`Leaves`) until a write to the record is acknowledged; when a copy expires is
left open. A read that crosses the acknowledged write may still leave one. The builder, `findExisting` and the snapshots read with `noCache`. Plans are of one kind; `Load` may take any subset of the approved rows, which stands for the
caller's `rows`, the cap per call and rows held for a customer's notice.

**ToolPrograms** is the vocabulary of the next three: what a tool does toward Autotask is a *program*, a sequence of requests (reads,
reads no cache answers, writes with the entity and the first segment of their path), early returns, dry-run returns, branches and loops;
a request that fails throws, or jumps to where the code catches it. Jumps are relative, so programs concatenate as calls nest.
**ServiceRequests** (companies, tickets, time, projects, contracts, tasks) and **ServiceRecords** (the records around them) have one operator per method of `AutotaskService`, named as the method, and **ToolHandlers** one per handler of the
dispatch table that is more than a call of one method, and `Dispatch` from every tool to its program. Arguments are abstracted: a branch
on an argument, or on what a read returned, is a fork. Tool names are written without `autotask_`.

**ToolTable** is `TOOL_DEFINITIONS` as far as dispatch depends on it (hints, whether a tool has a `dryRun`), the categories and the
classifications made from names and lists: `isMutatingTool`, `isWriteTool`, `mayWrite`, `classifyRisk`, the roles, the tools that are dry
runs first. Prefix and verb patterns are given as the sets of names they match.

**ToolCalls** is `dispatchToolCall`. A request (tool, direct or through `execute_tool`, key, dryRun, confirm, role, operation log on or
off) is sent once, again after its answer, or twice at once, while an administrator may turn write tools off. The gates are one action
(`Start`, nothing is awaited in them); the caller's identity, the claim, each request of the program, the read-back of a created record
and the recorded outcome are steps. `beside` holds what was written by a path that leaves the entity's cache entries in place
(`invalidateAfterWrite` drops those of the path's first segment), `behind` that such an entity was then read through the cache.
**ToolFacts** states what the gates rely on: the switch for write tools covers every tool whose program writes (`WritersSwitched`),
`isMutatingTool` counts it (`WritersMutate`), and a tool that offers a dry run returns its plan before its first write on every path
(`PreviewsPlan`). These are assumptions about the tables, not about a CONSTANT: TLC evaluates each of them for every tool under every
name and method before the ToolCalls run starts, and the proofs use them as facts.

**ShadowMirror** is one backfilled entity with a modified stamp. The scheduled run takes the dirty rows, reads and stores them, then
walks the changed rows a page (one row) at a time and moves the watermark; a reconcile walks the ids and marks the unseen deleted; a
refresh reads one row again. Every read and every store is a step, and the last two are not under the run's lock, as in the code. Rows
are created in id order, edited and deleted meanwhile, by others and by the MCP. The clock goes on whatever is at work. `lost` and
`late` are histories: written rows whose re-read failed, and rows whose last change fell in the course of a run, a refresh or a reconcile
and more than the overlap before that stored, deleted or moved the watermark. A run counts from the beginning of what crosses it
(`Earliest`).

## 3. Runs

Twelve runs; a *violation* run shows one disagreement between the code and what the repository says of it.

| run | what it checks | distinct states |
|---|---|---|
| BulkJob | OnlyApprovedWritten, CanaryHolds, HonestReport, StreakStops; refinement KeepsPromise; liveness RunningSettles | 1,098,060 |
| BulkJobStop | *violation* of StopHolds | – |
| EndpointGate | SlotsCounted, UpstreamBounded, NoLostWaiter; liveness WaiterServed | 10,204 |
| ReadCache | StaleOnlyIfCrossed, FoundWhenThere | 3,913,726 |
| AuthBreaker | LoginsBounded, OneProbe, OnlyProbesEscalate; liveness Recovers | 326,468 |
| Operations | WrittenOnce, ReplayIsTheSame; refinement KeepsClaim; every write acknowledged | 34,072 |
| OperationsLost | *violation* of WrittenOnce when answers may be lost | – |
| ChangePlan | CreatedOnce, DependenciesIn, AppliedWasWritten, NotOverwritten | 13,230,111 |
| ToolCalls | SwitchHolds, HintsTrue, DryRunIsDry, ConfirmedFirst, PermittedFirst, RetryWritesNothing, ReadBackFresh | 476,447 |
| ToolCallsReadOnly | *violation* of ReadOnlyMode | – |
| ShadowMirror | NothingMissed, OldIsDirty; liveness CatchesUp | 2,056,464 |
| ShadowBudget | *violation* of BudgetRestored | – |

Every passing run but ShadowMirror also checks the module's `TypeOK`.

### What they show

- *Bulk.* Whatever rows calls act on and wherever the server restarts, only the approved list of a started job is written; the canary and
  the failure pause are at most one record off per fault. The report is honest: done was written, excluded was not, and a record shown
  as skipped or failed was not either, unless an earlier write of it was answered by an error or cut off (a record that a timed-out PATCH
  wrote and that was deleted before the retry reads as skipped). **BulkJobStop**: `record` writes status
  `running` after the write it awaited, so a pause or cancel made meanwhile is undone and the job runs on, while the person was told
  "nothing more is written until it is resumed".
- *Gate.* The limit holds although a woken waiter takes its slot late: an answer begins a turn of its own, so the woken call runs before
  anything else can reach the gate; a release in the middle of a turn belongs to a call that a pause refused, and the pause refuses the
  calls behind it as well. It needs `EndsMidTurn = FALSE`: a pause that runs out between two continuations of one turn of the loop admits
  one call too many. The turns are microseconds long; the constant names the assumption.
- *Cache.* Entries whose writes name them first are older than an acknowledged write only if their read was out at that moment.
  `crossed` is not hypothetical: such a read is stored, and shared, after the invalidation (`http-cache.ts:154`, `:164`), so a reader
  that starts after the write gets the old answer until the TTL ends, where the header promises that a write clears these entries (`:15`).
- *Login pause.* Rejected logins are bounded by the calls in flight, one check and the tests, until a person acts, and again as many per
  fault. Late 401s do not lengthen a pause, unless a check outlasts all of it (a fault). One call tests the login and the others wait for
  its window; a probe whose zone lookup outlasts the window lets a second one in beside it (`:563`), at most one for each fault. When the login works again a pause ends, or was turned into a hold. A probe's 401 counts
  without the check that the first 401 gets (`autotask-http.ts:695`), so a probe that reads an entity this user may not escalates a pause
  although the login is fine; Recovers therefore excepts the hold.
- *Idempotency.* One attempt per key writes, through concurrent claims, failed queries and crashes, and a key is not released once a write
  was acknowledged (KeepsClaim). **OperationsLost**: a write that
  timed out but was applied is not noted, the key is released, and the retry writes again.
- *Plans.* Rows wait for what they depend on across runs, reviews and failures; a value nobody planned against is not overwritten, if it
  was set before the reading that the execution was answered with; what reads "applied" was written; plans executed one at a time create a record once, and so do any that do not look for the same record at
  the same time (proved). A row whose answer was lost, approved again and found
  in place is recorded as skipped and left out of a revert (`revert.ts:12` takes skipped for "wrote nothing"); AppliedWasWritten speaks of
  applied rows only.
- *Tools.* For every tool and every path of its handler: with write tools off nothing is written by a call that starts then; a tool that
  says it reads only does; a dry run writes nothing; destructive, financial and inventory tools write only in a call that had `confirm`;
  with permissions on, a tool writes only for a role its risk allows; a repeated request writes once. **ToolCallsReadOnly**:
  `change_plan_execute` is in `NON_MUTATING_TOOLS` so that it is never replayed, which also makes it a read for the switch of write tools.
- *Read-backs.* A write drops the cached entries of its path's first segment. Contacts, locations and other children are written through
  their parent, and their cached reads survive for minutes. ReadBackFresh shows that no handler reads such a child back through the cache
  in the same call (`createContact`, `updateContact` and `findOrCreateContact` return what they sent); a later call may.
- *Mirror.* Whatever crosses a run, a row older than the overlap is mirrored as it is, and the mirror catches up when edits end, but for
  the rows that changed during something that took longer than the overlap (below).
  **ShadowBudget**: two reconciles that overlap each save the shared limit and put back what they saved, in the wrong order, and every
  later run may spend a reconcile's 600 calls instead of 100.

#### Exceptions the properties name

- `SwitchHolds` excepts `change_plan_execute` (ToolCallsReadOnly is about it). Calls that passed the gate before the switch go on.
- `ConfirmedFirst` speaks of direct calls: `execute_tool` (`tool.handler.ts:3570`) checks the switches of the inner tool again but not its
  confirm, permission, raw-request or idempotency gates, although `utils/idempotency.ts:42` says "the inner tool is guarded on its own
  dispatch". It also speaks of dry runs of tools that offer one: `dryRun: true` sent to any other tool passes the confirm gate
  (`:3887`), and the tool, which does not know the argument, runs.
- `PermittedFirst` excepts `find_or_create_contact` and `change_plan_execute`, which write but are not `isMutatingTool`, so the role is
  never asked; and raw_request, which has a gate of its own.
- `HintsTrue` excepts raw_request from the delete hint (its DELETE is refused unless the environment opts in, but not through
  `execute_tool`) and `set_webhook_excluded_resources`, which replaces subrecords of its own.
- `RetryWritesNothing`: a remembered key (derived, or any key without Postgres) is looked up before the call and stored after it, so two
  sent at once both run. It is not bound to tool or payload when the client sends it, and reads whose names do not begin like a read are
  replayed for a day under derived keys; neither is modelled.
- `NotOverwritten` excepts a value set after the reading of the record that the execution was answered with. That is its own read, just
  before the write, or an older copy: nothing in `executePlan` asks for `noCache`, so the mirror (until its next run) or the read cache
  (15 minutes for Services, 5 for ContractServices) may answer it. A person's change that is younger than the copy is hidden and written
  over, where `execute.ts:1-3` says that every row re-reads its target first.
- `NothingMissed` and `CatchesUp` except late rows (see the next section).
- `OldIsDirty` excepts a row between the moment the run takes it off the dirty set and its re-read, and rows whose re-read failed, whose
  dirty mark a restart lost, or that a slower refresh overtook. A by-id read in these windows returns what was there before.

### Bounds, and why they suffice

- BulkJob: one job of two items (the canary of 1, then a record after it), `MaxAttempts` 2 (one retry and the last), `PauseAfter` 2
  (one failure is not yet a streak), one operator whose call may be as old as any state, one fault. Counters saturate at the limit they
  are compared with. Jobs meet only in the worker's choice of the oldest; the proofs are for any number.
- EndpointGate: four calls over two slots give a holder for each slot, one waiter and one call that arrives while a slot is handed on;
  one settled await before the gate puts that call before or after the woken one.
- ReadCache: two readers share or miss a flight, one writer with two writes, a cache of one entry forces eviction; three keys: a volatile
  one, a reference one, and a contact, which is written through its company and so not `NamedFirst`.
- AuthBreaker: three callers (a probe, a straggler, a check), two tests, two sets of credentials, one fault (restart, late
  check or probe, failed check, moved zone).
- Operations: three attempts on one key (two to race, a third to delete and reclaim), two payloads. Keys do not interact.
- ChangePlan: two plans (old and superseding), a create and an update that depends on it, one execution and one review that overtake
  each other, one edit, one fault (an answer from an old copy, a lost answer, a read that crosses a write, a failure or a death). One fault shows a
  person's change hidden by a copy; a copy that a lost answer or a crossed read leaves, and that a later read is answered with, takes
  two, and is in the proofs only. One execution at a time is assumed for CreatedOnce: the tool lets two in while a plan is `executing`, and two executions both find nothing and both create (listed under hazards). CreatedOnce also takes `findExisting` to
  recognise a record that was created: it does not for the entities for which it returns nothing, nor while Autotask still reads a
  new record as missing.

- ToolCalls: every tool, once with each combination its gates depend on (2,797 requests: path, dryRun, confirm, method; then roles;
  then keys, operation log and repeats). One request at a time: tools meet in Autotask's data, which programs abstract. Two attempts, as a
  third meets the same row and store as the second. No bound on steps: programs are finite but for loops, and a loop adds no state.
- ShadowMirror: two rows (one before and one after a cursor), two changes of any kind, three ticks for an overlap of one (so that a row
  can be older than the watermark less the overlap), one reconcile, and one fault or refresh; a budget of three calls is what a run needs
  for two rows, and written rows or a reconcile's limit make it too small at times.

**What slow work misses.** The overlap of two minutes (`WATERMARK_OVERLAP_MS`) is all that protects rows which change while pages are
read, and the code does not keep anything within it: an incremental has no time limit (`shadow-sync.ts:205-211`), nor has a page on its
way to the store. Two cases go wrong, and neither is ruled out here:

- An incremental of several pages that lasts longer than the overlap. A row changes after its page was read, more than two minutes later
  a row of a later page changes and is read, and the watermark moves to that one's stamp: the first lies behind it, unread.
- A refresh or a reconcile that is slow between its last reading and its store. It stores an older copy, or hides a row, after the run
  has stored the newer one, and the watermark has gone or goes past it.

Such a row stays old until it changes again, is refreshed, or a verify repairs it. NothingMissed says that these are the only ones, row
by row: `late` holds only rows that changed since something at work began and more than the overlap before its effect. The
run's bounds allow both cases (one tick is the overlap); without the exception TLC finds the first.

`CHECK_DEADLOCK FALSE` is given where the system may stop: all attempts are over (Operations, ToolCalls), all plans are done (ChangePlan).

### Fairness

- *RunningSettles*: the tick loop goes on for as long as the server does and Postgres answers (weak fairness of the tick's steps). A tick
  that may go on again and again does (strong): quiet hours and backpressure end. A write is not answered 429 for ever (strong).
  Nothing is assumed of operators, preparations or faults.
- *WaiterServed*: the event loop drains its queue (weak); every request that is out is answered or runs into its timeout (strong,
  since a request can only be answered on an empty queue).
- *Recovers*: requests keep coming and are answered (weak), clocks go on (weak), and an accepted login is not answered inconclusively
  (404, 5xx, 429) for ever (strong). Retry now, restarts and fixes are not assumed.
- *CatchesUp*: the timer starts a run every five minutes and what has begun goes on (weak fairness of the run and the reconcile;
  nothing is assumed of a refresh). Edits are finite, so they end. It needs a budget that a run can finish on: an incremental that is cut off starts again at id
  0 from the same watermark (`shadow-sync.ts:204`), so a backlog larger than a run's budget is never read to its end.

## 4. Proofs

TLAPS checks these for every value of the constants. Each proof module extends its component's module and uses the assumptions named
there (`BulkAssumption`, `GateAssumption`, `CacheAssumption`, `BreakerAssumption`, `OperationsAssumption`, `ChangePlanAssumption`,
`ToolCallsAssumption`, `ShadowMirrorAssumption`, and the four of ToolFacts), all of which TLC evaluates on the instances. What a theorem
assumes beyond them stands in its statement and in the third column.

| module | theorem: property | under |
|---|---|---|
| BulkJobProofs | TypeCorrect; OnlyApproved: OnlyApprovedWritten; Refinement: KeepsPromise; ReportIsHonest: HonestReport; CanaryIsSmall: CanaryHolds; FailuresStop: StreakStops; StopBetweenTicksHolds | – |
| | StopHoldsBetweenTicks: StopHolds | no stop while a tick has the job in hand |
| EndpointGateProofs | TypeCorrect; Counted: SlotsCounted; NoneLost: NoLostWaiter | – |
| | Bounded: UpstreamBounded | `EndsMidTurn = FALSE` |
| ReadCacheProofs | KeptWithinLimit: TypeOK; ThereIsFound: FoundWhenThere; OldOnlyFromCrossing: StaleOnlyIfCrossed | – |
| AuthBreakerProofs | TypeCorrect; SingleProbe: OneProbe; StragglersDoNotEscalate: OnlyProbesEscalate; NotLockedOut: LoginsBounded | – |
| OperationsProofs | TypeCorrect; Replays: ReplayIsTheSame; Refinement: KeepsClaim; OnlyLostAnswersRepeat; AcknowledgedIsLast | – |
| | OneWriter: WrittenOnce; NeverReleased | `AnswersLost = FALSE` |
| ChangePlanProofs | TypeCorrect; DependenciesFirst: DependenciesIn; AppliedIsReal: AppliedWasWritten; OldIsKept: NotOverwritten | – |
| | OnlyOverlappingCreatesRepeat: CreatedOnce | no two executions between look and create of one record |
| | OneAtATime: CreatedOnce | one executor |
| ToolCallsProofs | Placed: TypeOK; SwitchedOffIsOff: SwitchHolds; PlansOnly: DryRunIsDry; NothingUnconfirmed: ConfirmedFirst; NothingUnpermitted: PermittedFirst; OnceOnly: RetryWritesNothing | the facts of ToolFacts |
| ShadowMirrorProofs | BehindTheMark: NothingMissed; WrittenIsDirty: OldIsDirty | – |
| | LimitComesBack: BudgetRestored | no reconcile begins inside another |

**The conditions.** `EndsMidTurn = FALSE`, `AnswersLost = FALSE`, one executor at a time and the three about overlaps are false of the
program in rare cases, and without them the properties fail: section 3 says how. The theorems under them say that these cases are the
only ones. BulkJobStop, OperationsLost, ToolCallsReadOnly and ShadowBudget each show a violation, and StopHoldsBetweenTicks, OneWriter
with OnlyLostAnswersRepeat, SwitchedOffIsOff and LimitComesBack prove the property in all behaviours but those that do what the run shows;
OnlyOverlappingCreatesRepeat does it for two executions of a plan. One executor and the
conditions on constants hold on the instances of the runs that check these properties. A theorem without a property in the table
(StopBetweenTicksHolds, OnlyLostAnswersRepeat, AcknowledgedIsLast, NeverReleased) states what no run checks, in its proof module
or, for NeverReleased, as ReleasedIsClean in Operations; StopHolds and BudgetRestored are what the violation runs refute without the
conditions.

### The arguments

*BulkJob.* "Only approved is written" is not inductive: a call holds a row that may have changed. `IInv` adds how far each column has come
(`ProgressInv`), what a call in flight may rely on (`CallInv`: statuses from `ready` on never lead back, so the hash it read is still the
job's), that an approval is of the list the job holds, and that the worker holds an item of that list. The refinement uses the same
invariant: each step is an approval of an unapproved list, a start, a write of an approved record or a stutter. The report (`DoneInv`, `ClearInv`)
needs what an answer in hand stands for, and that whatever was written is shown as done, is unclear, or has its answer in hand; the streak (`StreakInv`) that only the tick that counted the last failure sees it full.
The canary is the hard one: the limit is compared with `processed`, which is updated after the write, apart from the item, and may
be lost on the way, while an item may go back to pending and be written again. The proof follows a set `C` of the items whose outcome was
counted. It is no larger than `processed` and the faults together; with what is written and the item in hand it is no larger than the
canary and the faults; and as the worker takes the first pending item, everything before an item that is written or in hand but not
counted is counted or excluded, so that there is one such item at most (`Counted`). `RowInv` adds that the tick's copy of the counter is
still the row's: nobody but the tick counts. How far a stop holds needs no invariant but the types: a job is at rest (`Rests`) when it
is not running and no tick has it in hand, and only a person's start or resume ends that; only the tick in hand sets `running` otherwise.

*EndpointGate.* `HandedOn` is the key: while calls wait, slots taken plus slots handed on (woken calls) are at least the limit. With
`ReadyInv` (whoever has a continuation due is in the queue) an empty queue means nobody is woken and every holder is upstream. The limit
itself needs to know where in a turn of the event loop it is (`OpenTurn`): while the gate is open either nobody moves that could take
or give back a slot, or one call gives back, alone in the queue, or the call it woke is the head of the queue and takes over. Only
behind a closed gate does a slot come free in the middle of a turn, and there whoever takes it is refused before it sends.

*ReadCache.* `AnswerFresh` follows a read on its way: unless a write was acknowledged since (`crossed`), what Autotask looked up is not
older than any acknowledged write, so what is stored of it is not either; an acknowledgement drops the entries of what its path names
first, and volatile ones with any write, which is why the property is about `NamedFirst` keys; of a contact or a location nothing can be
promised, and the theorem makes no assumption about them. For ThereIsFound, nothing empty is ever kept (`EntryFound`), and a reader that
began when the record was there waits for a read that will find it (`WaitsWell`). KeptWithinLimit follows the eviction order (`Ordered`):
each cached key is in it once, whether it is appended, moved to the end, trimmed from the front or dropped with others from the middle.

*AuthBreaker.* `Probes` says that the gate is closed, or the block gone, while a probe is out on time, which `Begin` needs; `Checked` that a
check still running can not escalate the pause that overtook it, but for the faults that let a whole pause pass; `LateKept` that a fault
makes at most one probe late, since there was one on time; `Rows` bounds the saved copy, from which a restart resumes. LoginsBounded
counts over any number of steps. Its proof bounds what may still be rejected while the login is broken (`Future`): the calls that are out,
the first check, the tests the pause has left. A rejection takes at least one from it, no other step adds to it but a fault, which
`Budget` allows for, and a person, who starts the count again.

*Operations.* `Base` is inductive whatever happens to answers: a running attempt owns the running row of its key. So is `Claimed` on top
of it: whoever had a write acknowledged, or returned, keeps the row of its key, in a status that is not released. It gives the refinement
(an INSERT takes the key, a DELETE releases it, a replay repeats its owner's result), and that a second writer on a key only ever follows
an unacknowledged one. With `~AnswersLost` every write is noted (`Acknowledged`), so there is one writer.

*ChangePlan.* `Good` says what an execution knows: which rows it holds to be in, and what the outcome in its hand stands for. It rests on
`made` and `wrote` only, which never shrink, so no other actor can undo it; `Placed` and `Created` carry the facts through the table.
NotOverwritten is an action property: an execution comes to a write by looking (`WriteFollowsLook`), and what it saw stays so unless a
person edits or what it saw was an older copy, which marks it `moved`, or another execution writes the value this plan wants as well (`AllLooked`). CreatedOnce needs
that a record which was looked for is still not there when it is created (`NotThere`): only a second execution that has come just as far
with the same record could spoil that (`CreatesAlone`), and with one executor there is none.

*ToolCalls.* The proofs do not look into the 300 programs. `InOrder` keeps a call within its program, `Passed` says that whoever
is past the gates was not refused by them, and a tool that writes is one the gates ask about (ToolFacts). For dry runs, `Planning`
holds a call before the step that returns its plan, wherever branches and failures lead, because no jump from before that step passes it
(`PlansAt`). `KeptOut` is what one write per key rests on: after a write the row is never free again, and nobody else is past the claim;
`Recalled` that a returned result is stored, so that a later attempt ends at the lookup.

*ShadowMirror.* Three actors store what they read earlier, and only one is under the lock. A page (`Held`) may be wrong only about rows that
changed after what read it began. When it is stored, such a row's stamp lies either within the overlap, and so not behind the watermark, or
the row is late. `WalkDone` says that all the walk has passed is mirrored or late, if it changed before the run began, and `Dates` that
whatever crosses the run began after it does: that is why a run counts from the beginning of what is at work when it starts. `Seen` keeps a reconcile from deleting a row that existed when it began: rows are created in the order of ids, so
what it did not meet is younger than its walk. LimitComesBack follows what each reconcile saved (`Saved`): the configured limit, unless
it began while another had replaced it.

### Only model-checked

- Liveness (RunningSettles, WaiterServed, Recovers, CatchesUp): whatever needs ENABLED is beyond this prover. So would be induction over
  data and RECURSIVE operators; no module with a theorem uses these.
- HintsTrue and ReadBackFresh: they are about the steps of the programs alone. TLC walks every path of every tool, so that a proof would
  say nothing more.

## 5. Abstractions

Times are flags or "may go on or not"; texts, logs, reports, notices and the JSON of payloads are left out; a hash is what it
binds. Autotask is a store of versions or values that applies a write or not and answers or not. SQL statements are atomic, and one
awaited statement is one step. Memory does not survive a restart; rows do.

## 6. Not modelled, and the plan

Parts of modelled components: argument parsing, field mapping, filters and paging of the service methods (programs keep the requests, not
their contents); impersonation; the ticket card; the resource handler; the mirror's backfill, the entities that are re-read whole
(`windowRefresh`, `fullRefresh`), its verify and repair, the hold on usage, the field lists of `effective`, rows queued because a child
changed (`markParentsStale`), searches served from it (they go live for 90 s after a write) and filters to SQL.

Not modelled: page rendering, transports, generated code, formatting and reports (no state of their own); merge and vendor billing (pure
computations over what was read; what they write goes through change plans). Planned next, in this order:

1. **CommerceOrder** composed with the plan's status steps: tracking against cancel and mark_paid; liveness: an applied order becomes
   provisioned.
2. **AdminUsers** (last administrator, sessions), **Notify** (cooldown and delivery; "cleared" over the breaker's states).
3. **AuditHistory**: the fetch stamp, the feed cursor over concurrent inserts, the backfill's cursor.
4. Pure algorithms as operators against reference definitions: quiet hours and best window, backpressure verdict, duplicate and row
   parsing, reconciliation classes, the bounded map of `utils/concurrency.ts`; **Caches** (mapping, picklists).
5. Composition of EndpointGate with the pause and cooldown of AuthBreaker.

Proofs to add: AuthBreaker and EndpointGate composed, once there is a module for it; the invariants of the
modules above.
