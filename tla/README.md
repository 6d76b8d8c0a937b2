# Helix Prime: verification of its stateful core

Helix Prime runs business work under bounded autonomy. A request is admitted,
judged by a governance gate, held for a human where it crosses a boundary,
executed by a handler, and recorded in an event log and a hash-chained audit
trail. Operators can stop the platform or one tenant. All of it lives on SQLite
files that threads of a service and command-line processes share.

Around it the Codex app signs people in and lets them turn proposals into company
rules, a transport exchanges events with sibling programs, and a supervisor feeds
the telemetry of an operations twin to an engine that recommends actions to a
manager and streams its state to cockpits.

The modules here model these parts. They are translated from the Python
source; paths below are relative to the root of the repository. `PROJECT.json`
maps every definition to the lines it stands for.

## 1. Inventory

| component | state | operations | hard behaviour | what makes it correct |
|---|---|---|---|---|
| Workflow engine, `control_plane/engine.py`, `workflow.py`, `events.py` | `workflows` and `events` rows; handlers | `submit`, `approve`, `execute`, `cancel` | callers at once over one row, each on its own copy; several store writes per operation; a crash, a failing write or a lost audit record between any two; retries; deadlines | nothing runs uncleared; a denial, refusal or result is final; no completion without audit; every call returns |
| Governance gate, `control_plane/governance.py` `evaluate_gate` | none | one verdict: deny, hold, go, or it raises | the precedence of its rules | the verdict used is the verdict enforced |
| Segregation of duties, `contracts/segregation_of_duties.py` | none | the verdict on an approver | which of the rules each caller applies | nobody approves their own work |
| Governed task manager, `control_plane/governance.py` | `workflow_tasks`; the `audit_events` ledger | `submit`, `approve`, `reject`, `complete` | row and ledger are written one after the other; an append that loses the race for the head is not retried | only cleared tasks run; the ledger explains the row; tasks are not stranded |
| Store, `control_plane/store.py` | the SQLite file; one connection per `Store` | create, update, append, read | a transaction belongs to a connection that threads share; locks between processes; kills | what returned is durable; streams have no gaps |
| Kill switch, `control_plane/kill_switch.py` | `halt_state`, a row per scope | `engage`, `release`, `active_halt` | record and row are two steps, in opposite orders; two reads per check | a standing halt is never missed; tenants are isolated; the trail says who halted |
| Audit trail, `security/audit.py` | the `audit` table | `append`, `last_hash`, `verify_chain` | the tip is compared outside the transaction of the insert; a remembered tip | one unbroken chain; no record lost needlessly |
| Connector gateway, `connectors/gateway.py` | plans, receipts | `plan_write`, `apply_write` | idempotency keys, blocked plans | a write is applied once, and only if permitted |
| Integration transport, `integrations/transport.py`, `adapters.py`, `doubles.py` | queues in memory; files in `inbound`, `processing`, `dead_letter` | `send`, `receive`, `acknowledge`, `reject`, `retry`, waiting for an answer | filtered receives; file accesses of several processes; deaths before acknowledgement; a retry budget counted in two ways | an event is delivered, kept, or in the dead letters, and dead only after its budget |
| Improvement ledger, `metacognition/improvement.py`, `helix_codex_app/modules/memory/` | a hash-chained file per author and one of the company; projection, promotions, rules | propose, evaluate, approve, reject, roll back, promote, rebuild | a copy of the ledger per request; three stores written one after the other; processes on one file | the projection is the ledger's; approvals are earned; a promotion has its rule |
| Codex app sign-in, `helix_codex_app/modules/identity/`, `security/`, `modules/admin/` | account row, sessions, failures and attempts | login, logout, change of password, status by an administrator | each statement commits alone; two processes; deaths between two statements; stale rows | sessions end with their grounds; locks end; bars hold; limits hold |
| Codex app modules, `helix_codex_app/modules/` | punches, tasks, messages | CRUD over HTTP | the punch clock checks, then writes | one open punch per account |
| Supervisor, `supervisor.py` | the twin's process, attempts, counts | read a line, post it, hold it, reap the twin | time-outs of requests that were handled, or will be; interruptions | ticks arrive once and in order; success means all of them arrived; no twin left behind |
| Ingest engine, `ingest_engine.py` | window, recommendations, cooldown; outbox and subscribers | `ingest`, `decide`, `snapshot`; subscribe, ping, stream | awaits between a read and its use; a bounded outbox that sheds; pruned subscribers | one recommendation at a time; a pause after a decision; subscribers know the state |

How they interact. The HTTP server (`server/deps.py`) holds one `Engine` for all
threads of the process, so all of its calls share one store connection and one
remembered audit tip; scripts and other services open their own. The engine asks
the gate in `submit`, segregation of duties in `approve`, and the kill switch,
whose rows are in the engine's own database, before `submit`, `approve` and
`execute`, though never before `cancel`. The engine and the kill switch append
to the same audit trail. The task manager shares the gate, the state machine and
the store, and keeps a ledger of its own. Engines, capability packs and
orchestration are called by, or drive, the workflow engine.

Sign-in, the improvement ledger, the transport, and the pair of supervisor and
ingest engine are separate programs or share nothing with the engine's database.
Proposals and promotions meet in the Codex app's memory service, over one file per
author and one of the company; the supervisor and the ingest engine meet only in
`POST /api/v1/telemetry`, whose answer may be late or lost.

The remaining parts (interfaces, release and pilot tooling, pure business
engines, policy predicates, observability, migrations) are listed in
`PROJECT.json` with the reason why each is left out: they are pure computations,
sequential batch tools, or presentation.

## 2. Modules

| module | models | proofs |
|---|---|---|
| `WorkflowStates` | the states and `VALID_TRANSITIONS` | |
| `GovernanceGate` | `evaluate_gate` over records of what it compares | |
| `SegregationOfDuties` | self approval, same role, reviewer authority | |
| `WorkflowEngine` | the four operations, step by step | `WorkflowEngineProofs` |
| `GovernedWork` | the abstract promise the engine implements | |
| `GovernedTasks` | the task manager and its ledger | `GovernedTasksProofs` |
| `AuditTrail` | `append` with the callers' remembered tip and retry | with `KillSwitch` |
| `KillSwitch` | the halt, over `AuditTrail` | `KillSwitchProofs` |
| `StoreConnection` | statements, connections and transactions | `StoreConnectionProofs` |
| `CodexSignIn` | login, sessions, throttle, password and status of one account | `CodexSignInProofs` |
| `ImprovementReview` | proposals, their projection, promotions and company rules | `ImprovementReviewProofs` |
| `EventDelivery` | the abstract promise of a transport | |
| `MemoryTransport`, `FileTransport` | the two transports | |
| `Transports` | `create_transport`: one of the two, mapped to `EventDelivery` | `TransportsProofs` |
| `TelemetryRelay` | the supervisor | |
| `CockpitEngine` | the ingest engine's state | |
| `CockpitStream` | its stream hub and subscribers | |
| `TelemetryRun` | supervisor and engine: `TelemetryRelay`, `CockpitEngine` | `CockpitProofs` |
| `LiveCockpit` | engine and subscribers: `CockpitEngine`, `CockpitStream` | `CockpitProofs` |
| `MC*` | small instances for TLC | |

`WorkflowEngine` and `GovernedTasks` extend the first three modules;
`KillSwitch` extends `AuditTrail`, so that operators and calls share the chain.

### WorkflowEngine

A call is a record in `call[t]`: the operation, its private copy of the row, the phase
and the point inside it. The engine's methods are long, but each is a chain of the
same block, "transition the copy, `update_workflow`, `_emit_event` once or twice,
`_audit`", so the model has that block once (`Save`, `Number`, `AppendEvent`,
`AuditWritten` or `AuditLost`) and three tables say what differs: `Target` the state a
phase writes, `TwoEvents` and `Consequential` its events and the weight of its audit
record, `Following` the phase after it. `CheckSubmit`, `CheckApprove`, `CheckExecute`,
`LookUp`, `Create`, `Gate` and `RunHandler` are the code between the blocks.
`StoreFails` is a store operation, at any of these points, that fails and raises (a
locked or full database). `Raised` is where an exception goes: out of the call, except
in `submit` before validation and inside the `try` of `execute`, whose `except` also
catches what the store raises after the handler returned, and runs the handler again.
`faults` is a history variable that counts, per workflow, the calls a crash or a
failing store operation cut short. A request is a record of what the code compares;
what makes one inadmissible is the flag `admissible`. `Die`, `Expire`, `Engage` and
`Release` are the environment. The halt is one Boolean, for one tenant: its two reads
are the subject of `KillSwitch`.

### GovernedTasks

`Route` is the list of states a call commits. Each commit is four actions,
`Save`, `ReadHead`, `CompareHead`, `Record`, the four accesses of `_commit_state`
and `append_audit_event`. `CompareHead` also is the rejected fork, which nothing
retries. `CutOff` is a crash or a failing access. An event names its predecessor
by the length of the ledger. `contested` and `lost` are history variables that
say which tasks were worked on by two calls at once, and which lost an event.

### AuditTrail and KillSwitch

A record's hash is its place in insertion order. An append reads the tip
(`ReadTip`, from the memory of the engine where there is one), compares it
(`CheckPrevious`), reads it again after a refusal (`ReadTipAgain`), inserts
(`Insert`, which compares nothing), and is noted by the engine (`NoteTip`).
`overtaken` marks an append that another one overtook since its check.
`Engage` records and then sets the row (`SetHalt`, or `SetHaltFails`, which raises with
the record already on the trail), `Release` deletes it (or `ReleaseFails`) and then
records; `Call`, `CheckGlobal`, `CheckTenant` and `CheckFails` are
`_enforce_not_halted`. `off` and `covered` are history variables over the time of one
check; `unset` holds the scopes whose last engagement has its record and no row.

### StoreConnection

One action per SQL statement. What SQLite does (visibility inside a transaction,
one writer at a time, the busy timeout, the rollback of a killed connection) is
marked external: it is modelled from how the store uses it. `landed` and `acked`
are history variables: the operations with a committed write, and the ones that
came through their commit. An event carries the operation that wrote it, so that the
stream can be told to hold nothing of an operation that was refused, gave up or was
killed.

### CodexSignIn

One account, because nothing in the code relates two. A request is a record in
`call[c]`: what it is, where it is, and what it read of the account row. A login is
`LookUp`, `Judge`, and then either `Hit`, `Fail`, `Count`, `Lock`, or `Reset`,
`ClearHits`, `Fresh`, `Issue`; a lock that ran out is lifted by `Reset`, `Activate`,
`Reread`. Each is one statement that commits, or what the code does between two.
The handlers are coroutines that do not await between statements, so `LoopFree`
keeps two of one process apart; the guard and logout run in worker threads, and
another process is not bound by it. `pw` and `bars` count changes of the password
and bars by an administrator; a session and a request remember the counts they
know. `cut`, `lifts`, `lockedBy` and `late` are history variables, which name the
exceptions the properties make.

### ImprovementReview

A ledger is the sequence of versions in one file; a request holds a `view`, the
positions of the records it has loaded or written, so that what it does with a file
another process appended to is what `_reindex` and `_append` do with theirs. `Open` is
a request up to its first write, with the whole guard (`Permitted`), `AppendVersion`
and `Sync` its two writes. A rebuild is `Rebuild` (the author's rows go), `ListLedger`
(the ledger is loaded) and `Replay` for each proposal it listed: one committed row
each, whatever the ledger and the row hold by then. A promotion writes the company's
ledger, the company's memory and the promotions, one action each. The memory is loaded
by the request that uses it (`LoadRules`); a rule is numbered by the length of what
was loaded (`Numbered`, `AddRule`), and a rollback looks the rules of its promotion up
among the last `Window` of those (`LookUp`) and appends a marker with the number of
one of them (`Retire`). Loaded again, the memory is without the last record that bears
a marker's number, whosever rule that is (`Standing`). `Crash` cuts a request off
before any of its accesses, because its process dies or the access fails. `behind` and
`torn` are history variables: owners and promotions on which a request was cut off or
overtaken.

### Transports

In memory every operation is a step, and `Wait` and `ProcessInbound` are what the
adapters and the doubles do with the queues. On disk every access to a file is a
step; `Torn` is a file that was opened for writing and not written, and `Follow`
says where an open file is after it was renamed or replaced. `Transports` maps both
to `EventDelivery`: `MemoryPlace` and `FilePlace` say where an event is, and
`budget` is the number of rejections that lead to another attempt, which is one
less on disk. `contested` and `interrupted` are history variables.

### TelemetryRun and LiveCockpit

A request the supervisor sent is in `requests` until the engine handles it: its
time-out (`TimeOut`) leaves it there, so the engine may handle it later, after the
next attempt, or never. A reply that is neither a success, nor worth a retry, nor a
refusal (a redirect) drops the tick after one attempt (`Diverted`). `Ingest` and
`Decide` are the engine's methods, one step each as the lock makes them. In
`LiveCockpit` a step is what a coroutine does between two awaits that yield: a route
changes the engine and queues its frames in one step (`StreamTelemetry`,
`StreamDecision`), `ReadSnapshot` and `Connect` are the two sides of the awaited
handshake, `Take` and `Transmit` the writer. The client's `view` is what its frames
told it; `lossy`, `raced` and `overtime` are history variables. The two compositions
share `CockpitEngine` and not more, because nothing a subscriber does reaches the
supervisor.

## 3. Runs

Every specification but the one of the transport is bounded by the number of calls,
requests or ticks, so behaviours end; for that reason deadlock is not checked. In
`Delivery` an event that was acknowledged leaves nothing to do.

| run | instance | shows |
|---|---|---|
| `EngineSequential` | 1 caller, 4 calls on one workflow of 5 kinds (runs at once with a deadline, held, denied, without handler, one whose gate raises), 3 approvers, 2 attempts, 1 failing store operation, 1 lost audit record, 1 crash | `LeftInOrder` (no call leaves a row where no operation takes it up, and the log ends with the row's state), `ExecutionBounded` (attempts within the budget of each call, one result), both but for the workflows on which a call was cut short; `ClearedBeforeRun`, `StoredTransitionsLegal`, and the refinement `KeepsPromise` |
| `EngineConcurrent` | 2 callers, 3 calls, an autonomous request, 1 failing store operation, 1 lost audit record, 1 halt | `NoUnauditedCompletion` (what is closed has the audit record of its success, or was withdrawn on the log), `HaltStopsNewWork` under every interleaving of store operations |
| `EngineLiveness` | 2 callers, 3 calls, 1 failing store operation, a request that runs, one that admission refuses, one whose gate raises | `CallsReturn`, `RefusalsFinal` |
| `EngineDoubleExecution` | 2 callers, 3 calls | a violation, see below |
| `KillSwitch` | 2 service threads, 1 operator, 2 tenants, 3 operations, 1 failing access (of the trail or of the halt row), 1 crash | `HaltAnswersTrue` (a standing halt stops calls, and only its own scope's), `TrailKnowsHalts` (recorded before it takes effect, and the replayed trail names the halts in force, and beside them only an engagement that raised when it came to set its row), `HarmedOnlyWhenOvertaken` (a chain breaks and a record is lost only where one append overtook another) |
| `StoreProcesses` | 3 processes with a connection each, 3 operations, 1 kill | `AcknowledgedIsDurable`, `StreamWellNumbered` (no gaps, and nothing of an operation that was refused, gave up or was killed), `OperationsReturn` |
| `TasksRacing` | 2 callers, 4 calls, a task the gate lets go and one it holds, 4 approvers, 1 cut | `ClearedToRun`, `LeftInOrder` (no task is stranded, and the ledger leads to its row), `LegalUnlessContested` |
| `CodexSignIn` | 2 requests of one process, 1 of another, 2 sessions, 5 calls, limits of 2 failures and 3 attempts, 1 crash | `SessionsEndWithTheirGrounds`, `AutomaticLockEnds`, `LimitsHold` (the lock is exceeded by one login per process, and by as many again after an activation that kept the failures, and by one per process that died; the window by one login per further process), `BarHolds` |
| `ImprovementReview` | 2 people in two roles, 2 processes, 3 requests from 5 starting points, a memory window of 1, 1 request cut off | `ProjectionFollowsUnlessShared` (between requests a row is the latest version, unless a request was cut off or overtaken), `ApprovalsEarned`, `RulesStand` (an approved promotion has one rule and any other none, unless two rules share its number or its requests were cut off or overlapped) |
| `Delivery` | in memory 3 events of 2 keys and 2 types; on disk 1 event, 3 processes, 2 crashes; `MaxRetries = 2` | `Delivers` (both transports implement `EventDelivery`), `NothingLost` |
| `TelemetryRun` | 3 ticks, 2 attempts, a pause of 2 ticks, 2 recommendations | `OrderKept`, `AccountTrue`, `CooldownKept` |
| `LiveCockpit` | 2 subscribers, 3 ticks, 2 recommendations, an outbox of 2, 1 ping | `ViewCurrent` |

Each run of a module with state also checks its type invariant, except where
another run of the same module does.

Why the bounds are enough. Every race in this code is between two operations on one
row, one chain, one file or one connection, and a third call is the one that builds on
the outcome; two callers and three or four calls contain submission, two conflicting
decisions and an execution. Three processes are needed in the store because a lock has
a holder, a winner and a loser, and on disk because a rejection meets a receiver while
a third holds the event. One crash, one failing store operation and one lost record
per behaviour put the fault at every step, and a crash after a failure; two of a kind
do not meet in one operation except by repeating it. Nothing in the engine relates two
workflows, so one caller at a time is checked on one of them (the constraint
`OneWorkflow`), with a fourth call instead of a second workflow. `MaxRetries = 1` is
the smallest value for which a retry differs from a first attempt, and `2` the one for
which the two transports differ after the first. Files of different events share
nothing, so one is enough. A promotion has a life of six requests, so
`MCImprovementReview` starts from five states of it that requests made one after the
other reach, and adds three more. With an outbox of 2 the frames of one tick that
raises and executes already shed one; three ticks let a pause begin, pass and end.

What the models show of the code beside the properties. `EngineDoubleExecution` finds
what the engine's docstring denies (`engine.py:142`): two `execute` calls read the row
as executing and both run the handler to a result. The other disagreements below are
visible in the same models; the passing properties name each as an exception, and say
what holds beside it.

| where | what happens |
|---|---|
| `control_plane/engine.py:1196` | an approval that read the row before a denial was stored overwrites it, and the handler runs |
| `control_plane/engine.py:315` | losing the audit record of `workflow_closed` assigns `dead_letter` to a closed workflow |
| `control_plane/engine.py:1376` | a store operation that fails after the handler returned and its result was saved is caught by the attempt loop: the handler runs again, to a second result, and when the budget is spent the row stays `succeeded`, where no operation takes it up |
| `control_plane/engine.py:883` | a second submission past its lookup is given the first one's row; its validation raises and it stores `failed`, over a row that may be executing and have a result, which a cancel can then close |
| `control_plane/kill_switch.py:206` | the record of an engagement is on the trail before its row is written: when that write fails, the trail says engaged and the platform runs |
| `security/audit.py:286` | two appends compare the same tip and both insert: the chain forks |
| `control_plane/store.py:316` | on a connection that threads share, the rollback of one undoes what another then reports as written |
| `control_plane/governance.py:1085` | a task of an oversight-only seat that asks for approval is held instead of denied, can be approved, and executes; the comment at 1078 says never |
| `helix_codex_app/modules/identity/service.py:151` | two password changes under way at once both prove the same old password |
| `helix_codex_app/modules/admin/service.py:183` | an administrator's activation keeps the count of failures, so each process may let one more login fail past `MAX_FAILED_ATTEMPTS` before the account locks again |
| `metacognition/improvement.py:276` | proposals of two authors get the same number, which is the key of the projection |
| `helix_codex_app/modules/memory/repository.py:116` | a row is written without a look at the version it has: a rebuild, or a request that another one overtook, puts an older version over a newer one |
| `memory/governed_memory.py:285` | a record is numbered by how many were loaded: two processes give two rules one number, and a rollback of either removes the later one |
| `integrations/transport.py:350` | `reject` writes the next copy and then removes the old one by name: a receiver that moved the next copy there in between loses it |
| `integrations/transport.py:333` | the transport in memory gives an event `max_retries` further attempts, the one on disk one less |
| `integrations/transport.py:180` | a receive for one type, and a wait for an answer, move every other event to processing, where nobody takes it up |
| `integrations/README.md:63` | idempotency is described for both transports; the one on disk has none |
| `ingest_engine.py:959` | the snapshot is read before the handshake: a change in between was streamed to others only, and the subscriber's state goes back |
| `ingest_engine.py:762` | frames are numbered when they are sent, after the shedding, so a subscriber sees no gap; the comment at 58 says it does |
| `supervisor.py:341` | an attempt that timed out may be handled afterwards, so a tick is taken in twice or out of order; the docstring at 24 says the order is preserved exactly |
| `ingest_engine.py:351` | the pause after a decision counts posts, so a tick delivered twice shortens it |

A subtle one is `HaltAnswersTrue`. It does not say that a call is stopped
whenever some halt was in force all the time: an operator who hands a halt over
from the tenant to the platform between the two reads is missed. It says that a
halt which stays under one scope is never missed, which is what the two reads
guarantee. Another is `BarHolds`: an administrator's bar is only overwritten by a
login that read the row before the bar, so that whoever signs in later meets it.

### Fairness

`WorkflowEngine` assumes weak fairness of each caller's `Step`: a thread that is
in a call keeps running, and nobody is obliged to call, to approve, to halt or to
release. A thread that waits is never disabled by others, so weak fairness is
enough. `StoreConnection` assumes it of `Step \/ GiveUp`: a statement that waits
for a lock either gets it or times out, which is sqlite3's busy timeout; that it
gets the lock is not assumed. The others state no fairness and no liveness. For the
transport there is nothing to state: nobody is obliged to receive, and an event a
dead process had in hand stays in processing. For the supervisor there is nothing
the code guarantees: it reads the output of its twin without a time-out, so a twin
that hangs holds the run for good.

## 4. Proofs

TLAPS proves these theorems for every value of the constants, under the named
assumptions of the modules (`EngineAssumption`, `GateAssumption`, `TasksAssumption`,
`ConnectionAssumption`, `SignInAssumption`, `TrailAssumption`, `SwitchAssumption`,
`ReviewAssumption`, `TransportsAssumption`, `RelayAssumption`, `CockpitAssumption`,
`StreamAssumption`), which TLC evaluates in the runs of those modules. They only say
what kind of value a constant is.

| theorem | states |
|---|---|
| `TypeCorrect` | `WorkflowEngine`: `Spec => []TypeOK` |
| `ClearanceHolds`, `ClearedWorkOnly` | `Spec => []ClearanceInv`, `Spec => []ClearedBeforeRun` |
| `HaltHolds`, `HaltStops` | `Spec => []HaltInv`, `Spec => HaltStopsNewWork` |
| `RefusalsHold`, `RefusedForGood` | `Spec => []RefusalsInv`, `Spec => []RefusalsFinal` |
| `ClosedHolds`, `CompletionsAudited` | `Spec => []ClosedInv`, `Spec => []NoUnauditedCompletion` |
| `GuardHolds` | `Spec => []GuardInv`: what a call knows at each phase, whoever else is at work |
| `TurnHolds`, `OrderLeft` | `Spec /\ []OneAtATime => []TurnInv`, `[]LeftInOrder` |
| `BudgetHolds`, `BudgetKept` | `Spec /\ []OneAtATime => []BudgetInv`, `[]ExecutionBounded` |
| `TransitionsLegal`, `PromiseKept` | `Spec /\ []OneAtATime => StoredTransitionsLegal`, `KeepsPromise` |
| `TasksInvariant`, `TasksTyped`, `ClearedTasksOnly` | `GovernedTasks`: `Spec => []IInv`, `[]TypeOK`, `[]ClearedToRun` |
| `OrderHolds`, `TasksLeftInOrder`, `TasksMoveLegally` | `Spec => []OrderInv`, `[]LeftInOrder`, `LegalUnlessContested` |
| `StoreTyped` | `StoreConnection`: `Spec => []TypeOK` |
| `OwnHolds`, `AcknowledgedKept`, `StreamNumbered` | `OwnConnections /\ Spec => []OwnInv`, `[]AcknowledgedIsDurable`, `[]StreamWellNumbered` |
| `CommittedStays` | `OwnConnections /\ Spec => NothingLost`: no step takes a committed event or row away |
| `SignInTyped`, `SessionsEnd`, `LocksEnd` | `CodexSignIn`: `Spec => []TypeOK`, `[]SessionsEndWithTheirGrounds`, `[]AutomaticLockEnds` |
| `BarredStays`, `LimitsKept` | `Spec => BarHolds`, `Spec => []LimitsHold` |
| `SwitchTyped`, `AnswersTrue`, `HarmedOnly`, `Recorded` | `KillSwitch`: `Spec => []TypeOK`, `[]HaltAnswersTrue`, `[]HarmedOnlyWhenOvertaken`, `[]RecordedBeforeHalted` |
| `TrailKnows`, `OneOperatorSuffices` | `[]OneOperation /\ Spec => []TrailKnowsHalts`, and the same when there is one operator |
| `ReviewHolds`, `ReviewTyped`, `ApprovalsAreEarned` | `ImprovementReview`: `Spec => []ReviewInv`, `[]TypeOK`, `[]ApprovalsEarned` |
| `ProjectionFollows`, `RulesStandBetween` | `Spec => []ProjectionFollowsUnlessShared`, `[]RulesStand` |
| `TransportsTyped`, `NothingIsLost`, `TransportsDeliver` | `Transports`: `Spec => []TypeOK`, `[]NothingLost`, `Delivers` |
| `RunTyped`, `AccountHolds`, `OrderHolds`, `CooldownHolds` | `TelemetryRun`: `Spec => []TypeOK`, `[]AccountTrue`, `[]OrderKept`, `CooldownKept` |
| `RunOneOpen`, `OneOpenHolds` | `Spec => []OneOpen`, `LiveSpec => []OneOpen`: the engine has at most one recommendation open |
| `LiveTyped`, `ViewsCurrent` | `LiveCockpit`: `LiveSpec => []LiveTypeOK`, `[]ViewCurrent` |

Three hypotheses say how the callers behave, where the code promises nothing else.
`OneAtATime`: no call of the engine begins before the last one returned or died, which
a single worker always satisfies; `EngineDoubleExecution` shows that the properties it
is assumed for are lost without it. `OwnConnections`: every caller of the store has a
connection of its own, as processes have; threads on one connection commit and roll
back each other's transactions. `OneOperation`: an operator begins to engage or release
only when no other is doing so, which a single operator always satisfies
(`OneOperatorSuffices`); two at once leave a trail whose last word is not the halt in
force. In all three crashes, failing accesses, lost records and everybody else's steps
are unrestricted.

### The engine

`ClearedBeforeRun` speaks about runs, grants and the gate, and is not inductive:
nothing in it says what a stored row or a call in flight is entitled to.
`ClearanceInv` adds that. A row that waits or is approved belongs to an admissible
request the gate did not deny; a row that executes or has succeeded, to one whose
gate answered go, or answered hold with a grant in the log (`RowClear`); a call's
private copy is as good as a row, and a call in a phase of approval names an approver
it has checked (`CallClear`). Grants only accumulate (`ClearMonotone`), each table
entry takes a clear copy to a clear copy (`InPhaseClear`, `ContinueClear`,
`RaisedClear`, `SavedClear`), and a save publishes only a clear copy, so overwriting a
row with a stale copy loses information but never clears work. That is why clearance
survives the races that duplicate executions and overrule denials.

`HaltInv` says that while the switch is engaged a call past its check either was past
it at the engagement or is a cancellation. `RefusalsInv` says where a call on an
inadmissible key can be at all: before the row, or on the way to its one event, which
only the call that created the row logs (`Logging`). `ClosedInv` says that whoever
holds or writes a closed copy has the audit record of the success, or the logged
cancellation, behind it; both only grow (`RecordsGrow`).

Callers who take turns have more, and `TurnInv` states it: the private copy is the
stored row, up to a result about to be saved, and the phase belongs to the state of
that row (`Source`, `InTurn`). A store operation that fails inside the attempt loop
breaks this: the copy has moved on and the row has not, or the handler runs again under
a row that is past execution. `CutShort` says what is left of it: the copy is one legal
transition ahead of the row, which the next save closes. Until a call is cut short, the
events, attempts and results counted so far agree with the row, and workflows without a
call are at rest (`Worked`, `Rested`). From it every step maps to a step of
`GovernedWork` or a stutter (`PromiseKept`): what `KeepsPromise` says needs no exception.
`GuardInv` tells in which `try` block a call is, which decides where a failure takes it.
`BudgetInv` counts the attempts with the calls that were cut short: each execution has
its own budget, and a workflow is executed again only after one of them
(`Allowance`).

### The task manager

`IInv` says that a stored `awaiting_approval` is never one of a denied task, and that
a call in flight may only commit what its route and its checks entitle it to
(`CallInv`). `OrderInv` relates calls, rows and ledger. What a call holds is what it
wrote last (`Follows`), and a route is legal from each state to the next
(`RouteOrder`), so a call that has begun to write is never refused: a task left
halfway lost a commit. On a task that no two calls wrote at once, every call holds the
row (`TurnsOn`), so the row moves legally, and the one event about to be recorded
starts where the ledger ends (`Explains`, `AfterLast`).

### The store

`OwnInv` is the argument for a process per connection: one transaction is open at a
time, it extends the database by its own operation, and a number read outside it is
compared with the stream again inside. `OriginInv` adds whose events are in it: an
open transaction holds those of operations that came through their commit, and of its
own only at the commit, so nothing of an operation that ends before it. That the next
number exists at all needs a stream to have a largest one (`LeastNumber`, induction
over the naturals in the form of well-foundedness, and `Bounded` in the type
invariant).

### The sign-in

`SessionsEndWithTheirGrounds` and `AutomaticLockEnds` are inductive once the types are
known: each exception they make is itself kept until the step that ends it. `BarHolds`
needs to know what the login that takes the step has read. `Informed` says so: a login
past its judgement read a row that was not barred, and if the account is barred now,
the count of bars has grown since every such reading. `LimitsInv` counts: a process has
one request between two of its statements (`Alone`), so the logins that will still add
a failure are at most the processes, and where the limit is reached one of them is
about to lock the account, or the lock was lifted with the failures kept, or its
process died. The counting lemmas are about cardinalities of finite sets (`OneMore`,
`OneMoves`, `OnePerProcess`).

### The switch and the trail

`AnswerOf` says what a call under way has seen and could have seen: `off` and
`covered` only grow while it checks, and hold of the state of now, so the row it reads
is among them. `AppendInv` says that an append past its comparison still names the tip
of the chain, or is marked as overtaken, and a step of one writer marks every other
append it overtakes; so a record that breaks the chain, or is refused twice, was
overtaken. `Named` and `OnRecord` tie an engagement to a record that is on the trail
before its row is set. `ReplayInv` compares the replayed trail with the halts: where
no operation is under way on a scope the last word about it is the halt in force, or
an engagement whose row failed to be set (`unset`), and an operation halfway has
written either its row or its record (`Halfway`, `SaidLast`).

### The improvement review

`ReviewInv` says what a request knows of its file at each place of its handler: what
`Open` judged still holds of the prefix it loaded (`Reads`), since a ledger only grows
(`ReadsKept`). A ledger whose chain never forked was appended to by one process at a
time, so every append had the whole file in view and its judgement was of the latest
version; `Earned` follows record by record (`Grounded`, `NoteKeeps`). The other two
properties hold between requests, and their invariants say what a request still owes.
`Current`: a row that does not show the latest version has a request about to project
it, by its own write or by a rebuild that has yet to list the ledger or to come to that
proposal (`Projects`), unless the author is `behind` or shares the number. A write that
is overtaken between the load and the row makes the author `behind`, and only a rebuild
that lists the ledger afterwards takes that back. `RulesInv`: a promotion that is
not `torn` and shares no rule's number has at most one request working on it; `Resting`
says what its rules are when it has none, `Working` what they are at each place of that
request. Numbers are compared with the whole file, so the invariant also says that a
marker names a number some record bears (`Borne`). A rollback looks
through the last `Window` entries of the memory, so after it the rules are gone or the
memory is longer than that (`Gone`), which is the exception `RulesStand` makes.

The theorems are of `Spec`, which begins with empty files. The run begins in five
states that requests reach from there, to get further within its bounds.

### The transports

An access on disk concerns one event and leaves the files of the others alone
(`Local`, `Elsewhere`), so the invariants speak of one event. `SafeEvent` is why
nothing is lost: the call on an uncontested event is the only one, the copy it will
move is there, and before it removes a copy another one is whole. For the refinement,
`Shape` says how the files of an undisputed event look at every point of the call on
it, and a step is then a hop from one place of `EventDelivery` to another that it
allows, or a stutter (`Hop`); of a disputed event `EventDelivery` promises only what it
promises of one given up. In memory each operation is a hop.

### The telemetry run

`AccountInv` adds that the ticks read so far were delivered or dropped, so the end of
the output means that all were. `OrderInv` adds that a request which may still be
handled is the current one, and its tick the highest of those taken in, unless it
timed out. For the pause, `CooldownInv` relates the counter to the ticks since the
decision, and `QuietTicks` says that ticks taken in order differ, so as many posts are
as many ticks.

### The live cockpit

`ViewCurrent` speaks of the moment when nothing is on its way. The invariant says what
every other moment owes it: `Served` holds of a connected subscriber when the frames on
their way to it, the one in the writer's hands first and then those that wait, lead
from what it knows, or from its snapshot among them, to the recommendations of now. For
every recommendation either the last frame about it tells its status, or there is none
and the view already does (`Tells`). Three lemmas carry it through the steps. Frames
that say nothing to a subscriber may go or be sent to others (`TellsThinned`); the
frames a route queues tell what it changed (`News`), so the longer queue leads to the
new state (`TellsExtended`); and a frame that arrives makes its own part true
(`AppliedTells`). A full outbox sheds its oldest frames: a subscriber they were for is
`lossy`, and nothing is claimed of it; for the others they said nothing.

What a tick tells depends on what the engine has open. `OneOpen` says that what waits
for a decision is the one recommendation the engine remembers, and that nothing else is
approved and not yet executed, so a tick executes at most one and the order in which it
reports them is no choice.

### What the proofs corrected

Two properties that TLC had confirmed on a small instance had no inductive invariant,
and a larger instance then showed why. `NoUnauditedCompletion` missed the withdrawal of
a row that a second submission had failed (`control_plane/engine.py:883`), which takes
four calls. `FailuresBounded` allowed one further failure per process once; an
administrator's activation allows as many again, which takes five. Both now say what
the code does, and are proved. `TrailKnowsHalts` and the five properties under
`OneAtATime` turned out to need their hypotheses. With failing store operations,
`MaxRetries + 1` attempts and one result per workflow are no longer what one caller
gets: `ExecutionBounded` now counts the attempts per execution and excepts the results
of the workflows that were cut short, as `LeftInOrder` does with their rows.

### Only model-checked

Liveness, which is out of this prover's reach: `CallsReturn` of the engine and
`OperationsReturn` of the store. Every invariant, every action property and both
refinements that the passing runs check are proved, under the hypotheses named above.

## 5. Not modelled

Of the modelled parts: payloads, wording, logs and metrics; tenants in the engine (a
call has one); `verify_chain` and the list queries, which change nothing; closing and
clearing a store; the duration of a handler; nested calls from a handler into the
engine; loss of the database file; the validation of events; figures that trigger a
recommendation, which are a choice; the creation of accounts. The connection level and
the operation level are separate modules: the engine's runs take a store operation as
atomic, though it may fail, which `StoreProcesses` supports for processes, and which
threads that share a connection do not have.

Of the parts that are not modelled:

- Connector gateway (`connectors/gateway.py`): plans and receipts by idempotency key
  in one process. `apply_write` simulates the write: it makes a receipt and calls no
  connector, and only tests call it, so there is no effect yet whose repetition or
  order a model could tell apart. What it will have to answer for once it writes is
  in the hazard list: receipts are looked up and stored without a lock, and a plan
  blocked by the data mode is stored with the others and asks for no approval.
- Codex app modules: create, read, update and delete behind permissions. The punch
  clock looks for an open punch and then inserts one, and `route_limits.py` counts
  like the throttle of the sign-in, which is modelled.
- Business engines, capability packs, customer success, cloud profiles: computations
  on their arguments. A workflow's handler calls them, and to the engine a handler is
  a result, an error or a late answer, which is how it is modelled. They are most of
  the code.
- Release gate, pilot approval and phases, migrations, scripts: batch tools of one
  operator, run from start to end on files, with nobody to interleave with.
- Orchestration: drives the engine one call after the other and stores nothing.
- HTTP API, cockpit and desktop: routing and presentation around the parts above.
- Security policy, classification, secrets, role catalog, contracts: predicates and
  data, constants or flags in the models.
- Observability: nothing decides on it.

## 6. Plan

Done: the state machine, gate and duties; the engine with its abstract promise;
the task manager; the trail and the kill switch; the store's connections; the
sign-in; the improvement review; the transports with theirs; the telemetry run and
the live cockpit. Proved: every safety property and both refinements of these.

Next, in this order:

1. The punch clock and the request limits of the Codex app, as one module of
   check-then-write on a connection.
2. `ConnectorGateway`, once its writes reach a connector: a write at most once per
   idempotency key, and never for a blocked plan.
