# A verification project for izen

izen is a local-first coding assistant written in Go. A model proposes changes
to a workspace; the runtime decides what may be done, does it, and says what it
can prove about the result. This directory holds TLA+ modules that model the
parts of izen where that is decided, done and remembered, TLC configurations
that check them on small instances, and theorems that TLAPS proves for every
instance.

## 1. The system and its parts

| part | code | state it keeps | operations | status |
|---|---|---|---|---|
| execution kernel | `runtime/kernel` | one `State` (four boundary axes, budget, evidence, terminal verdict), an append-only event log, the cancelled flag | `Open`, `Run`, `Cancel`, `Snapshot`, `Fold` | modelled, proved about |
| filesystem capability | `runtime/capabilities/filesystem` | none: it acts on the workspace | `Authorize`, `Invoke` of six capabilities | partly: as outcomes |
| kernel bridge | `internal/kernelbridge` | none between calls: an engine per call | `Observe`, `ReadFiles`, `Apply`, `Delete`, their verifiers and their answers | partly |
| headless runner | `runtime/headless` | none | `Run`, the workspace verifier | partly: the verifier |
| durable task ledger | `internal/runtime/durable` | `ledger.ndjson`, the in-memory tasks, cursors and sequence number | append, replay, audit, reconcile, run an operation once | partly, proved about |
| runtime file lock | `internal/runtime/durable/lock.go` | the lock file, the table of holders of a process, heartbeats | acquire, touch, release | modelled, proved about |
| proposal execution | `internal/runtime/engine.go`, `internal/runtime/scopeguard` | the cursor of the operation in progress | reconcile, dispatch, take effect, verify | partly, proved about |
| event bus | `internal/events` | subscriptions, a bounded telemetry channel and an unbounded control queue each | subscribe, cancel, publish, dispatch, close | modelled, proved about |
| autonomy loop | `internal/autonomy`, `internal/runtime/autonomy` | the loop's state and counters, the driver's run identity and pending proposals, the journal | run, resume, abort, observe, decide, execute | partly, proved about |
| workflow machine | `internal/core/workflow` | lifecycle state | events, guards, the checkpoint before a build | partly |
| phase manager | `internal/runtime/orchestrator` | logical phase, bound plan | transition, force, park, resume, reset, fail | partly |
| workspace and artifact locks, stream reader, approval and authorization engines, proposals and gates, executor, sessions and checkpoints | `internal/pkg`, `internal/core/stream`, `internal/core/authorization`, `internal/runtime/...`, `internal/session`, ... | | | not modelled |
| retrieval, parsing, prompts, providers, UI, configuration, telemetry | `internal/retrieval`, `internal/providers`, `internal/ui`, ... | caches and views | text in, text out; network I/O | not modelled |

`PROJECT.json` lists every part with its source and the reason when it is not
modelled; section 7 gathers the reasons.

### How they interact

A caller (the UI's autonomy target, the commit path of the executor, patch and
tool-call execution) asks the **bridge** for one of four things. The bridge
builds a contract, a program of steps, a grant that names exactly the
destinations, and a verifier, and opens an **engine**. `Open` admits the request
or refuses it. `Run` walks the program: budget, grant, authorizer, registry,
the capability's own gate, then `Invoke`, which is the only thing that touches
the disk. Each transition is an **event**: `emit` reduces it into the state
under the engine's mutex and appends it to the log after the unlock. When the
program ends, the verifier looks at the disk again, and the outcome is
adjudicated from the evidence. The bridge then answers questions (`Landed`,
`Deleted`, `Created`, `Exists`, ...) from that evidence.

Above it, the **autonomy driver** runs a bounded loop (observe, decide, execute)
in the goroutine of whoever called `Run` or one of the `Resume` entries; the
operator's `Abort` comes from another. The loop asks the **phase manager**,
which moves the shared **workflow machine**, before it lets a build mutate
anything, and it writes what it is about to do, and what came of it, to the
**durable ledger** as the cursor of a task. The ledger appends each record under
the **file lock** and folds it into memory; after a restart it replays the file.
Progress is announced on the **event bus**, whose subscriptions each have a
goroutine of their own.

### What is hard

* Several goroutines may call `Run`, `Cancel` and `Open` on one engine, and a
  reduction and its append are not atomic.
* Cancellation, a finished context, a refusal and a failing system call each
  race the end of a step, the verification and the settlement.
* A step can change the disk and then fail, before any evidence is recorded.
* Other processes edit the workspace between a step and the check of it.
* Authority is checked twice, with different target sets.
* Logs are replayed by code that did not write them.
* A crash in the middle of an append leaves a torn line; a write that fails may
  have reached the disk; two stores may append to one ledger.
* A lock is a file that is read first and written later, and its holder may be
  slow rather than dead.
* An effect happens between two records, and the program may end at any of
  three points around it.
* Two priority classes share a dispatch loop that can be woken, cancelled and
  closed at any step, also by a handler.
* An autonomy run is superseded by the next one while its goroutine is still
  inside an adapter; the superseded goroutine then finishes on shared fields.
* A refused phase hop may already have moved the machine.

The `hazards` of `PROJECT.json` give each of these its source line and the
properties that would notice it going wrong.

### What makes each part correct

* **Kernel**: nothing is done without authority; declared bounds hold; PROVEN
  is earned; a verdict is final; a run always returns and settles; the log
  explains the state and cannot be damaged unnoticed.
* **Bridge**: an answer about a destination is true of the disk, or the
  execution did not settle PROVEN; what reached the disk is reported.
* **Ledger**: memory is what a replay would give; one failure costs at most one
  record; an operation that took effect was announced first; a commit is
  recorded only for an effect that was verified.
* **Lock**: exclusion is broken only by the races the lock's own design admits;
  whoever took the lock last keeps it.
* **Bus**: control events arrive exactly once and in order; telemetry drops are
  counted; a closed bus is silent.
* **Autonomy**: the declared bounds hold for all the calls of a process
  together; Completed is proven; the journal says what happened; a run that was
  stopped executes at most one more action; every call returns.
* **Phases**: a hop that reports success is real; building is licensed; a run
  parked for a human leaves only by a decision.

## 2. The modules

    KernelReducer            pure: vocabularies, admission, budget, adjudication,
      |                      reduce (Accepts / Reduced), Fold
      +-- KernelReducerProofs   lemmas about them (TLAPS)
      +-- KernelFold         the reducer against an arbitrary producer of events
      |     +-- KernelFoldProofs  theorems (TLAPS)
      +-- FilesystemCapability   pure: outcomes of Invoke, gates, verifiers
            +-- KernelEngine     the state machine: Open, Run, Cancel, environment
                  +-- KernelBridge       the four entry points and their answers
                        +-- KernelProofs  theorems about both (TLAPS)
    DurableTask              pure: the fold of a task's records and its cursor
      +-- DurableTaskProofs  lemmas about the folds (TLAPS)
      +-- DurableLedger      append, replay, audit, restart, two stores
      |     +-- IdempotentRunner   operations and proposals over the ledger
      |           +-- DurableProofs  theorems about both (TLAPS)
      +-- AutonomousRun      the driver: calls, the loop, the journal
            |  uses RuntimeLoop   pure: the loop's states, bounds and moves
            +-- AutonomousRunProofs  theorems (TLAPS)
    DurableLock              the lease
      +-- DurableLockProofs  theorems (TLAPS)
    EventBus                 the bus; implements ControlChannel
      +-- EventBusProofs     theorems (TLAPS), the refinement among them
    ControlChannel           the abstract promise: a FIFO per subscription
    WorkflowMachine          pure: events, guards and edges
      +-- PhaseManager       the phase over the machine
    MC...                    instances for TLC

**KernelReducer.** `Accepts(x, s, e)` and `Reduced(x, s, e)` are the two halves
of `reduce` (reduce.go): when it returns no error, and the state it returns.
`States` is `State` with its four axes; the four typed axes keep the code's
names (`provider`, `artifact`, `mutation`, `verify`). The evidence log is a set
of records stamped with the revision that admitted them, because adjudication
asks only for existence. `AdmissionRefusal` is the order of checks in
`Engine.Open`. `Unmet` and `Adjudicate` are `contractClauses` and `adjudicate`
(outcome.go). `Fold` is `Fold`. The empty string is the code's own "nothing".

**FilesystemCapability.** A workspace is a function from targets to contents.
`Invocations(step, ws, done)` is the set of (workspace, observation) pairs one
`Invoke` may end in, with the verdict, the facts, `OutputBytes` and the sum of
the facts' `Bytes`. An invocation that returns an error has a `cause`, what
`errors.Is` finds in it: a context that was cancelled, one whose deadline passed,
or neither; `classForCapabilityError` reads the class of the stop off it. System
calls may fail (`Faults`). `file.delete` looks,
removes and looks again; `Recreations` are the outcomes where another process
acts between. `Judge` is one target of each verifier the callers bind.

**KernelEngine.** One action per stretch of `Run`/`runStep`/`verify`/
`settleFailure` (engine.go, dispatch.go) between two points where somebody else
can act:

| action | code |
|---|---|
| `Open` | `Engine.Open` |
| `Enter`, `Start`, `Check` | the head of `Run`, `execution.started`, the top of the loop |
| `Dispatch` | `runStep` up to `step.started`: budget, grant, authorizer, registry, gate |
| `Invoke`, `InvokeRecreated` | `cap.Invoke` |
| `Evaluate`, `Evidence`, `ProjectMutation`, `ProjectArtifact`, `NextStep` | `runStep` after the call, `projectAxes`, the context check of `Run` |
| `Verify`, `JudgeTarget`, `Conclude` | `verify`, one target of the verifier at a time |
| `Stopped`, `Fail`, `Failing`, `Settle`, `Return` | the returns of `Run`, `settleFailure`, `settle` |
| `AppendEvent` | the second half of `emit` |
| `Cancel`, `Withdraw`, `Edit` | `Engine.Cancel`, the caller's context, another process |

`outbox` holds the event a caller has reduced but not yet appended. A refused
emission leaves the state alone and sends the caller where the code goes. The
history variables `effects` (what this engine changed on disk) and `calm` (no
foreign edit since the check began) are read by no action.

**KernelBridge.** The specs, grants and bounds of the four entry points
(`observationSpec`, `readSpec`, `deletionSpec`, `mutationSpec`), and the
answers, from the evidence, that the callers use.

**KernelFold.** `reduce` is exported through `Fold`; here any event of an
alphabet may be offered in any order. This reaches suspension, rollback,
restarted checks, and false claims, none of which the engine itself produces.

**DurableTask.** The part of a task's state the other modules need: a cursor
with its state, operation and history, and `Folded(task, record)`, one case per
event type of the fold (store.go). A record that no case knows leaves the task
alone, as in the code.

**DurableLedger.** The file is a sequence of lines, whole or torn, each with the
number its writer gave it. `Record` is the append under the lock: write, sync,
fold; the write may tear (a crash) or fail after some or all of the line reached
the disk. A reclaimed lock is noted first, and the error of that note is dropped,
so the two writes of one `Record` fail independently.
`Replay` and the audit say what `Open` reads and what it reports. Two stores
hold the file, each with its own counter. History: what was acknowledged.

**IdempotentRunner.** `IdempotentRunner.Run` and `ExecuteProposal` over one
store: reconcile, record the dispatch, take the effect, record its commit and
its verification, with a restart between any two of them and another process
acting on the workspace.

**DurableLock.** `Acquire` reads, judges and writes in three actions (and checks
the process's table apart from registering in it); `Touch`, `Release` and the
heartbeat likewise. A process may die and its pid may be reused.

**EventBus.** The subscription's goroutine is a program counter over the
statements of `dispatchLoop`: drain a bounded number of control events, look at
both channels, hand over one event. `Publish` walks the snapshot of the
subscriptions; `Cancel` and `Close` are channel closes and a wait. History:
what was offered to a subscription and what its handlers saw.

**ControlChannel.** The promise, in three variables: events handed to a
subscription wait, are delivered in that order, once each, and while the
subscription is live a waiting event is eventually delivered. In `EventBus`,
`Channel == INSTANCE ControlChannel WITH ...` maps what waits to the part of the
control queue that no handler was given yet, so an event in the loop's hand still
waits; `ImplementsChannel` is `Channel!Spec`, a property of the run, fairness
included, and `BusImplementsChannel` proves its safety part,
`ImplementsSafeChannel`.

**RuntimeLoop.** The nine states of the loop, its legal moves (`step`), its
bounds with their counters, and what a decision costs. Pure.

**AutonomousRun.** A call (of `Run`, `Abort`, `Approve`, `Reject`, `Clarify`) is
a record with a program counter; its goroutine advances over the driver's shared
fields and the loop, one action per stretch between two adapter calls.
`runID` and the set of cancelled runs are the superseding guard as the code has
it. `Termination` is the getter of that name and an `Abort` that comes too late: both
go through `term` and may write the record of the end. `Crash` loses everything
but the journal. The decision matrix is reduced to the actions it may propose
after an outcome; `Routed` is what the router of the objective may make of an
action it finds unsubstantiated, and both completions that are refused and
failures go through it.

**WorkflowMachine.** `lookup` and `SendEvent`: edges, guards, the target of a
failure by its class, and the checkpoint that must exist before a state in which
something may mutate.

**PhaseManager.** Each operation holds the manager's mutex throughout, so each is
one action; within it the machine moves event by event and may stop half-way.
An operation is a chain of operators on a position (state and phase) that says
where it ended and whether it succeeded. `smPath` is the search over unguarded
edges.

### Abstractions

Contents, paths and identifiers are model values or short strings; sizes are
numbers. Wording, timestamps, identifiers and JSON are left out. Path
confinement is a gate that may refuse (`GateRefusals`). A write is its rename.
A step whose capability is not registered is refused by `Open` with
`INVALID_SPEC` here and `CAPABILITY_UNAVAILABLE` in the code; both settle FAILED
and nothing else differs. `command.run` has no implementation in the
repository; what any capability bound to it may report is modelled, from the
kernel's use of it: delivered or truncated output, and an error of any cause, that
of a context of its own included. Its gate is taken to refuse as the
repository's gates do, with one of their two classes (`asBlock` would pass on any
other class that such a gate names). A torn line is one that does not decode. A lock file that
does not decode is a lock file that is not there, as the code reads it. The
bus's compaction of its queue is left out: taken events stay in front of the
head. An approval's call of its adapter is one action with the approval.

## 3. The runs

| run | instance | shows |
|---|---|---|
| `MCKernelEngine_single` | 1 caller, 2 targets, 2 contents, faults, 1 foreign edit, 11 requests | `TypeOK`, `DispatchWithinBudget`, `EffectsAreGranted`, `VerdictsAreBacked` (PROVEN is earned, adjudicated effects are recorded) |
| `MCKernelEngine_pair` | 2 callers, 1 target, 1 content, cancellation of either | `LogIsTheRecord` (the events explain the state, the boundaries are backed), `StepsDispatchedOnceInOrder`, `ReadOnlyContractsAreReadOnly`, `StopsAreAttributed` (with the errors a command may end in), `SettledIsFinal`, and the liveness `RunsEnd` (every run returns, a started execution settles) |
| `MCKernelBridge` | 1 caller, 2 targets, faults, reads clipped at 1 byte, 1 foreign edit | `AnswersAreTrue` (claims match the disk, a deletion is a removal, writes are reported, created means alone), `BoundsFitTheProgram` |
| `MCKernelFold` | 18 offered events, logs of up to 6, two contracts | `DamagedLogsAreRefused`, `AcceptedHistoriesAreSound` (mutations come from mutating steps, verdicts follow their check, refutations stand) |
| `MCEventBus` | 1 subscription, 2 publishers, 2 events each, 1 closer, buffer 1, drain bound 1 | `TypeOK`, `NoControlIsLost`, `PublishersAreInOrder`, `TelemetryIsAccounted`, the liveness `HandlersAreBounded` (the channel is served, few handlers run late) and `CloseJoins`, and `ImplementsChannel` |
| `MCDurableLedger` | 2 stores, 4 lines, 2 faults | `LedgerTypeOK`, `EachTearCostsOneRecord`, `MemoryIsReplay`, `CurrentStoresNumberCleanly` |
| `MCIdempotentRunner` | 1 store, 2 operations, 3 calls, 5 lines, 1 fault, 1 foreign act | `EffectsAreLicensed`, `CommitsAreEarned`, `EffectsWaitForReconciliation` |
| `MCDurableLock` | 2 processes, 3 handles, 2 faults | `LockTypeOK`, `HandlesAreApart`, `OnlyRacesBreakExclusion`, `SuccessorIsOnFile` |
| `MCAutonomousRun` | 2 calls, 2 attempts, 1 recovery cycle, 1 fault | `TypeOK`, `WithinBounds`, `CompletedIsProven`, `RecordsAreTrue`, `AtMostOneLateExecution` |
| `MCAutonomousRun_returns` | 2 calls, 1 attempt | the liveness `RunsReturn` |
| `MCAutonomousRun_unrecorded` | as above | expects a violation: `EndedRunsAreRecorded`, section 5 |
| `MCPhaseManager` | failures of two classes, failing checkpoints and lineage writes | `HopsAreReal`, `MutationIsLicensed` (building is licensed, refusals grant nothing, parks are decided) |

Why the bounds are enough.

* *Kernel.* The engine reads one step and one target at a time and remembers
  nothing of earlier steps but counters and evidence, so two steps and two
  targets show every order of them; the requests of `single` are chosen so that a
  refusal by the grant, each bound (total, per capability, output), a missing
  verifier and every capability occur; the pair adds a contract that is refused
  as invalid. One foreign edit suffices to make one record stale; it may happen
  at any point. Two callers are enough for the race of two `Run`s, because the
  reducer admits one of them and every further one would be refused as the second
  is; the pair does without faults, which are independent of the second caller
  and covered by `single`. In the fold six events are the least that hold start,
  check, verdict, a second check or a rollback, and the end.
* *Bus.* Subscriptions share only the publishers' walk over them; one shows a
  full buffer (of one), a drain that yields (after one) and two publishers in
  either order. A second closer would only return.
* *Ledger.* Damage needs a tear, the append after it, and one line of another
  store: four lines. The second fault is the failure of the recovery. The runner
  reuses the ledger with one store: three calls are a first try, its repetition
  after a restart and the other operation.
* *Lock.* A race has two processes; the third handle is the second one of a
  process, which the in-process table guards.
* *Autonomy.* Two calls give a superseded and a current goroutine, or a run and
  its abort. Two attempts and one recovery cycle reach every bound from below
  and above. One fault is a failed journal write at any point.
* *Phases.* No bound: the machine is finite and is explored whole, for a failure
  that leads to repair and one that leads to the failed state.

`CHECK_DEADLOCK FALSE` is stated where the modelled system rightly stops: a
settled engine, an exhausted number of calls, lines or events. The lock and the
phase manager run with the check.

Fairness. `FairSpec` of the kernel is weak fairness of `Work(c)` for each caller:
goroutines are scheduled, and a capability and a verifier return (they are given
a context and make bounded system calls). The bus assumes weak fairness of each
subscription's loop, handlers included, and of a publish or a close once it has
begun. `AutonomousRun` assumes it of each call that is under way: an adapter
returns. Nothing is assumed of starting an operation, of cancellation, of
crashes or of the environment.

Each property of a passing run has a mutant in `PROJECT.json`: a plausible bug
in the code's translation (a dropped guard, an off-by-one, a forgotten reset)
under which TLC finds the property violated.

## 4. What is proved

| module | theorem | says |
|---|---|---|
| `KernelReducerProofs` | (lemmas) | what `reduce` and `Fold` return, for every event and log |
| `KernelFoldProofs` | `DamageRefused` | `Spec => []DamagedLogsAreRefused` |
| | `HistoriesAreSound` | `Spec => []AcceptedHistoriesAreSound` |
| `KernelProofs` | `TypeCorrect` | `Spec => []TypeOK` |
| | `EffectsGranted` | `Spec => []EffectsAreGranted` |
| | `ReadOnly` | `Spec => []ReadOnlyContractsAreReadOnly` |
| | `SettledFinal` | `Spec => SettledIsFinal` |
| | `StopsAttributed` | `Spec => []StopsAreAttributed` |
| | `OwnStopsAreAskedFor` | `Spec =>` every CANCELLED and INTERRUPTED was asked for, when no `command.run` is registered |
| | `LogKept` | `Spec => []LogIsTheRecord` |
| | `StepsInOrder` | `Spec => []StepsDispatchedOnceInOrder` |
| | `BudgetKept` | `Spec => []DispatchWithinBudget` |
| | `VerdictsBacked` | `Spec => []VerdictsAreBacked` |
| | `BudgetIsRefused` | `Spec =>` only a program that exceeds its budget settles BUDGET_EXHAUSTED |
| | `EvidenceIsATrace` | `Spec => [](TraceInv /\ DiskInv)` |
| | `DeletionsHappened` | `Spec => []DeletedIsARemoval` |
| | `CreationsAreTrue` | `Spec => []CreatedWhenAlone` |
| | `BridgeBoundsFit` | `Spec => []BoundsFitTheProgram`, for requests of the entry points |
| | `JudgedIsSo` | `Spec => []JudgeInv`, for requests of the entry points |
| | `ClaimsMatch` | `Spec => []ClaimsMatchDisk`, for requests of the entry points |
| | `WritesReported` | `Spec => []WritesAreReported`, for those and one caller |
| | `AnswersTrue` | `Spec => []AnswersAreTrue`, for those and one caller |
| `EventBusProofs` | `BusTypes` | `Spec => []TypeOK` |
| | `ControlSurvives` | `Spec => []NoControlIsLost` |
| | `TelemetryAccounting` | `Spec => []TelemetryIsAccounted` |
| | `OrderKept` | `Spec => []PublishersAreInOrder` |
| | `HandlersBounded` | `Spec => []HandlersAreBounded` |
| | `SilentAfterClose` | `Spec =>` no handler starts once a `Close` has returned |
| | `BusImplementsChannel` | `Spec => ImplementsSafeChannel` |
| `DurableLockProofs` | `LockTypes` | `Spec => []LockTypeOK` |
| | `ApartInAProcess` | `Spec => []HandlesAreApart` |
| | `ExclusionUnlessRaced` | `Spec => []OnlyRacesBreakExclusion` |
| | `SuccessorKept` | `Spec => []SuccessorIsOnFile` |
| `DurableTaskProofs` | (lemmas) | folds of events, for every sequence of them |
| `DurableProofs` | `LedgerTypes` | `LedgerSpec => []LedgerTypeOK` |
| | `TearsCostOneRecord` | `LedgerSpec => []EachTearCostsOneRecord` |
| | `MemoriesAreReplays` | `LedgerSpec => []MemoryIsReplay` |
| | `NumbersAreClean` | `LedgerSpec => CurrentStoresNumberCleanly` |
| | `CommitsEarned` | `Spec => []CommitsAreEarned` |
| | `EffectsWait` | `Spec => []EffectsWaitForReconciliation` |
| | `EffectsLicensed` | `Spec => []EffectsAreLicensed`, with one process |
| `AutonomousRunProofs` | `DriverTypes` | `Spec => []TypeOK` |
| | `BoundsKept` | `Spec => []WithinBounds` |
| | `LateOnceKept` | `Spec => []AtMostOneLateExecution` |
| | `RecordsTrue` | `Spec => []RecordsAreTrue` |
| | `CompletionsProven` | `Spec => CompletedIsProven` |

Each is for every value of the constants that the assumptions allow,
`EffectsLicensed` for every instance with one process, and five of the bridge's
for every instance whose requests are the entry points' own (below).

**Kernel: the reducer alone.** `Fold` is a fold over sets of indices, so what it
computes is proved from the least prefix that would refute it: `ReplayStep` and
`FoldStep` are its recursion, `Inductive` the rule for a predicate fixed
beforehand. `RejectedStays`: a replay that has failed stays failed, and
`FoldRefuses`: a record that does not carry the next revision makes it fail. So a
damaged copy of a log is refused at the first place where it differs, provided the
state's revision counts the log (`Reads`, which is inductive). `HistoryInv` is
the invariant behind `AcceptedHistoriesAreSound`: each verdict and each crossed
boundary in the state has its event in the log and nothing later against it
(`Checked`, `Crossed`, `Recovered`), so that a proven outcome, computed from the
state alone, finds no refutation left standing in the history (`Standing`). The
alphabet of the theorem is any set of events, forged ones included.

**Kernel: grants and stops.** None of these is inductive. `EffectsAreGranted`
needs to know, at `Invoke`, that the authorizer allowed *this* step of *this*
request, which was established one action earlier, with an append, a
cancellation and other callers in between; `SettledIsFinal` needs that `Open`
cannot replace the state of an execution. `IInv` strengthens them with

* `Placed`: a caller inside `Run` works on an admitted request; where it speaks
  of a step, the program has that step; at `invoke` the authorizer has allowed
  it; at `judge` a verifier is bound;
* `Admitted`: the held request passed every check of `Open`;
* `Blank`: before the first admission nothing was done.

The argument: the reducer yields states (`ReducedType`), the capabilities yield
observations and change only a named target (`InvocationType`,
`RecreationType`); an emission, a move and a stop each keep `IInv`
(`EmitStep`, `MoveStep`, `StopStep`); then one lemma per action, and `NextOK`.
`SettledFinal` follows from `Unsettled` in `Accepts` and from `Blank`.

`StopsAttributed` needs a second strengthening, `SInv`: a class may travel from
where the stop was noticed (the loop, a failed invocation, the check after a
step, the override of a block in `Run`) through a block and a result before it
becomes a verdict, and every class on that way is `Legit` already: CANCELLED
only if `Cancel` was called, INTERRUPTED only if a context ended, or either
because an invocation of `command.run` ended with an error that wraps
`context.Canceled` or `context.DeadlineExceeded`. For the last, `SInv` relates a
caller's place to the observation in its hand: an error is kept to the end
of `Run`, and one with a cause under a live context is a command's
(`MayFollow`). `OwnStopsAreAskedFor` drops the exception: `Open` admits no
program with a capability that is not registered, so where `command.run` is not,
as in this repository, nothing stops unasked.
`LegitEmit` is the step from a class to a verdict, `LegitOutcome` says that no
other class has these two outcomes. BUDGET_EXHAUSTED is legitimate only for a
program that exceeds its budget, which takes the account: `Charged` bounds what
the reducer has charged by the steps the runner has behind it (`Passed`), so at
the check of a step there is room for it if there is room for the whole program
(`Fits`). This is `BudgetIsRefused`; with several callers it needs `OneRunner`.

**Kernel: the log, the order, the budget, the verdicts.** The second part of
`KernelProofs` summarises every step of the engine once (`StepIs`): a caller emits an event
that the reducer accepts, moves on in silence, or appends what it emitted. The
invariants are stated on `Emitted`, the events reduced, appended or not, and
read off the log at the end.

* `RecordInv`: what was emitted carries the revisions 1 to the current one, once
  each (`Numbered`); in that order it folds to the state (`Explained`), so the log
  does as soon as no outbox is full; and each boundary that the events report
  crossed has its evidence before it.
* `DispatchInv`: at most one caller is past `execution.started` (`OneRunner`),
  which is where two racing `Run`s are told apart; what it dispatched lies behind
  its position in the program (`InOrder`); and it is ahead of the account in the
  state by the one step in flight and no more (`WithinBudget`), because the check
  reads an account that is charged only when the evidence is reduced.
* `VerdictInv`: what the runner changed on disk is recorded, or is what it holds
  in hand between the invocation and the evidence (`EffectsRecorded`); who has
  begun to judge has logged the start of the check after the last evidence, and
  who settles a contract that demands a check has logged its end (`Earned`).

**Bridge: the bounds and the answers.** `EntryPoints` is the set of executions
that `Observe`, `ReadFiles`, `Delete` and `Apply` build, for all sequences of
targets within the bounds and all prepared sets of writes. The theorems assume
`Requests \subseteq EntryPoints`: the engine of the bridge gets no other, and
`Open` is left to refuse what it refuses. `EntryShape` is what the proofs use of them
(`EntriesAre`): a verifier that applies, programs of one kind of step, or of
observation and write in turn, and room for every step, from which
`BridgeBoundsFit` follows.

The answers relate the evidence to the disk, which no invariant of the kernel does.

* `TraceInv`: the records are spoken by steps of the program (`Witnessed`), one
  step per event (`Together`), in program order and behind the runner
  (`Sequenced`); the record of a write has its record of presence (`Siblings`).
  So the last record of a target is the last step's.
* `DiskInv`: a record of a removal has the removal among the effects. While nobody
  else edits, what was found missing is still missing or was created by this
  execution (`Accounted`), and a write recorded after such a finding created the
  file. Both speak also of what a caller holds in hand between the
  invocation and the evidence. `DeletionsHappened` and `CreationsAreTrue` follow,
  for any request.
* `JudgeInv`: a check under way has judged every target before its position good
  (`GoodTo`), and PASSED means all, as long as the tree is calm: no edit since the
  check began. The evidence does not change under the check (`Earned`).
  `ClaimsAreTrue` reads the four claims off the judgement of each verifier.
* `ReportInv`: a write is recorded, or in the hand of a caller that will record
  it, and nobody settles an execution that is at work (`RunningOn`).

`RunningOn` is where one caller (`Alone`) is needed, and the code has one: each entry
point makes an engine of its own and calls `Run` once (apply.go:324,
delete.go:89, read.go:216, kernelbridge.go:238). With two, TLC shows
`WritesAreReported` violated: the loser of the race settles the execution
between the winner's write and its record, which is then refused. The other
parts of `AnswersAreTrue` hold for any number of callers.

**Event bus.** The invariant counts: what was offered to a subscription is, in
order, what its handlers saw, the event in the loop's hand if it is of that
class, and what still waits; for telemetry, with the dropped ones counted. It
says at each place of the loop whether the hand is full (`Hands`) and how far the
handler has come in the queue (`Taken`), which none of the properties mentions.
The refinement theorem uses it for the step in which the loop takes an event:
abstractly that is a stutter, and the hand-over to the handler is the abstract
delivery.

The order of one publisher's events (`OrderInv`) rests on what it is serving: an
event still to be queued somewhere is its latest, and everything of it that
waits there is older. `PaceInv` relates a streak of control handlers to the count
of the drain it belongs to, and gives at every place of a cancelled loop how many
handlers it may still start (`Left`): what is late and what is left are at most
three. `ShutDown` says what a `Close` that has come back has waited for.

**Lock.** Exclusion is not an invariant of the code (section 5), so the theorems
say exactly when it may be lost. `IInv` has the handles of a process apart
(`Apart`), the holder in its table and the dead idle. `Reliable` relates the
file, the handles and what each operation in progress has read: a reading that
is still current (`current`) still says what its reader will act on, the last
handle to take the lock is on file, and without late heartbeats its lease runs.
It is an invariant as long as nobody acted on a reading that was out of date
(`Clean`).

**Folds.** The task records are folded with `FoldLeft`, which is defined by a
recursion over sets of indices. `DurableTaskProofs` shows what it computes for
every sequence without an induction rule: the prefixes at which it would fail
form a set of numbers, and `LeastNumber` gives its least element. `IsRun` is the
recursion behind a fold; it has a solution (`SolutionRuns`), the fold is where
that ends (`RunsTo`), a fold over one more element is one more step of it
(`RunOfMore`), and a fold stays in whatever set its step keeps (`RunIsTyped`). The ledger and the driver cite these.

**Ledger.** `FileOK` has the type of the file, `Unheard` (while the file is torn
its last line was not acknowledged to anybody) and `TearsPaid` (the accounting
that is the property). `Unheard` is what makes a tear cost one record and not
two: the next append runs into a line that nobody was promised. For the memory,
`replayLocked` is written line by line (`ReadLine`, `Audited`), so a line more in
the file is a step more of each fold (`ReplayOneMore`), and `Extends` says what a
write that came back clean does to both. A current store stays so (`MemoryInv`);
the store that did not write loses its claim. `NumbersAreClean` is the same
lemma read as a step: the next number adds no gap and no repeat (`NumberedNext`).

**Runner.** `RunnerInv` composes the ledger's invariant with the calls': a step of
the runner that writes is a step of the ledger, so `LedgerKept` carries over.
`EarnedInv`: an operation named by a commit marker on file or by a call about to
write one was seen in the tree. `WaitingInv` relates the call to the store's view:
until the digest is read, what is in flight is on the call's list, and at the
effect nothing is but its own operation. `LicenceInv` is an accounting again: an
operation's effects, the licence a live call holds, and the one the tree gives by
being its precondition are together covered by what was granted.

`EffectsLicensed` assumes one process at the ledger, as the runner's run does.
With two it is false, of the model and of the code: the lock is held around
each append, not from the reconciliation to the effect, so both may find the
tree at the precondition, and TLC shows both effects. One process may crash and
come back any number of times; the theorem covers that.

**Autonomy.** The first question is who can step the shared loop. `IInv` has the
loop typed and within its bounds (`LoopIn`, which every method keeps: one lemma
each, `SteppedWithin` being the one in which a bound is checked before and after
the decision), calls numbered by `runID` (`Numbered`: who is active or cancelled
has a number, so a new or resumed call cannot be cancelled already), and
`LateOnce`: a call that has executed late is at none of the places from which it
could reach the executor without passing the head of the loop, where the
cancellation is seen.

`TypeInv` types the journal: every operation written has a name within the
bounds, so a resumed run never invents one. `ParkInv` says that a loop that waits
has had its park written as the last word, or has a call on its way to write it.
`ControlInv` is the part about completion: unless a Run began beside an aborted
call, only the latest call has something under way (`Alone`), a completion was
proven when it was decided and nothing was decided since (`Backed`), what is
staged is at the gate and earned (`Staged`), and what is executed is what was
dispatched (`Latched`). `Marked` reads the cursor: a committed operation is
earned. `RecordsTrue` follows from `Marked` and `ParkInv`; `CompletionsProven` is
the step from `Backed` to the journal.

**Assumptions.** The proofs rest on assumptions that TLC evaluates in the runs,
shapes of the constants all of them: `NoneAssumption` (the empty string is a
string, which the prover's encoding does not know), `FilesystemAssumption`,
`FoldAssumption` (requests that `Open` admitted, with a sequence as their program),
`EngineAssumption` (`RequestShape` does not assume that requests are valid; a
budget may be any integer, as in the code, where zero or less is no bound),
`BusAssumption`, `LockAssumption`, `TaskAssumption`, `LedgerAssumption` (there is
a task, and what clients record are events), `RunnerAssumption`,
`LoopAssumption`, `DriverAssumption` (the workspace has a digest).

**Only model-checked.** Liveness (`RunsEnd`, `CloseJoins`, `RunsReturn`, the
fairness of `ImplementsChannel`): fairness and ENABLED are beyond the prover.
The phase manager has no parameter but the number of calls: TLC explores the
machine whole. Every other invariant of the runs is a theorem. An induction principle that
takes a predicate cannot be instantiated here; what is proved by
induction is proved from the least counterexample, for the fixed folds above.

## 5. Where comments and code disagree

One disagreement has a run.

* `EndedRunsAreRecorded` (`MCAutonomousRun_unrecorded`): driver.go:3340 says that
  "every return path funnels through here, so this is the single point at which
  'how did the run end' is written to the journal". `terminateAbort` builds its
  result without `term`: a run ended by a cancellation, the operator's `Abort`, a
  ceiling or a failed resume stays open work in the journal until somebody calls
  `Termination` or `Abort` again, and a restart before that offers it as such.

The others were met while modelling; each is a behaviour of the modules above.

Kernel and bridge:

* state.go:66, "A truncated delivery can never contribute to a PROVEN outcome":
  `adjudicate` never reads the provider axis.
* state.go:100, the mutation axis is "what actually happened on disk": a write
  over the output bound is renamed into place and then refused, with no evidence
  and the axis at NONE.
* spec.go:22, DELETE needs an "observation that the target is now absent": an
  absence recorded before a later write suffices when the bound verifier does not
  look. The absence verifier accepts any absence record, while its comment says
  that the last one wins (delete.go:214).
* failure.go:65 and outcome.go:37, CANCELLED means that "the caller withdrew the
  execution deliberately": `classForCapabilityError` (dispatch.go:453) looks
  into the error of an invocation under a live context, so a capability whose own
  context is cancelled, or times out, settles the execution CANCELLED, or
  INTERRUPTED, with nobody having asked. It takes a capability that makes a
  context of its own, which none of the repository's does; it is the exception in
  `StopsAreAttributed`.
* engine.go:152, cancellation "produces OutcomeCancelled": after the last step
  nothing looks at the flag unless verification fails.
* engine.go:230 calls a program stopped for authority after its first write
  "exactly the partial-authority outcome a grant is supposed to make impossible":
  a mutating step without a target passes `Open`.
* kernelbridge/apply.go:206: another process can create the file between the look
  and the write, so `Created` is answered over an overwrite. (Alone it is right:
  part of `AnswersAreTrue`.)
* filesystem.go:799, a FAIL means that "the removal did not happen": the
  confirming look can fail after the removal happened.
* reduce.go:160, "An event asserting a mutation that no evidence backs is
  refused": any evidence, also that of a read, is accepted.
* reduce.go:85 says that "a step that ran is always charged"; a step whose
  invocation failed, overran or reported FAIL returns before the charge.
  `DispatchWithinBudget` holds nevertheless, because the run stops.
* the output bound is tested with `OutputBytes` and charged with the bytes of
  the evidence, which a write states twice (budget.go:148): a write of n bytes
  consumes 2n of the bound.
* authorization.go:90 reads an empty grant target list as the contract's
  targets; `DefaultAuthorizer` passes the grant's own list, so such a grant is
  admitted by `Open` and refused at the first step with a target.
* engine.go:73 says UNSUBSTANTIATED for a required check without a verifier; the
  code settles FAILED (VERIFICATION_FAILURE).
* kernelbridge.go:429: a context that ends during verification settles FAILED,
  because the verifier's error becomes `verification.failed`; the same holds for
  `workspace.discover` under a finished context, which reports FAIL.
* state.go:251 says that a log replayed against a different grant fails to fold;
  no event is held against the grant.
* result.go:31: the revision of a failed result is 0 when the failure could not
  be emitted.
* the loser of two concurrent `Run`s settles the execution as FAILED
  (INVALID_SPEC) while the winner is at work; the winner then stops, and what it
  has done stays done. `StepsDispatchedOnceInOrder` and `SettledIsFinal` hold.
* the log can hold two events in the opposite order of their revisions;
  `LogIsTheRecord` therefore orders by revision.
* an ANSWER contract cannot settle PROVEN with the capabilities of the
  repository: nothing produces RESPONSE_PRODUCED but `command.run`, which ANSWER
  forbids as mutating.

Event bus:

* a second concurrent `Close` returns before the subscriptions have joined, and a
  `Close` called by a handler waits for itself. `CloseJoins` is about the first
  closer, outside handlers.
* the events of two publishers can reach two subscriptions in different orders;
  a publisher's own are in order everywhere (`PublishersAreInOrder`), for
  telemetry too as far as the loop does not yield in between.
* a telemetry event already taken can wait behind more than
  MaxConsecutiveControlDrains control events.
* the comment of `Publish` has the publisher of a control event wait for space in
  the queue; the queue has no bound, and no publisher waits.

Ledger and proposals:

* a crash in the middle of an append leaves the lock file behind, so the next
  `Open` reports a reclaimed stale lock and appends past the torn tail: the
  record after a tear is glued to it and lost. That loss is reported unless the
  tear came from a write error that the process survived, or the restart had the
  same pid (store.go ~977 says what the code "must never do is accept the journal
  silently"). `EachTearCostsOneRecord` is what remains true.
* a failed sync leaves a whole line whose number is used again; two stores number
  from their own counters (`CurrentStoresNumberCleanly` is the condition under
  which numbers are clean).
* `RebuildSnapshot` reclaims a stale lock without noting it; `snapshot.json` is
  written and never read.
* a reset for SAFE_RETRY is in memory only, while gateway.go:234 says "nothing
  stays memory-only".
* a verification that arrives late clears the cursor of the operation after it.
* a live custom event has sequence 0 in memory and its number after a replay.
* the doc of the gateway's `Execute` says "exactly once"; a repeated live call
  executes again, and only a planned operation is recognised.

Lock:

* two `Acquire`s that both read no file, or a stale one, both hold the lock
  (lock.go:18-21 calls the lock exclusive). The table of holders is checked and
  registered in separate critical sections, so two handles of one process can do
  the same.
* a `Touch` under way when its handle is released re-creates the file.
* `Release` of one handle can remove the file another handle of the process has
  just claimed. A claim whose write fails still counts as held.

Autonomy:

* a run that was superseded but is past the guard steps the loop of the run that
  superseded it; its finished context aborts that run. The guard is only at the
  head of the loop and after `Execute`, and `Abort` does not advance `runID`.
  This is why `WithinBounds` and `AtMostOneLateExecution` are stated of all calls
  of a process together.
* `Abort` looks and terminates in two critical sections, so it can overwrite
  Completed.
* when `Abort` discards the pending proposal while a resumed run is at work, the
  run can reach Completed without the marker of a commit.
* a new run on a task that has ended leaves the task COMPLETED or FAILED in the
  journal until an operation is dispatched or the run parks; a second park in the
  same state is not recorded again.
* a verified step clears the cursor, so a restart right after it reports a landed
  mutation as unknown; a dispatch record that fails leaves the previous operation
  latched as the pending one.
* operation names "run-N-attempt-k" repeat after a restart.
* an `Approve` advances `runID` when it ends and can supersede a newer `Run`.
* on drift the loop is asked to abort from Executing, which the table of moves
  refuses: `Run` returns an error and leaves the loop at Executing, and later
  calls of `Run` are refused until `Abort`.

Workflow and phases:

* manager.go:572 keeps "a human authorized this" from "ever being inferred from a
  phase request", and so does the comment of `Force`; both resume a parked run
  when the phase asked for is build and the current one is not. `Transition` to
  build with a run parked while the phase is build reports success and resumes
  nothing.
* "Every SM mutation is therefore all-or-nothing" (`driveAtomicLocked`) does not
  cover `reconcileLocked`, which runs first: a refused `Transition` can leave the
  machine half-way, apart from its phase.
* since that reconciliation drives the machine and re-anchors the phase before
  the edge is checked, `Transition` takes hops that the edge table forbids (plan
  to review), and finds nothing left to record: nearly no hop of `Transition`
  reaches the lineage, which is to be "persisted ... BEFORE the in-memory
  projection mutates".
* a refused `Force` changes the phase (to ask). `ResetToAsk` with a failing
  lineage write leaves an idle machine under a live phase. The second of two
  lineage records may fail after the first was written.
* `transitionToBuilding` may succeed, in repairing, while the phase disagrees;
  after `Fail` the edge check may refuse the phase the machine is in.
* nothing sends the event that leads to verified.

## 6. What is left of the plan

1. An abstract execution (admitted, working, settled with an earned verdict) that
   `KernelEngine` implements, with the refinement proved from `IInv`, `DispatchInv`
   and `VerdictInv`.
2. Theorems about the phase manager (`HopsAreReal`, `MutationIsLicensed`).
3. The gateway's decisions around `IdempotentRunner`: scope, policy, the
   planner's tiers.
4. The composition of `AutonomousRun` with `PhaseManager` at the authorization
   boundary.
5. Sessions and checkpoints: rollback of the workspace against the kernel's
   evidence.
6. The workspace lock, the stream reader's idle timeout, proposals.

## 7. Not modelled, and why

* Retrieval, parsing, indexing, prompts, providers, UI rendering, configuration,
  telemetry: functions of text, or I/O against services, most of the code's
  lines; they keep no state that the properties above are about. What of them
  reaches the disk goes through the bridge.
* The executor, patch and tool-call execution: their control is in the
  interpretation of model output; their effects are the bridge's.
* Of the kernel: `EventLog.Subscribe`, `VerifierChain` and `EvidenceVerifier`,
  which nothing uses. Of the capability: paths, modes, walks.
* Of the ledger: unnumbered lines of old versions, negative knowledge, pressure
  and context tiers, the order in which recoverable tasks are offered, a scan that
  fails on an oversize line.
* Of the autonomy loop: decomposition and staged task graphs (they widen the
  bounds of a stage), adaptive proposals, rendered verification, custom deciders,
  token counts. `LoopRetry` is never chosen by the default policy.
* Of the workflow: the approval flag, which nothing in the machine reads, the
  rollback on a scope failure, which no caller reports, and interrupts of an
  interface without a phase manager. Of the phase manager: its event, history and
  loop, and the stores that only tests give it.
* Approval and authorization engines, proposals and gates, sessions, the
  workspace lock, the stream reader: within reach; see the plan.
