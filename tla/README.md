# Orchestration core of pikucode: TLA+ models and proofs

pikucode's server (`src/apps/server`) runs external coding agents for the threads
of a user. The part whose correctness is hard is *orchestration v2*
(`src/apps/server/src/orchestration-v2`): commands become events and durable
side effects, workers and detached fibers carry the effects out, and a janitor
and a boot recovery repair what a crash or a lost fiber leaves behind. This
directory models that part, checks it with TLC and proves part of it with TLAPS.

Paths below are relative to `src/apps/server/src/orchestration-v2/` unless they
start with `src/`.

## 1. Inventory

| Component | State | Operations | Interacts with |
|---|---|---|---|
| Orchestrator (`Orchestrator.ts`) | none durable of its own; a lock per thread | one decider per command; the terminal-run stream that promotes queued runs; resumption of queued runs when its layer is built | commits events, effects and cancellations in one transaction through EventSink; signals cancelled effects after the commit |
| Event sink (`EventSink.ts`) | event table, projections, receipts, a live PubSub | `write`, `writeIfRunCurrent`, `commitCommand`, `commitRejectedCommand`, streams | applies the transition gate of `RunLifecycle.ts` in the transaction; publishes afterwards |
| Effect outbox (`EffectOutbox.ts`) | effect rows (status, attempts, lease token, available_at); a process-local map of cancellation signals | enqueue, cancel, claim, settle (succeed, retry, fail), expire leases, reconcile after process loss | written by commands, recovery and janitor; drained by the worker |
| Effect worker (`EffectWorker.ts`) | four slots | claim, arm a signal, re-read, execute in a race with the signal, settle | the executor calls the services below |
| Turn start, run execution (`ProviderTurnStartService.ts`, `RunExecutionService.ts`) | a detached ingestion fiber for each attempt | compare-and-set `starting` to `running`, fork ingestion, start the provider turn, finalize the run | provider session manager, run leases, event sink |
| Run leases (`RunLeaseService.ts`) | one row per run | acquire, renew, release, prune | ingestion fiber; janitor |
| Janitor (`RunJanitorService.ts`) | none | settle expired effect leases, prune run leases, cancel orphaned runs | recovery's cascade |
| Runtime recovery (`ProviderRuntimeRecoveryService.ts`) | none | cancel the runs nobody owns, with their attempts and effects | at boot and for the janitor |
| Checkpoint capture (`CheckpointCaptureService.ts`) | git snapshots | completes a `waiting` run | effect worker |
| Provider session manager (`ProviderSessionManager.ts`) | sessions, busy counts, idle timers, event pumps | open, attach, detach, close, mark busy, release when idle, replace | adapters; event sink |
| MCP credentials (`ProviderSessionManager.ts`, `src/apps/server/src/mcp`) | a registry of tokens, a configuration slot per thread, reservations | prepare (reuse or rotate), record, give back, revoke, expire | adapters read the slot when a provider process starts |
| Command dispatch (`Orchestrator.ts`, `CommandReceiptStore.ts`, `KeyedSerialExecutor.ts`, the gate of `src/apps/server/src/serverRuntimeStartup.ts`) | a receipt row per command id; a map of locks; a queue of commands that came before readiness | look up, plan, commit with receipt, publish, answer | event sink; RPC clients that retry and leave |
| Thread launch (`ThreadLaunchService.ts`) | `preparing` runs, their leases | prepare a worktree, then start the run | orchestrator |
| Queue utilities (`src/packages/shared/src`) | queues, outstanding counts | enqueue, drain, coalesce by key | ingestion, projections |
| Live thread subscription (`subscribeThread` in `src/apps/server/src/ws.ts`; `state/threads.ts`, `rpc/client.ts` in `src/packages/client-runtime/src`) | a cursor, a projection and its cached copy on the client; a subscription on the server | snapshot or replay, live stream, apply, cache, resubscribe | event sink, event store, projections |
| Client connection supervisor (`src/packages/client-runtime/src/connection/supervisor.ts`) | connection phase, session, retry timer | connect, back off, wake up, disconnect | the server's WebSocket |

What is hard in them:

- **Interleaving.** Nearly every handler reads the projection, does external work
  and commits later. The thread lock excludes other commands only; the ingestion
  fiber, the effect worker, the checkpoint capture and the janitor are not under it.
- **Process-local against durable state.** Cancellation signals live in memory and are
  keyed by effect id; rows are in SQLite; each is changed after the other.
- **Timeouts against late answers.** Leases of effects and of runs expire by the
  wall clock while their owner may only be slow, or the machine asleep.
- **Process loss.** Only replay-safe effects may be executed again.
- **Delivery.** Events are published after their commit, a subscription joins a
  replay to a live stream, and the client trusts its cursor to stand for all it saw.
- **Identity.** Sessions, signals and leases are found by an id that their replacement
  reuses, so that what an earlier incarnation left behind acts on the later one.
- **Retries.** A client repeats a command whose answer it missed.
- **Liveness.** A run whose start, fiber, final write or capture is lost must
  still end, and a queued run must be promoted.

`PROJECT.json` lists these one by one, at their lines, under `hazards`, with the
properties that would catch each going wrong.

## 2. Modules

### EffectOutbox

One action for every SQL statement of the outbox and every step of the worker's `runOnce`.

| Model | Code |
|---|---|
| `status`, `attempts`, `owner`, `lapsed` | columns `status`, `attempt_count`, `lease_owner`, `lease_expires_at < now` |
| `due`, `ahead` | `available_at <= now`, and the order of `available_at` among due rows |
| `registered[e]` | the entry of effect `e` in the map `cancellationSignals`, named by the claim that made it |
| `fired` | slots whose own Deferred has been completed |
| `pc`, `task`, `claim`, `outcome` | a slot's position in `runOnce` and its locals |
| `retired`, `swept` | what a commit has cancelled, or the janitor settled, and has yet to signal |
| `ClaimNext`, `Arm`, `RereadCancelled`, `BeginExecution`, `FinishExecution`, `WithdrawExecution`, `ExecutionStopped`, `Settle`, `SettleError`, `RereadError` | `runOnce`, in its order, with its recovery paths |
| `CancelUnsettled` then `SignalCancellation` | the statement in a command's transaction, the signal after it |
| `ExpireLeases` then `SignalExpired` | `settleExpiredLeases` |
| `Crash`, `Restart` | process loss, `reconcileAfterProcessLoss` |

All four slots of a process share one worker id, so the lease token that tells
two claims of a row apart is the attempt number; `owner` and `claim` are that
number. `performed[e]` is a history variable: the claims whose execution ended
successfully. The external work is left open: an execution succeeds, fails, or
(for an interrupt) finds nothing active.

`EffectLedger` is what the outbox promises the command that enqueues an effect, without
slots, signals, leases or processes: effects wait, are tried one at a time per thread,
and end; process-bound work is performed by one try and never tried again. `KeepsLedger`
says that the outbox implements it, with `LedgerState` as the mapping: pending is
waiting, running is working, failed and cancelled are ended; `attempts` are the tries and
`performed` what they did. Expiry, cancellation, a failing settlement and the
reconciliation of a restart all map to the ledger's `GiveUp`.

### RunLifecycle

The relation `illegalLifecycleTransition` of `RunLifecycle.ts`. It has no state;
`RunLiveness` uses it as the gate of every commit.

### RunLiveness

The runs of one thread, from message to end.

| Model | Code |
|---|---|
| `status`, `active`, `attempt`, `turn` | run status and `activeAttemptId`, attempt status, provider turn |
| `work`, `capture` | the rows `provider-turn.start`/`restart` and `checkpoint.capture` |
| `lease`, `quiet` | the row in `orchestration_v2_run_leases`; last event older than `graceMs` |
| `held` | the command inside the thread lock, between its read and its commit |
| `notices` | terminal events the terminal-run stream has yet to handle |
| `slot`, `fiber`, `outcome` | progress of the turn start; of the ingestion fiber |
| `janitor` | a sweep between its query, its load and its commit, and the copy it loaded and writes back: runs with the `activeAttemptId` they had, attempts, provider turns, turns with open nodes |
| `BeginMessage/Restart/Interrupt`, `HandleTerminalRun`, `Commit...` | deciders and their commits; `CommitRejected` is the gate's error |
| `ClaimWork` ... `EndWork`, `StartTurnFails`, `StartError`, `StopWork` | `ProviderTurnStartService.start`, `RunExecutionService.startRootRun`, and the worker around them |
| `AcquireLease` ... `ReleaseLease` | the detached ingestion fiber under `withRunLease` |
| `JanitorFind`, `JanitorPrune`, `JanitorLoad`, `JanitorTerminalize` | `sweepOnce` and `janitorThread` |
| `Crash`, `ResumeQueuedRuns`, `Recover` | process loss and the boot order of `src/apps/server/src/serverRuntimeStartup.ts` |

Assumptions about the environment, all visible as guards:

- `EndWork` waits for the forked fiber's first step: a provider's answer to
  `startTurn` takes longer than the local INSERT of the lease.
- `GraceElapses` waits for the handoffs inside the process: 90 s outlast a
  command's commit, the terminal-run stream and a fiber's first step.
- Startup finishes before the process is lost again.
- The gate also looks at the nodes a sweep cancels. Their statuses are not modelled: a sweep that
  loaded a run whose fiber was listening may be refused or not (`janitor.copy.nodes`).
- The wait for a superseded turn (`AwaitPrevious`) gives up after a thousand polls. When that is
  depends on nothing else in the model, so it may happen whenever the turn is still running.
- An orderly shutdown is not an action of its own: it interrupts the workers and runs
  the reconciliation of `Recover` once more before the process ends, so what it leaves
  behind is easier on the next start than what `Crash` leaves.

### EventStream

The committed events of one thread on their way to one client.

| Model | Code |
|---|---|
| `log`, `deletedAt` | the thread's rows in `orchestration_events`; its `thread.deleted` event |
| `pending[w]` | what a writer's transaction appended and `PubSub.publishAll` has yet to get |
| `feed`, `after`, `high`, `buffer`, `wire` | the subscription: how far it is, its cursor and mark, the PubSub subscription's backlog, the frames on the socket |
| `data`, `last`, `status`, `awaiting` | the client's projection, `lastSequence`, status, `awaitingCompletion` |
| `queued`, `saved` | the copy in the debounced save; the cached copy |
| `Commit`, `Publish`, `AbandonPublication` | `write`, `writeIfRunCurrent` and `commitCommand` of the event sink, the last when the writing fiber is interrupted after its commit |
| `Subscribe`, `LoadSnapshot`, `LoadNothing` | `makeSubscribeInput`: the HTTP snapshot, or the cursor, or neither |
| `AnswerResume`, `Replay` or `AnswerSnapshot`; `Attach`, `ReadHighWater`, `CatchUp` | `subscribeThread`; then `EventSink.stream` |
| `Receive`, `Persist` | `applyItem`, the debounced save |
| `Disconnect`, `Resubscribe`, `Reopen`, `Crash` | a lost transport or an expected failure, a foreground wake-up, closing and reopening the thread's state, process loss |
| `EndSubscription`, `SetReady` | a failure with a defect or an interruption in its cause, which ends the subscription (`feed` = "ended") until the thread is reopened; the connection's return as such a thread shows it |

A projection is the set of the events folded into it, so that a skipped event
can be told from one applied. `forfeited` is a history variable: the events that a later
one was published before, or that were never published. The client drops an event at or
below its cursor, so these it may never see; the properties say it misses nothing else.
The client applies an item in one step, and a subscription that ends takes the items it
had not handed over with it. The completion marker is always requested: this server
always offers it.

### KeyedSerial and CommandDispatch

`KeyedSerial` is `KeyedSerialExecutor.ts`; `CommandDispatch` extends it with the way of
a command through gate, lock, receipt and commit. A *user* of the lock is one dispatch
call; a client that retries a command makes another call with the same command id.

| Model | Code |
|---|---|
| `locks`, `holder`, `sem`, `stage` | the map of `LockEntry`; who has the permit of a semaphore; the semaphore `acquireLock` returned; where a call is in `withLock` |
| `gate`, `queue`, `worker`, `away` | `commandReadinessState`, `commandQueue`, `commandWorker`, queued calls whose client is gone |
| `step`, `result`, `answer` | where a call is in `dispatchWithReceiptEffect`, what it will return, what its client was told |
| `receipts`, `log`, `published` | the receipt rows, the commands' events, what live subscribers were sent |
| `Dispatch`, `EnqueueCommand`, `Refuse...`, `RunQueued` | `enqueueCommand` and `commandWorker` of `makeCommandGate` |
| `LookUpReceipt`, `PlanCommand`, `CommitRejected`, `CommitCommand`, `PublishCommitted`, `Return` | `dispatchWithReceiptEffect` and the transactions of `EventSink.ts` |
| `LeaveQueued`, `Interrupt`, `DatabaseFails`, `Crash` | a client that leaves, a failing statement, process loss |

A transaction is one step, and its receipt, events and projections are durable together.
A semaphore is named by the call that created it, so that two semaphores of one key can
be told apart. `cutOff` is a history variable: committed events whose publication an
interruption or a crash prevented. What a command decides is left open: it plans events
or fails.

`CommandLedger` is the abstract specification: a command is decided once and every
answer repeats the decision (`KeepsDecisions`, under `decision <- receipts` and the
answers of all calls of a command).

The lock's mutual exclusion is what `RunLiveness` assumes of `held`.

### ProviderSessions

One provider session id: its entry in the live-session map, the runtimes that succeed
one another behind it, its idle timers, the clients that open it and run turns, and the
event pump of each runtime.

| Model | Code |
|---|---|
| `entry` | `LiveSessionEntry`: runtime, `idleGeneration`, `busyCount`, `idleFiber`, `pinnedSinceMs` in windows |
| `timer[i]` | an idle fiber: asleep, or asking `hasPendingBackgroundWork`; `stale` (history): the session was used since it fell asleep |
| `adapter`, `native`, `inbox`, `pump`, `subs` | per runtime: the provider's state, turns it executes, terminal events not yet read, the pump with the event it holds, subscribers |
| `pc`, `rt`, `plan` | a client's place in `open` or `startTurn`, the runtime it was handed, the generation it is about to arm |
| `Open` ... `Touched` | `open` under its lock, for a thread that is attached or to be attached, `ensureThreadAttached`, `touchActivity` |
| `MarkBusy`, `StartTurn`, `StartFails`, `TurnAnswered` | `startTurn` of the decorated runtime; the end of its reader's subscription |
| `IdleWindowEnds`, `DeferIdleRelease`, `IdleRelease` | `releaseIfStillIdle` around the adapter's answer |
| `PumpTerminal`, `PumpOther`, `PumpTouched`, `StreamEnds` | `startEventPump` |
| `Remove`, `Closed` | `releaseEntry`: the removal with failing the subscribers; the end of the scope's closing and the persisted "stopped" |

A step is what a fiber does between two suspensions: a sleep, an adapter call, an SQL
write, waiting for an interrupted fiber. Everything but the open lock looks the session up
by its id, and four history variables mark where that goes wrong, each necessary for the
property that mentions it: `crossed` (the end of an earlier runtime's turn was counted
against its replacement), `overtaken` (a rescheduling, overtaken by another, by a turn or by
the session's end, left an idle fiber that is not registered), `interrupted` (a client was
interrupted in `open` or `startTurn`) and `outrun` (a runtime was opened while the one
before it was closing). Section 5 says what happens then.

### McpCredentials

The credential of one thread: the registry's records, the slot adapters read, the
reservations, and the sessions of the thread that open, attach, detach, release and are
finalized at the same time.

| Model | Code |
|---|---|
| `valid`, `slot`, `reservations` | `McpSessionRegistry.ts`, `McpProviderSession.ts`, `mcpCredentialReservations` |
| `entry[s]` | is the session live, is the thread attached, the credential recorded for it, the credential its provider process was configured with |
| `Prepare`, `Resolve`, `Issue` | `prepareMcpSession` under the thread's prepare lock |
| `Launch`, `OpenSucceeds`, `OpenFails`, `Return`, `PersistFails` | `openSession` and what follows it in `open` |
| `Record`, `AttachSucceeds`, `AttachFails` | `ensureThreadAttached` |
| `Release` then `Finalize` | `releaseEntry` and its finalizer, up to thirty seconds later |
| `Detach`, `DetachTerminally`, `Expire`, `Interrupt` | a detachment, an archived thread, `pruneDead`, an interrupted opener |

The open lock and the prepare lock are used by their contract, which `CommandDispatch`
checks and proves of the executor both are made from.

## 3. Runs

| Run | Shows | Bounds |
|---|---|---|
| `outbox_safety` | settlements are by the latest claim; process-bound work runs once; a cancellation reaches the execution; settled rows stay settled; the outbox implements `EffectLedger`; every enqueued effect is settled, though executions of process-bound work may hang forever | 2 effects of one thread (one replay-safe, one process-bound), 2 slots, 2 attempts, 1 database error or crash, every lease may expire |
| `outbox_signals` | an owned execution keeps its signal; work on a thread is serial | 3 effects, 2 threads, 2 faults; of the effects only the process-bound start may outlast its lease (with a replay-safe one that does, `SignalStaysArmed` fails: the next run) |
| `outbox_cleared_signal` | violation, section 5 | 2 effects, 2 slots, no fault |
| `run_safety` | one blocking run; ended runs stay ended; a restart replays no accepted turn; a queued run always has something that will promote it, as long as the thread is undisturbed; every run ends, the queued one too | 2 runs, 1 loss, 1 crash |
| `run_ends_restart` | every run ends; neither the fiber of a superseded attempt nor a sweep that loaded the run before the restart takes it back; while the machine never slept, the fiber of the run's first attempt holds its lease and the janitor spares the thread's first run | 1 run, 2 attempts, 1 loss, 1 suspension, 1 crash |
| `run_shared_lease` | violation, section 5 | 1 run, 2 attempts |
| `stream_sync` | the client's cursor and its cached copy skip no event but the forfeited; live means caught up; the client catches up in the end, unless its subscription was ended by a defect and the thread is not opened again | 2 writers, 4 events in batches of at most 2, 1 interruption of any kind, any number of subscriptions ended by a defect, replays within one read |
| `stream_replay_limit` | violation, section 5 | the same, a read returns 1 row |
| `session_idle` | a session that runs or starts a turn is never released as idle; a whole window precedes every idle release; an idle session always has a timer; `busyCount` counts turns; whoever waits for a turn's end is told; runtimes are owned by the map; a session in use is persisted as ready | 2 clients, 1 turn each, 2 runtimes, 3 idle fibers, 1 pin, 1 disturbance, late terminal events |
| `dispatch_retries` | the lock excludes and counts; log and receipts agree; commits are published; dispatch implements `CommandLedger`, so answers agree with receipts; every call returns | 2 calls of one command and 1 of another on one thread, 2 faults of any kind |
| `credentials_rotate` | configured credentials work; none is left without a holder; reservations are dropped once; attached sessions know the credential | 1 thread, 1 shared and 1 exclusive session, 2 openers, 2 credentials, 1 disturbance |
| `credentials_failed_open` | violation, section 5 | the same |

**Why the bounds are enough.** Two slots give every race of a claimer with a
successor, two attempts give a retry and an exhausted retry, two effects of a thread give
every order of a claim against what blocks it. Two runs give a queue behind a
blocking run; two attempts give a superseded fiber beside its successor. Every
loss, suspension or crash can fall between any two steps, and one of each
reaches every recovery path. Rows of different threads do not interact except through the
slots, which `outbox_signals` covers with two threads. Four events of two writers give a
client that has seen some, a replay, a batch in the gap between replay and live
stream, and a live event after it, in each order of publication; the first
event is the thread's creation. `ReplayLimit` stands for the 1000 rows of a read:
what matters is whether a replay exceeds it.
Two calls of one command give a retry before, during and after the first; the third call
gives the lock a user of another command, so that its entry outlives its maker. Two
clients and two runtimes give a replacement that meets what the first runtime left behind
(three idle fibers: one registered, one orphaned, one being armed). Two openers and two
credentials give a reuse, a rotation and a finalizer between them. One
disturbance of every kind (failure, interruption, expiry, archiving, manual close)
can fall between any two steps.

The constraint `PromptlyArmed` only keeps the counterexample of section 5 free
of a lease that expires between a claim and the next line of code. `Slots` in
`MCEffectOutbox` is used in runs of safety properties only.

The type invariants of `ProviderSessions`, `McpCredentials`, `CommandDispatch` and
`EventStream` are proved; no run has them among its properties.

**Deadlock** checking is off everywhere: a bounded system stops once its
effects are settled and its runs ended, as the real one idles.

**Fairness.** Weak fairness only, for what the process does by itself: slots
poll, Effect's scheduler runs fibers, timers fire, the janitor's interval
ticks, a command in the lock commits, and the process is started again.
Commands, errors, losses, suspensions, interruptions and crashes have none. The outbox's `FairSpec`
assumes that executions end, except those of the effects in `Hanging`, which the code
leaves to the lease (a slot whose own signal was cleared stays busy for good, so
`outbox_safety` lets at most one of its two slots hang). In `RunLiveness`, `TurnStep` includes the
provider's events, so a turn that was started is assumed to end or to lose its
stream; a provider that keeps a turn open forever keeps its run open, by design. In
`EventStream` a writer publishes or is interrupted, the subscription proceeds, the
client consumes its frames, and a lost session is followed by another; the supervisor
reconnects without a limit, and what loses connections is bounded. Nothing but opening the
thread again follows a subscription that ended, and opening has no fairness. In `CommandDispatch`
the startup comes to an end, the gate's worker runs the queue and each call's fiber goes
on when it can; the semaphore is not assumed fair, so that with a bounded number of calls
each gets its turn once the others are gone. `ProviderSessions` and `McpCredentials` claim
no liveness.

## 4. Proofs

`EffectOutboxProofs` proves, for every set of effects, threads and slots, every
assignment of types and all bounds, from `OutboxAssumption` alone:

- `TypeCorrect`, `ThreadsAreSerial`, `SuccessIsLatestClaims`,
  `ProcessBoundWorkRunsOnce`: the invariants `TypeOK`, `OneRunningPerThread`,
  `SucceededByLatestClaim`, `ProcessBoundRunsOnce`.
- `CancellationsReachExecutions`: the invariant `CancellationReachesExecution`.
- `SignalsStayArmed`: the invariant `SignalStaysArmed`, if no replay-safe effect outlasts
  its lease (`Slow`). `outbox_cleared_signal` shows that the hypothesis is needed.
- `SettledRowsAreFinal`: the action property `SettledIsFinal`.
- `OutboxKeepsLedger`: the refinement `KeepsLedger`.

None of the invariants is inductive alone. `IInv` conjoins them with

- `RowInv`: what a row's columns say of each other: only running rows lapse, only
  pending rows are due, the token of a running row is its attempt count, and an
  effect not yet enqueued was never performed;
- `SlotInv`: a busy slot has a task that was enqueued and a claim no later than the
  row's attempt count, two slots never hold the same claim of the same row, and a
  slot about to report success has performed its effect;
- `SoleClaimerInv`: an *undisputed* effect, one that is process-bound or never outlasts its
  lease, has one claimer, which owns the row until it is settled;
- `PerformedInv`: a process-bound effect once performed only waits for its settlement;
- `SignalInv`: from arming to the end of the execution, the claimer of an undisputed effect
  has the map hold its own Deferred, or has received it.

The argument turns on the tokens: a settlement whose token matches is by the one
slot that made the latest claim, so it may write; every other settlement is
refused. A process-bound row becomes pending again only by its owner's own statement,
before it executed anything or after the execution failed, and the owner leaves
with it. Each action is a step of the proof. The refinement (`LedgerInit`, `LedgerStep`)
takes each action to one of the ledger's: a claim is a `Take`, because the row it picks
has no running neighbour; whatever ends or requeues rows is one `GiveUp` of the sets it
moves; and a requeued row is replay-safe or was never performed, by `PerformedInv`.

The signals need the same solitude: the map's entry is kept by effect id, so whoever leaves
`runOnce` clears the entry of whoever works on the effect. Where the claimer is alone that
is its own (`SignalStep`), and a signal sent by effect id fires the Deferred of the right
slot (`ReachStep`). Only process-bound rows are ever cancelled, which is why cancellations
reach their executions without the hypothesis about `Slow`.

`RunLivenessProofs` proves, for any number of runs and attempts and any budget of
losses, suspensions and crashes, from `RunLivenessAssumption` alone:

- `TypeCorrect` and `ThreadRunsOne`: the invariants `TypeOK` and `OneBlockingRun`.
- `RunsStayEnded` and `AttemptsAdvance`: the action properties `EndedRunsStayEnded`
  and `AttemptNeverGoesBack`.
- `NothingIsReplayed` and `UndisturbedLease`: the invariants `RestartReplaysNothing` and
  `UndisturbedFiberHoldsLease`.

Its inductive invariant conjoins `TypeOK`, `OneBlockingRun` and `UndisturbedFiberHoldsLease` with

- `HeldInv`: what the command inside the lock has read still holds when it commits
  (the run of a message does not exist yet, nothing blocks the thread that a
  message or a promotion starts a run on), or the gate will refuse it (the run of
  a restart, an interrupt or a promotion may have ended meanwhile);
- `SweepInv`: the janitor only cancels runs that exist. Of a run it has loaded (`CopyInv`), the
  attempt its copy calls active is active still, and is either among those the copy cancels or
  has ended, so that it cannot be superseded; or it is among those the copy cancels and was
  superseded since;
- `WorkInv`: outbox rows, worker, fibers and captures belong to runs that were
  started, and no row is ahead of the active attempt;
- `AttemptInv`: a dispatched run has an attempt, the attempts before the active one, and no
  others, are superseded, and the active one is pending until its turn begins;
- `AcceptedInv`: while the process serves, a turn accepted before its start has a run that
  ended or waits for its checkpoint, a retired row, no worker, and no command in the lock
  that would start its run again; while it does not serve, no worker runs.

The argument has two halves. Outside the lock and the boot, every step only lets
runs *proceed* (`OwnMoves`): a blocking run becomes another blocking or an ended
one, a queued one is cancelled; so nothing a held command relies on can be
undone, and a second blocking run can only come from a command, which reads under
the lock. The finalizing write of a fiber carries a copy of the run made before
the turn; `FinalWrites` shows that the gate lets it through only for the active
attempt, because every earlier one is superseded, hence the copy's
`activeAttemptId` is still the right one. The janitor's copy is gated too (`SweepCommits`): one
whose `activeAttemptId` went stale has that superseded attempt among those it cancels, and the
gate refuses the commit as a whole. The steps are taken per variable
(`TypeStep`, `WorkWrites`, `SlotWrites`, `FiberWrites`, `CaptureWrites`, `AttemptWrites`)
with one step per action or group of actions that leave the variable alone.

A lease row is deleted by run and process, so the lease of a live fiber is at the mercy of
its run's other fibers. A run that is still at its first attempt has no other
(`Listening`, `LeaseStep`); expiry needs a run without holder, and a sweep prunes what expired.

`RunQueueProofs` proves, from the same assumption, two promises that need more:

- `QueuesAreServed` and `NothingIsSwept`: the invariant `QueueIsServed`, and that the
  janitor finds no orphan, in an *undisturbed* thread (nothing lost, the machine never
  suspended, no run restarted; messages, interrupts, sweeps and process losses are free).
- `FirstRunIsSpared`: the action property `JanitorSparesUndisturbedRuns`, with losses and
  restarts.

For the first, `QueueInv` adds to `IInv`

- `CoverInv`: what will end the run that blocks the thread is handed on without a gap: its
  row waits or is worked on, its fiber is forked before the row is settled and has the
  lease before `EndWork`, and what the fiber's final write leaves waiting has a capture;
- `ServedInv`: whoever is queued, or about to be by the command in the lock, has a blocking run,
  an unread notice or a promotion in the lock. A blocking run ends with a notice
  (`EndsAreTold`), but for a sweep, of which there is none, and the boot, which cancels the
  queued runs too; `PromiseKept` follows the promise from there;
- `QuietInv`: the grace period does not pass over a notice or a promotion, so a sweep in an
  undisturbed thread meets either a covered run or none (`NoOrphan`, `SweepIdle`);
- `UnforkedInv` and `SoleInv`: a row that waits has neither worker nor fiber, and a restart or an
  interrupt in the lock is of the blocking run.

For the second, `SparedInv` says why a query made two steps before the commit is good
enough for the first run: when it was found, nothing held it (`OrphanInv`: no worker, no
row, no live fiber), and nothing takes hold of a run again unless it is queued, which the
first never is (`OrdinalInv`), or restarted, which moves it to its second attempt. Before the
query, `RowHeldInv` says that a worker, and a fiber that has yet to acquire its lease, are
covered by a running row; a row is settled, or retired, only when neither is left
(`WorkEnds`, which rests on `LeftInv`), or when the run ends in the same step. The lease
covers the rest. A later run may have been queued when the sweep found it, which is
where the promise ends (section 5).

`CommandDispatchProofs` proves, for any finite set of calls, any commands, threads and
number of faults, from `KeyedSerialAssumption` and `DispatchAssumption`:

- `LocksExclude`, `EntriesAreCounted`, `ReceiptsMatchLog`, `CommitsArePublished`: every
  invariant of `dispatch_retries`; `TypeCorrect`; and `AnswersAreReceipts`, which the run
  has as part of `KeepsDecisions`.
- `DecisionsAreKept`: the refinement `KeepsDecisions`.

Its inductive invariant adds to these properties

- `LockInv`: whoever is between `acquireLock` and `releaseLock` has the semaphore of its
  key's entry, and whoever is inside has its permit. So two calls inside one key hold the
  permit of one semaphore (`InsideAlone`). It rests on the count: an entry is deleted by the
  release that finds one user, which is then the last (`UsersFinite` and the lemmas
  after it);
- `CallInv`: calls outside the lock are idle or queued once; nobody is told
  anything before it returns;
- `ReceiptsInv`: a receipt is undecided, rejected, or names a position of the log;
- `ResultsInv`: between its lookup and its commit a call's command stays undecided, and a
  result is the command's receipt. Both hold because receipts never change once
  decided, and only a call inside the lock decides one: another call of the command has
  the same thread, hence is outside.

The step lemmas of the lock are proved once for `KeyedSerial` and used by every action of
`CommandDispatch` that takes or leaves the lock.

`EventStreamProofs` proves, for any writers, number of events, batch size, lost connections
and read limit, from `EventStreamAssumption`:

- `NothingIsSkipped`, `CacheStaysResumable`, `LiveIsCaughtUp`, `TypeCorrect`: the invariants
  `NothingSkipped`, `CacheIsResumable`, `LiveMeansCaughtUp` and `TypeOK`,

as long as no replay is truncated (`[]WithinOneRead`); the run `stream_replay_limit` shows
that the code does not keep that promise, and what comes of it. The other promises
need it too, because the cache and the live status trust the cursor.

An invariant about the cursor alone is not inductive: the client takes the next frame on
trust. `IInv` says why it may, by following each event from its commit:

- `WireInv`: an event on the wire follows what precedes it: each earlier event is behind
  the cursor, forfeited, or in or before an earlier frame; a snapshot comes first, the
  completion marker behind everything committed when the subscription was answered;
- `FeedInv`: at each stage of the subscription, what was sent accounts for everything up to
  `after`; while it catches up, the buffer accounts for what is above the mark, except what a
  writer has yet to publish; once live, the wire does;
- `ShownInv`: shown as live means caught up, and so does a handshake that completed, unless
  the client has nothing to show and no snapshot is coming;
- `BoundInv`: no sequence anywhere is above the log.

A publication puts its batch behind what precedes it, and the events of other writers that it
overtakes become forfeited in the same step. `Above`, the filter of the live stream, is a
recursive function; that it keeps exactly the frames above the mark, in order
(`AboveFilters`), is shown by induction on the length, which `LeastNatural` takes from
the well-foundedness of strict inclusion on finite sets.

`McpCredentialsProofs` proves, for any sessions, any finite set of openers and any bounds,
from `CredentialsAssumption`:

- `CredentialsWork`, `ReservationsCount`, `NoneIsLeftBehind`, `AttachedKnowTheirs`: every
  invariant of `credentials_rotate`; and `TypeCorrect`.

The argument starts from `RegistryInv`: although the registry could keep any number of
credentials for the thread, it has the slot's or none, because a rotation empties it inside the
prepare lock, where nobody else is issued one (`LockInv`), and a credential that goes leaves the slot
too. So nobody but a finalizer, an expiry, an archiving or a failed opener can take a
credential away, and what a rotation or an attachment displaces no longer works.
Around it, `IInv` has

- `StageInv` and `EntryInv`: what an opener's position says of the credential it holds
  and of the entry it opens;
- `CountInv`: reservations by the positions of their holders, at least one for each, and
  exactly one but for the credentials that were lost (`orphaned`). Hence the finalizer's
  question `Reserved` finds every holder (`HeldIsReserved`);
- `WorkInv`: every credential that is recorded or held works;
- `OwnerInv`: a credential that works is recorded, or waits for a finalizer, or is with the opener that
  minted it; recording one never displaces another that works;
- `AttachInv`: an attached session without a credential is being attached.

`ProviderSessionsProofs` proves, for any finite set of clients, any number of runtimes, idle
fibers, pins and disturbances, from `SessionsAssumption`:

- `LiveRuntimesOwned`, `BusyCountCorrect`, `IdleSessionsAreTimed`, `TurnsAreAnswered`,
  `ReadySessionsRecorded`, `NoTurnIsReleased`, `IdleWindowsAreFull`: every property of
  `session_idle`; and `TypeCorrect`.

What makes it hard is that everything finds the session by its id. `IInv` says which runtime
each of them may still mean:

- `OwnerInv`: a runtime that a client was handed and that is alive is the one in the map.
  It rests on the open lock (`LockInv`): a runtime that is opened finds the map empty;
- `PlaceInv` and `CountedInv`: a turn is with one runtime or is the event of its end, and one
  that starts or runs on a live runtime is counted in it. So a busy count of zero
  (`BusyCountIsTurns`) means that the map's runtime has no turn;
- `PumpInv`: the map's runtime has its pump once it is recorded, and a turn whose reader is
  subscribed is with the map's runtime or on its way through the pump: a removal fails the
  subscribers in the same step;
- `RecordInv`: nothing closes behind a session that was opened after the last one had closed;
- `TimedInv`: an idle session's registered fiber waits for the session's generation and has
  probed no other runtime, or a rescheduling is under way;
- `FreshInv`: until a rescheduling leaves a fiber unregistered, the registered fiber is the
  only one that waits, so every use of the session interrupts it.

Each part has one lemma with a step for each action; the larger actions have their effect on
the clients, the map and the runtimes stated once (`OpenEffect`, `StartFailsEffect`,
`PumpTerminalEffect`, `InterruptedEffect`).

Only model-checked: liveness under fairness (`EventuallySettled`, `EveryRunEnds`, `CatchesUp`,
`EveryCallReturns`), which is out of the prover's reach. Every safety property of a passing
run is stated by a theorem. The four violations, and the hypotheses they put on the
theorems (`Slow`, `WithinOneRead`, undisturbed threads, unspoiled credentials), are the
code's weak points of the next section.

## 5. Where the code and its documentation disagree

- **A cleared signal** (`outbox_cleared_signal`). The finalizer in `runOnce` clears
  the signal of its *effect id*. A slot that lost its row to expiry clears the
  signal its successor registered. When the successor's lease runs out too, the sweep that settles
  its row finds no signal, and the abandoned execution goes on. (Not a command's cancellation:
  the row is replay-safe, and commands cancel process-bound rows only.)
  The signal loop of `settleExpiredLeases` looks the map up by effect id too, after its
  transaction, so that an owner may be told to stop by the sweep that ended its predecessor.
- **A shared lease** (`run_shared_lease`). After a restarting steer two fibers share the
  run's lease row; the first to exit deletes it, the other only UPDATEs.
- **A truncated replay** (`stream_replay_limit`). The replay for a resuming client is a
  single read, limited to 1000 rows; the live stream starts at the mark the replay
  was meant to reach. A client further behind is shown as live with a hole in its
  projection, and saves it with a cursor beyond the hole. (The catch-up of
  `EventSink.stream` is paged and has no such limit.)
- **A revoked reservation** (`credentials_failed_open`). An open that fails revokes the
  credential it minted. Another open of the thread may have reused that credential since
  the prepare lock was released, holds a reservation for it, and has configured its
  process with it. The finalizer of a released session asks for reservations first; the
  failure path does not. `ReusedCredentialsWork` is the promise that remains.

More effects were seen and are kept as hazards. After a machine's sleep beyond the lease's
ttl and the grace period, a sweep that runs before the renewal cancels a live run. The
orphan query of a sweep is not repeated in its cancelling commit: a queued run promoted
and leased meanwhile is cancelled. (So the janitor's promise is claimed for the
thread's first run on a machine that does not sleep.) A message queued between
the janitor's query and its commit waits behind a run cancelled without a
notice, until a later sweep cancels it too (so `QueueIsServed` is claimed for
undisturbed threads, where the janitor finds nothing).
A projection waiting in the debounced save is cached again after the thread's deletion
removed the cached copy. A client that shows a thread as deleted gets it back as live
from the snapshot of its next subscription. A failure with a defect or an interruption in its
cause ends a live thread's subscription for good (`src/packages/client-runtime/src/rpc/client.ts:265`;
`client.test.ts:354` wants such failures not to be classified as expected ones): the thread is shown
as it was, even as live, and as synchronizing after the next reconnection if it was not, until it is
opened again (so `CatchesUp` is claimed of subscriptions that did not end). A turn start
interrupted between the fork and `startTurn` leaves its fiber waiting, with a
lease that hides the thread's other orphans from the janitor, until the idle
session is released (`IdleRelease`).

Of the session manager: an idle fiber that lost its registration to an overlapping
rescheduling lives on with a generation that is used again, and may end a later idle window
early. The end of a closing runtime's turn, or a start that fails late, counts down the
busy count of the runtime that replaced it, which may then be released as idle while it
runs a turn. A caller interrupted in `open` leaves a runtime nobody closes, or an entry
without pump and idle timer; one interrupted in `startTurn` leaves the session busy
for good. A runtime opened while its predecessor is closing is persisted as ready, then as
stopped by the predecessor's release; plans that skip stopped sessions
(`Orchestrator.ts:1338`, `ProviderSwitchService.ts:160`) do not see it. An opener interrupted while the
registry validates a credential keeps its reservation forever; an attachment
whose session was released meanwhile leaks the credential it minted.

Of command dispatch: a planning failure of any kind is recorded as the command's rejection,
so that a retry after a transient failure is refused; and a command queued
before readiness may be overtaken by one sent after it.

## 6. Not modelled, and the plan

Inside modelled components: `preparing` runs, cancelling, reordering and
promoting queued runs, steering without a restart, subagents, background items
and runtime requests, the sessions of recovery's cascade. The commits they add
do not touch the state the properties relate.

Whole components with no behaviour of their own to check, or only wrappers of
external processes: provider adapters, git, terminals, previews, transport and
authorisation, the user interfaces, the former engine, the SQLite client.
`PROJECT.json` gives the reason for each.

In `McpCredentials`, attachments by calls on a session's runtime, which do not take the
open lock: with them the state space exceeds what a run can cover (a smaller one showed
that such an attachment, overtaken by an archiving, may record an older credential over a
newer one). In `ProviderSessions`, detached threads, status updates of a
runtime and the released runtime requests. In `CommandDispatch`, what commands plan.

Next, in this order:

1. The guarantees of `RunLiveness` that remain where a thread was disturbed: what a sweep
   may still cancel of a later run, and how long a queued run may be left without a
   promotion.
2. `applyItem` of `EventStream` in two steps, against the finalizer: they are one turn of the
   event loop unless the scheduler yields between them.
3. `QueueWorkers`: `DrainableWorker` and `KeyedCoalescingWorker` with `drain`
   against `enqueue` and a failing step.
4. `RunQueue`: `preparing` runs, thread launch, and the commands on queued runs,
   beside `RunLiveness`, sharing `RunLifecycle`.
5. `ConnectionSupervisor` of the client: one session at a time, late failures of
   an earlier attempt ignored, reconnection in the end.
