# Supaterm: the orchestration server in TLA+

Supaterm is a command centre for coding agents: a desktop, web and mobile client
talk to a local server (`src/apps/server`) that owns conversation threads, drives
the agents of several providers, and keeps everything that happened in one SQLite
database. These modules specify the part of the server every feature depends on,
`src/apps/server/src/orchestration-v2`: how a command is accepted once, how its
events reach every subscriber, how the work it asks for is carried out over
failures, cancellations and restarts, and how a conversation thread runs one
message after the other.

Contents

1. [The system](#1-the-system)
2. [The modules and the code](#2-the-modules-and-the-code)
3. [What the runs check](#3-what-the-runs-check)
4. [Fairness](#4-fairness)
5. [What is proved](#5-what-is-proved)
6. [Where the code and its comments disagree](#6-where-the-code-and-its-comments-disagree)
7. [Not modelled](#7-not-modelled)
8. [Plan](#8-plan)
9. [Running it](#9-running-it)

## 1. The system

A command travels through four components.

```
 client ──command──▶ Orchestrator ──plan──▶ EventSink ──BEGIN IMMEDIATE──▶ SQLite
   ▲                (locks, receipts)      (one writer, publish lane)    events, receipts,
   │                                          │                          projections, effects
   │            replay, then live             ▼                                 │
   └────────────── streams ◀────────────── PubSub                               ▼
                                              ▲                        EffectOutbox rows
                                              │                                 │ claim
                                     ingestion of provider      EffectWorker fibers ──▶ providers
                                     events, run updates ◀──────────────────────┘
```

The documentation of the repository calls the rule behind it *durable intent*:
a command commits its events, its receipt, its projections and the effects it asks
for in one transaction; what the effects do to providers happens afterwards, from
the stored rows (docs/internals/overview.md, docs/orchestration-v2/README.md).

### Components, their state and their operations

| Component | State | Operations | What makes it correct |
|---|---|---|---|
| Command dispatch (`Orchestrator.ts` 12710-13160, `CommandReceiptStore.ts`) | thread locks, receipts | `dispatchWithReceipt`, `dispatchWithReceiptEffect`, `handleRunUpdate` | a command id is decided once and answered alike for ever; what a plan read under its locks is not overtaken; locks cannot form a circle; deletion of a thread takes its side chats with it |
| Planners (`Orchestrator.ts` 1000-12700) | none; they read projections | about eighty command types to events and effects | each plan is legal for the state it was made from |
| Event sink (`EventSink.ts`, `EventStore.ts`) | event log, publish lane, two PubSubs | `write`, `commitCommand`, `commitRejected`, `commitEmpty`, `stream` | publication order is log order; subscribers see every event once |
| Live streams (`LiveStreamBudget.ts`) | queue and budget of each stream | drain, overflow, replay, delivery | bounded memory without gaps |
| Effect outbox (`EffectOutbox.ts`) | rows of `orchestration_v2_effect_outbox`, cancellation signals | enqueue, claim, settle, cancel, reconcile, prune | serial, ordered lanes; settled rows are final |
| Effect worker (`EffectWorker.ts`) | a few fibers of one daemon | `runOnce` and its error paths | no provider work twice, no stranded lease |
| Startup, recovery, shutdown (`serverRuntimeStartup.ts`, `ProviderRuntimeRecoveryService.ts`) | phase of the process | ordered start-up phases, finalizer | provider work never survives the process it belonged to |
| Runs of a thread (`Orchestrator.ts`, `RunExecutionService.ts`, `ProviderTurnStartService.ts`, `CheckpointCaptureService.ts`, `ThreadLaunchService.ts`) | status, hold and place of each run, worktree of the thread, turns | send, queue, hold, resume, select, reorder, cancel, Stop, archive; start, accept, end, capture; prepare, fail, retry | one run at a time; held messages wait for their user; ended runs stay ended; the queue moves |
| Provider sessions (`ProviderSessionManager.ts`) | live entries with busy turns, idle timers and loaded threads; rows of sessions | open, share, `startTurn`, touch, detach, unload, release | no timer or force stop takes a runtime from a turn of another thread; a session nobody uses ends; its row follows it; a turn runs on a loaded thread |
| Projections (`ProjectionStore.ts`, `ProjectionMaintenance.ts`) | tables folded from the log | apply, rebuild, compact | fold of the log; compaction changes nothing a client will show |
| Clients (`packages/client-runtime`) | cursor, cached threads, unsent messages, connection | resume, apply, retry | resume without gap or repetition |
| Shared concurrency (`packages/shared`: `KeyedLock.ts`, `DrainableWorker.ts`, `KeyedCoalescingWorker.ts`, `nodeSqliteClient.ts`) | lock table, queues, connection pool | acquire, enqueue, drain, route | mutual exclusion; no lost item; no lost wakeup |

`PROJECT.json` lists every component, the rest of the repository included, with
the sources it covers and its status.

### How they interact

* The sink holds SQLite's single writer connection for the whole transaction and,
  inside it, waits for the publish lane just before the commit; it releases the
  connection at the commit and the lane after both publications. Lane order is
  therefore commit order, and nobody may ask for the connection while holding the
  lane (`RunMetrics.ts` 40-44).
* The dispatcher calls the sink under the locks of the threads involved. Run
  updates from the worker take the same locks, one at a time.
* The outbox rows are written inside the sink's transaction. Cancellations are
  written there too, but the *signal* that interrupts a fiber is sent only after
  the commit.
* All fibers of the worker present the same lease owner: the row's status alone
  tells them apart.
* A message starts a run through an outbox row; the run's updates come back through
  the event stream to a handler that starts the next queued run under the thread's
  lock. Effects, provider events and the reconciliation of a shutdown write without
  that lock, guarded by conditional writes or by the order of the lane.
* The executor of a turn start opens the provider session, or joins the live one,
  and marks its turn in it. The event pump of the runtime unmarks it when the provider
  reports the end; timers of the session and of its threads release what is idle.
* A client that lost its stream resumes at the last sequence number it applied.

### What is hard about it

Interleavings of fibers at every `yield*` (claim / cancellation / settlement;
subscription / publication / replay; receipt check / plan / commit), a failed
statement between any two steps, loss of the process at any moment followed by
reconciliation, clients that repeat what was already done, buffers at their limit,
and lanes, locks and connections that can wait for each other. `PROJECT.json`
lists each hazard with the line at which it bites and the properties that would
catch it; a hazard without a property says why.

## 2. The modules and the code

| Module | What it is |
|---|---|
| `EffectOutbox` | outbox, worker fibers, cancellation, restart |
| `LaneQueue` | abstract: first-in first-out lanes; implemented by `EffectOutbox` |
| `EffectOutboxProofs` | theorems about `EffectOutbox` |
| `EventSink` | commit, publication, replay, budgets, resuming clients |
| `EventFeed` | abstract: a growing log and cursors without gaps; implemented by `EventSink` |
| `EventSinkProofs` | theorems about `EventSink` |
| `CommandDispatch` | locks, receipts, plans, commit, follow-up |
| `CommandLedger` | abstract: each command is decided once; implemented by `CommandDispatch` |
| `CommandDispatchProofs` | theorems about `CommandDispatch` |
| `RunQueue` | the runs of one thread, its queue, holds, Stop, worktree, checkpoints and restarts |
| `RunQueueProofs` | theorems about `RunQueue` |
| `KeyedLock` | the table of reference-counted locks that `CommandDispatch` relies on |
| `KeyedMutex` | abstract: a held key is given to nobody else; implemented by `KeyedLock`, kept to by `CommandDispatch` |
| `KeyedLockProofs` | theorems about `KeyedLock` |
| `DrainableWorker`, `KeyedCoalescingWorker` | the two background workers of `packages/shared` |
| `LatestBuffer` | `bufferLatestLiveStream`, the buffer of latest states |
| `CommandGate` | commands that arrive while the server starts or stops |
| `SettledSignals` | waiting for one effect to settle |
| `BuildingBlocks` | the keyed lock and, as instances, the two workers, the buffer, the gate and the signals |
| `BuildingBlocksProofs` | theorems about the workers, the buffer, the gate and the signals |
| `ProviderSessions` | one provider session id: turns, idle timers, releases, replacements, its row |
| `ThreadLoading` | one thread of a shared session: loading, idle unload, detach |
| `ProviderSessionsProofs` | theorems about `ProviderSessions` and `ThreadLoading` |
| `Compaction` | the compaction of the event log beside commands and the clients that replay it |
| `CompactionProofs` | theorems about `Compaction` |
| `MC...` | the instances TLC checks |

A definition whose comment begins with *Faulty:* is a plausible mistake in the
definition that follows it. It takes no part in the specification; `PROJECT.json`
("mutants") says which property fails when it is used in place of the correct one.

### EffectOutbox

State. `status`, `rowid`, `attempts` and `due` are the columns of a row
(`due` is `available_at <= now`); `pc`, `job` and `outcome` are where a fiber is in
`runOnce`; `signal` is the map `cancellationSignals` and `unsignalled` the rows
whose transaction has cancelled them while the post-commit signal is outstanding;
`phase` and `gen` are the server process. `born` and `done` are history.

Actions. `CommitCommand` and `RecoverThread` are the transactions that enqueue and
cancel rows (`enqueue`, `cancelUnsettled`; only `dispatchRunInterrupt` cancels, and
only turn starts; recovery cancels every process-bound row of a thread and may
enqueue the continuation). `SignalCancellation` is the half of a cancellation that
follows the commit. `ClaimRow` and `ArmCancellation` are the two parts of
`claimNext` (the row is marked running in one statement, the signal is made and the
payload decoded after it). `Recheck`, `StopExecution`, `FinishExecution`, `Settle`
are the body of `runOnce`; `RecheckFails`, `SettleFails`, `RecoverClaim` and
`RecoverClaimFails` are its error paths (`requeueClaim`, `terminalizeClaim`).
`Boot`, `SweepCancel`, `SweepRequeue`, `StartWorkers`, `StopWorkers` and `Crash` are
the ordered phases of `serverRuntimeStartup.ts` and its finalizer;
`reconcileAfterProcessLoss` is two statements and therefore two actions.
`PruneSettled` is the retention, `Elapse` the passing of time.

Effect types are reduced to four classes that the code treats differently:
`turn` (provider-turn.start and .restart, which an interrupt retires), `control`
(the other process-bound types), `title` (a lane of its own), `replayable`. What
an executor does is an outcome: it succeeds, fails, finds that there was nothing
to interrupt (`moot`), or never returns.

### EventSink

State. `log` holds what each committed event is about, `connection` and `lane` who
holds them, `wpc` and `batch` where a writer is in `commitThenPublish`. A
subscriber has a `phase`, its PubSub subscription `inbox`, the `queue` and
`charged` of its budget, `through` (the high-water mark), `pos` of the replay, what
was handed over and not acknowledged (`inflight`), and the client's `cursor`.

There are two kinds of subscribers. *Bounded* ones are streams to clients
(`replayAndBufferProjectedLiveEvents`): a fiber drains the PubSub into a queue
whose items are charged to a budget; a full budget fails the stream, and the client
resumes after its cursor. *Agent readers* are in-process consumers of
`EventSink.stream`, which have no budget and replay the log page by page. A
subscription attaches first, then reads the high-water mark, then replays up to it,
then continues with what was published meanwhile and lies above it.

Abstracted: payloads and encodings; the part of the budget that counts bytes
(items and bytes are charged and released by the same code); the durability of
`synchronous = NORMAL` under power loss (a crash of the model loses memory, never a
committed transaction). Project events and agent events share the log and are told
apart by topic.

### CommandDispatch

State. `life` and `sideOf` are the parts of thread records the locks and plans
depend on; `receipts` and `log` what the transactions leave; `started` the commands
after which `startNextQueuedRun` ran. A dispatcher is one fiber handling one
command: `path` and `locked` are its locks, `plan` what it decided, `answer` what
it will say. `moved` (the threads a plan was made from that have changed since) and
`answers` are history.

Actions follow `dispatchWithReceipt` and `dispatchWithReceiptEffect`: `Receive`
chooses the locks from unlocked reads, `Lock` takes the next one (a deletion then
learns its side chats and takes their locks in an arbitrary order, the order of the
projection), `ReadReceipt`, `MakePlan`, `Refuse`, `CommitRejected`, `CommitEmpty`,
`Commit` (with `commitCommand`'s own look at the receipt inside the transaction),
`StartQueue`, `Respond`. `RunUpdate` is one section of `handleRunUpdate`: the run's
thread and then the thread it works for, each under its lock, never nested.
`StorageFails`, `Interrupt` and `Crash` end a dispatch at any step.

A plan is reduced to its outcome (events, nothing to do, refused), with the
conditions on threads and side chats kept: those are what the locks protect.
Whether a command is refused for any other reason is a free choice.

A plan reads more than the locks cover, and `Reads` says so. A side chat (`fork`) has the
lock of its source; a plain fork (`branch`) and a merge-back (`merge`) read the runs,
turns and attempts of their source under the lock of their own thread alone
(`Orchestrator.ts` 4234-4252, and the comment at 12791). Other planners read threads
they have no lock of: the sources of pending transfers (6469, 6861) and the children of a
thread that is stopped or settled (9718, 10329, 10424, 11007). A request of any
type may therefore have a `source`, and `Unlocked` is what `PlanCurrent` leaves open.

### RunQueue

State. `status`, `held`, `place` and `author` are the columns of a run and its
message that the planners read; `fault` is the class of a failed run's error item;
`endings` the runs with a `completedAt`, in its order, from which
`latestExecutedRun` is computed. `launched`, `worktree`, `archived` and `stopped`
are the thread's records. `starts` and `captures` are the unsettled effects of the
thread's lane, `events` the terminal updates the handler has not reached. `turn` is
the provider turn of a run, `capturing` what the capture has read, `setup` the fiber
that prepares the worktree, `plan` a Stop that was decided and not committed,
`snapshot` what the shutdown's reconciliation has read. `unreviewed`, `stranded`
(messages passed over) and `abandoned` are history.

Actions. `Send` is `message.dispatch` (start, or queue behind the active run, with
what it holds and releases); `Launch`, `CreateWorktree`, `ReleasePrepared`,
`FailPrepared`, `AbandonSetup` and `RetryPrepared` are the preparation of a
worktree; `QueueResume`, `StartSelected`, `CancelQueued`, `Reorder`, `Archive` and
`Unarchive` the user's commands. Stop is one of `PlanStop` with `CommitStop` (no turn
recorded: decided from a read, committed later, while effects move the run on),
`MarkStop` (the provider is asked), `SettleStop` (its session is gone) and
`StopIdle`. `HandleRunUpdate` is the handler, with `releaseUnattendedHolds` and
`startNextQueuedRun` inside it, because all of it runs under the thread's lock.
`TurnStarts`, `SettleBeforeStart`, `AcceptTurn`, `StartFails`, `TurnEnds`,
`CaptureRead` and `CaptureCommit` are the effects and the reports of the provider.
`CaptureFails` and `StartEffectFails` are effects that the worker gives up at their
last attempt (`EffectWorker.ts` 822), `TurnLost` is a start whose failure could not be written
(`RunExecutionService.ts` 1708: the retry finds the run begun and does nothing), `SetupLost`
a preparation whose failure could not be dispatched, `HandlerFails` an update whose
handling fails and is only logged (13047). All five leave the run as it was; `abandoned`
remembers it. `ServerStops`, `ShutdownRead`, `ShutdownCommit`, `Crash` and `Startup` the process.

Abstracted: records and content; which provider instance a run belongs to (one
instance, whose limit or fault a failure records); the continuation after an update
and scheduled tasks, which arrive as an agent's message.

### The building blocks

`KeyedLock` has the table of entries with their user counts and the semaphores;
acquiring is one `Ref.modify`, waiting for the permit may be interrupted.
`DrainableWorker` and `KeyedCoalescingWorker` have one action per transaction, the
interruption of their fiber and the two orders in which the scope's finalizers run.
`LatestBuffer` has the map of pending states, the one-token wakeup queue, the
charge against the budget and the closing from either side. `CommandGate` has the
readiness state, the deferred that queued commands await, and shutdown.
`SettledSignals` has the map of deferreds, waiters that share one, the read after
the registration, and the settlement that signals after its commit.

None of them shares state with another: `BuildingBlocks` puts them side by side so
that one module can prove about them and `MCBuildingBlocks` can check them in one run.
Each states what it promises in two parts, one that is safety (`DrainIsExact`,
`CoalescesExactly`, `BufferIsExact`, `NoEarlyCommand`, `WokenAfterSettle`) and one
that is liveness (`DrainReturns`, `ValuesProcessed`, `BufferKeepsUp`, `EarlyAnswered`,
`SettleWakesAll`); the run checks the liveness of all but the gate as `WaitersServed`.

### ProviderSessions

State. `entry` is the `LiveSessionEntry` of one session id: its runtime, `busyTurns`,
`idleGeneration`, `idleFiber` and how long it has been pinned. `opening` holds the
lock of `open`; `turn` is where each turn is between `open` and its end, with the
runtime it was given; `timer` the idle fibers, also those the entry has forgotten;
`reschedule` the actors between the two halves of `scheduleIdleReleaseInternal`;
`pump` and `terminal` the event pump of a runtime and the ends of turns it has not
reached; `release` how far the release of a runtime is, `record` the status of the
session's row, `join` the runtime whose attachment a turn has still to write to it. `forsaken` and `unrecorded` are history.

Actions. `Open`, `TouchJoined`, `Launch`, `LaunchFails`, `WriteAttached`, `AttachFails`,
`EndUndo`, `EndOpen` and `StopStart` are `open` and its failures; `Rejoin` is a thread
that `startTurn` attaches again, `CommitStart` the commit that starts its run;
`MarkBusy`, `StartFails`, `TurnEnds` and `PumpTerminal` the life of a turn; `Report` is a
provider's status, `Touch` any other event or access.
Every activity cancels the old timer (`CancelForReschedule`) and, after an
asynchronous point, forks and records a new one (`Reschedule`). `Fire` reads the
session and asks the adapter for background work; `Pin` and `ReleaseIdle` act on the
answer, later. `ReleaseUnlessBusy`, `Close` and `PumpEnds` are the other releases;
`CloseScope`, `WriteRecords`, `WriteFails`, `RetryRecords` and `CutRelease` their
second half, when the entry has left the map and a replacement may be opening.

The row has five writers and no lock between them. Each reads a runtime and writes its
status later (`Recording`): `WriteAttached` for the thread that opened the session,
`WriteJoin` for one that joined it, `CommitStart` with the run it starts, `WriteStatus`
for what the provider reports, `WriteRecords` and `RetryRecords` for a release.
`RunExecutionService.ts` (373) keeps `provider_session.updated` from being written a
second time with the events of a run.

Between two asynchronous points the code runs without interruption, so each such
stretch is one action.

### ThreadLoading

State. `attached`, `loaded`, `holders` and `unload` are what the entry records of one
thread (`attachedThreadIds`, `loadedProviderThreadsByThread`, its keys in `busyTurns`,
`idleThreadUnloads`); `native` is the provider's side; `attachment` the thread's
attachment lock. `cut` is history.

Actions. A request is a turn or a request of an MCP app: `Load` is `resumeThread`,
`Attach`, `Mark`, `Resume` and `Resumed` are `startTurn` and `withMcpAppThread`,
`MarkRequestIdle` and `ScheduleUnload` its end. `EnterUnload`, `DeferUnload`, `BeginUnload`
and `Unloaded` are `unloadIdleThread`; `Detach`, `DetachUnload` and `DetachEnds` are
`detach`, whose change of the entry is not under the lock; `ThreadErrs` is the pump.

### Compaction

State. `log` is every event of one thread, `kept` those still in the table; `pass` is
the progress of `compactEventStore`: where the next page ends (`throughSequence`),
the two sets of retained threads, the candidates per key and the statement to come;
`client` is each reader's cursor, what it has read and not applied, and for each part
of the thread (a *facet*) the last event applied to it, for each entity the first.

Actions. `CommitEvent` appends; `StartPass`, `ReadPage`, `DeleteObsolete` and
`AbandonPass` are a pass, whose page and deletion are separate statements with no
lock across them; `Fetch`, `Apply` and `Reconnect` are a replay, an application and
a lost stream. `Fetch` takes one event at a time, which allows more interleavings
than the pages of the code. An event is its kind: an entity, a pull request link, or
one of the two groups that carry the whole thread. The events of other threads and
those that are never superseded are left out: they make pages shorter, and the size
of a page does not matter. The facets are what the reducers of
`orchestrationV2Projection.ts` replace: read state is not activity, so a thread's
time of activity is a facet of its own. A reader begins without a snapshot; one that
loads a snapshot is a reader at that cursor.

### The abstract specifications

`LaneQueue`, `EventFeed`, `CommandLedger` and `KeyedMutex` state in a few lines what a
caller may rely on. Each is the property of a run, under a refinement mapping written at the
end of the detailed module: the status of a row is its place in the lane and its
rowid the rank; log, cursors and seen events are themselves; receipts are
decisions, and definite answers what was told; the fibers inside the lock hold its keys.
A step of the detailed
specification is a step of the abstract one or changes nothing it can see.

## 3. What the runs check

| Run | Instance | Question |
|---|---|---|
| `outbox_lane` | start, interrupt and capture in one lane, two fibers, one attempt, two generations, one failed statement | are lanes serial and ordered, is process-bound work done at most once and only by its process, are attempts bounded, does a lease always have a fiber, are settled rows final, is each lane a queue (`ImplementsLaneQueue`)? |
| `outbox_live` | start and capture, two attempts, two generations, one failed statement | does a cancelled execution stop even if executions may never return, and, if they return, does every committed effect settle? |
| `outbox_undecodable` | a start whose payload does not decode and a title, two failed statements | does a lane stranded by its payload, or by two failed statements, leave the other lane alone? |
| `sink_streams` | two writers and either a client with a buffer of two items or an in-process reader with pages of one, a log of four, one fault | no skipped event, ascending streams, exact budget, `ImplementsFeed` |
| `sink_live` | the same client with a buffer of one item, which may read or not | does every writer finish, lane and connection included, and does a client that reads see everything, through repeated overflow? |
| `dispatch_repeat` | three commands of which one shares its id with a command for another thread, four dispatches, two dispatchers, one fault | are commands committed at most once (`AppliedOnce`), decided once and answered alike (`ImplementsLedger`), and is a resumed queue started (`FollowedUp`)? |
| `dispatch_family` | a side chat opened, a plain fork, a merge-back, a deletion, message to a subagent, end of its run, three dispatchers, one fault | is no plan overtaken, apart from a source it reads without its lock (`PlanCurrent`), are side chats never orphaned (`NoOrphan`), does every dispatch end (`Answered`)? |
| `blocks` | six building blocks, `ProviderSessions`, `ThreadLoading` and `Compaction`, one at a time: three fibers and two keys for the lock, three items for the drain, two values per key for the coalescing, four states and a budget of two for the buffer, three callers for the gate, two waiters for the signals; two turns, two runtimes, two timers and one disturbance for a session; two requests, two unload timers and two detaches for a thread; an entity, a link, both groups of thread events, four events and pages of two for the compaction | is the lock a mutex and its table exact; does a drain return neither early nor never; is no value lost when it is merged; is no wakeup lost; does no command run before recovery, and is each answered; do waiters return exactly when the effect has settled (`ImplementsMutex`, `TableExact`, `DrainIsExact`, `CoalescesExactly`, `BufferIsExact`, `GateHolds`), and is everybody who waits served (`WaitersServed`)? Do idle timers and force stops spare the turns of others (`IdleSparesTurns`), do sessions that nobody uses end (`IdleSessionsEnd`), does the row follow the session (`RecordFollows`), do turns find their thread loaded (`RunsLoaded`), and will a reader show the same as if nothing had been deleted (`ReplayAgrees`)? |
| `run_queue` | ten stories of a thread with up to three messages and one restart, three of them with effects, preparations and handlers that fail for good | does one run work at a time (`OneActive`), do held messages wait for their user (`HoldRespected`), do ended runs stay ended (`NoRevival`), does the checkpoint come before the next turn (`CheckpointFirst`), does the queue keep moving (`QueueMoves`)? |
| `dispatch_conflict`, `dispatch_forked`, `run_worktree` | see section 6 | violations of what comments say |

### The bounds, and why they are enough

* Two fibers and one lane: every hazard of the outbox is between a fiber and one
  other actor (a second fiber, a cancellation, the sweep). Three effects give a
  lane a first, a middle and a last row, one of each class, and a rowid that is
  pruned while others live. Two generations make one restart, which is what
  `born` and the sweep can tell apart. One failed statement is what the error
  paths tolerate; with two, `LeaseHasFiber` and `EventuallySettled` make their
  exceptions explicit. For the proved properties none of the bounds matters.
* Two writers suffice to reorder publications; a reader's state depends on no other
  reader, so one is enough. A log of four events with batches of two crosses the
  high-water mark, the page boundary and the budget inside and between batches. One
  fault can fall on every step.
* Two dispatchers race; the third of the `family` and `forked` instances is needed
  for the orphan. Four dispatches repeat a command after a fault and once more
  after that; three are enough for the family, whose commands are sent once.
* The building blocks share one instance: the initial state picks one of them and the
  others stand still, so the state space is the sum and not the product, and a
  property of one block is vacuous only where another runs. Each hazard of a block
  is between one fiber and one or two others; three fibers make an entry of the lock
  table that goes and comes back while somebody waits.
* Two turns and two runtimes are a session and its replacement, with a turn on each.
  Two timers are one that the entry knows and one that it has forgotten or whose
  release is under way. The one disturbance (`MaxDisturbances`) is a failure, a touch,
  a status, a second attachment, a stop or a close. Also explored was a thread with three requests, three
  unload timers and three detaches (194 thousand states, no error). The proved
  properties need no bound.
* Four events in pages of two are an oldest, a newest and a middle event of one key
  with a thread event anywhere among them, on both sides of a page boundary, while
  one is committed during the pass. Five events were explored too (1.1 million
  states, no error). For the proved property the bounds do not matter.
* The type invariants of `EffectOutbox`, `EventSink`, `CommandDispatch` and
  `KeyedLock` are proved and not repeated in a run; those of the other modules were
  checked on the instances above while the modules were written.
* A thread with three messages has one that ran, one that runs or is held, and one
  behind it, which is what the order of the queue, `latestExecutedRun` and the holds
  can tell apart. The constant `Traffics` says which kinds of events happen together
  in a behaviour; a *story* of `MCRunQueue` is a set of kinds whose handlers touch the
  same fields. All kinds but failures, at once with two messages (1.8 million states), were explored
  too, with the same properties and no error. `MaxEvents` bounds the backlog at which
  a command is still accepted to one update, enough for a command to come between
  a run's end and its handling; the handler itself is never bounded. For the proved
  properties none of these bounds matters.
* `CHECK_DEADLOCK FALSE` stands in every configuration because the systems really
  stop: when every effect has settled and the generations are used up, when the log
  has its bound and readers have caught up, when the dispatches are used up.
  Blocking that must not happen is covered by the liveness runs.

Fiber, writer and dispatcher symmetry is used in runs of invariants and of action
and refinement properties only, never with liveness. No definition distinguishes
two members of a symmetric set, nor do the properties of those runs.

## 4. Fairness

* Outbox (`WorkerFairness`). Effect's scheduler runs every ready fiber, so each
  step of a fiber that depends on nobody is weakly fair. Claims of a given row are
  strongly fair: idle fibers poll every thirty seconds whatever the wakeups do, and
  `claimNext` takes candidates by `available_at`, so a row that is claimable again
  and again is not passed over for ever. `SignalCancellation` is the post-commit
  step, `Elapse` is time. A lost process is restarted by the desktop or the service
  manager and runs its ordered start-up. Nothing is assumed about crashes,
  shutdowns, failed statements, or executions: a provider may never answer. Only
  `EventuallySettled` has `ExecutionsEnd` as its hypothesis.
* Sink (`WriterFairness`). From the moment it waits for the lane a writer is
  uninterruptible, and only the holder of the connection waits for the lane, so
  weak fairness of each step is enough. Clients owe nothing; `ReaderFairness` (a client resumes, reads and
  acknowledges) is the hypothesis of `EventuallySeen` alone.
* Dispatch (`FairSpec`). Fibers are scheduled and a semaphore hands its permit to
  the next waiter; as dispatches are bounded no lock is contended for ever.

* Building blocks. Each has weak fairness of the steps of its own fibers: the scheduler
  runs what can run, a transaction is retried when what it read has changed, and
  `DrainableWorker` assumes that an item's processing ends, `KeyedCoalescingWorker`
  likewise. Nobody is obliged to call, to drain, to leave or to stop.
* Sessions (`SessionsFairness`). Timers fire and their probes answer,
  since a probe that fails counts as "no work"; the fiber of an open, of a reschedule,
  of a pump and of a release goes on, and an open launches or fails. A turn may last
  for ever, and nobody has to open, to touch or to close.
* Runs (`LiveSpec`). Weak fairness of whoever holds the thread's lock (the handler, a
  Stop that is committing) and of the effect lane (start of a turn, its acceptance or
  failure, the capture). A turn may last for ever, a preparation may hang, nobody has
  to send a command, and a lost server need not come back. A lane that two failed
  statements have stranded (`outbox_undecodable`) does not go on; that none is stranded
  is a hypothesis of this fairness. Given it, a message waits in the model for
  the reasons `QueueMoves` names and no others: it is held, it was passed over (when its
  turn came, the thread was archived or the handler failed), the thread is archived, the
  provider is limited, the server is down, a turn or a preparation is under way, or
  the run in front of it is one whose effect or fiber failed for good. The last ends only
  with a Stop or a restart, and there is no timer in the code that would notice it.

## 5. What is proved

### EffectOutbox

`EffectOutboxProofs` proves, for every set of effects, threads and fibers, every
assignment of kinds and threads, and all bounds, from `ConstantsAssumption` alone:

| Theorem | Property |
|---|---|
| `Invariance` | `IInv`, the inductive invariant |
| `TypeCorrect` | `TypeOK` |
| `LanesAreSerial` | effects of a lane execute one at a time, apart from a cancelled one on its way out |
| `LanesAreOrdered` | a running row is the oldest unsettled one of its lane |
| `ProcessBoundNeverCrosses` | process-bound work is executed only by the process that committed it |
| `ProcessBoundAtMostOnce` | process-bound work that succeeded is not executed again |
| `AttemptsAreBounded` | claims of a row are at most `maxAttempts` plus restarts plus failed statements |
| `LeasesAreHeld` | one failed statement never strands a lease |
| `SettledRowsAreFinal` | a settled row never changes but by pruning |
| `OutboxImplementsLanes` | the outbox implements `LaneQueue` |
| `LanesNeverStall` | `LaneMoves`: for every unsettled row, unless stranded, somebody has a step to take in its lane |
| `CancellationsReachExecutions` | `CancellationReaches`: an execution of a cancelled row is or will be told to stop |

None of the properties is inductive alone. `IInv` adds what the code relies on
without saying so:

* `Ownership`. A fiber holds an effect exactly while it is inside `runOnce`, two
  fibers never hold the same one, and the row a fiber holds is running or
  cancelled. Lane serialisation follows: two executing fibers of a lane hold two
  rows, both running unless one was cancelled, and `LaneOrder` allows one running
  row. Pruning needs it too: a cancelled row must outlive its execution.
* `OnlyCancelledSignalled`. A signal fires only for a cancelled row, so an
  execution is never interrupted and left running in the table.
* `Rowids`. Live rows have distinct positive rowids; with `Insert`'s choice of a
  rowid above all others this makes `LaneOrder` survive pruning.
* `Reconciled`. By the time fibers start, every unsettled process-bound row was
  committed by this process, and no row is running. Each conjunct holds from the
  start-up phase that establishes it.
* `DoneStaysDone`. Process-bound work that succeeded is settling or terminalizing:
  no path leads back to `pending`.
* `BudgetLeft`. A row that can be claimed has an attempt left in
  `MaxAttempts + gen - 1 + storageErrors`: restarts and failed statements pay for
  the attempts that exceed `MaxAttempts`.

The step theorem has one case per action and, below it, one step per conjunct the
action can disturb; the refinement theorem maps each action to a step of
`LaneQueue` or to a stutter.

The last two theorems are the state halves of `EventuallySettled` and
`CancelledExecutionStops`. `LanesNeverStall` follows from `IInv`: among the unsettled rows
of a lane one has the smallest rowid (`SmallestNumber`, the well-ordering of the
numbers); it is running and a fiber has it, or it becomes due, or it is claimable,
because nothing of its lane is running. `CancellationsReachExecutions` needs
`Listening` (a fiber that has armed its signal keeps it until it leaves) and the order
of the code: `runOnce` arms the signal before it reads the row again, so a cancellation
that this reading misses finds the signal armed.

### EventSink

`EventSinkProofs` proves, for every set of writers, subscribers and topics, every
filter, and all bounds, from `ConstantsAssumption` alone:

| Theorem | Property |
|---|---|
| `SinkInvariant` | `IInv`, the inductive invariant |
| `SinkTypes` | `TypeOK` |
| `SinkSkipsNothing` | `NoEventSkipped`: a subscriber has seen all it wants up to its cursor |
| `StreamsStayInOrder` | `StreamsAscend`: what is handed over ascends and continues what was applied |
| `BudgetStaysExact` | `BudgetExact`: a budget charges what its stream holds |
| `SinkImplementsFeed` | `ImplementsFeed`: the sink implements `EventFeed` |
| `PublicationIsNeverBlocked` | `LaneComesFree`: who waits for the lane with the connection waits for one that needs no connection |
| `StreamsRestAtTheEnd` | `RestsOnlyAtTheEnd`: a stream rests only when its subscriber has seen all it wants |

The proof says where each event is that a subscriber wants and has not seen.

* `WriterInv`. Whoever commits or publishes holds the lane, and its batch is the end
  of the log. So at any moment there is one number up to which the log has been
  published to a subscriber, `Published`; without the lane there would be none.
* `ReplayInv`, `LiveInv`. Up to the position of the replay an event was handed over;
  up to the mark it will be replayed; between the mark and `Published` it was handed
  over or waits in the queue or the subscription; above `Published` it will be
  published. An attached stream misses nothing only because it subscribes before it
  reads the mark: what is committed between the two is in the subscription.
* `OrderInv`. What waits is ascending, the queue before the subscription, and what
  lies above the mark comes after all that was handed over. What lies below the mark
  is what `IsLive` drops when it is taken.
* `InflightInv`. What is handed over has no gaps, so that applying it, all of it or
  not, keeps `NoEventSkipped` when the client resumes after its cursor.
* `BudgetInv`, `Positions`: the charge, and the order of cursor, replay and mark.

Filtering keeps order and elements: the module states the filter (`Only`) and the
page of the log (`InOrder`) by counting the members of a set, as the recursive
`SelectSeq` is beyond the prover, and the lemmas on ranks (`Ranks` and the ones that
follow it) carry that argument. In the refinement `Commit` is the feed's `Grow`,
`Receive` its `Deliver`, and every other step a stutter.

The last two theorems are the state halves of `PublicationCompletes` and `EventuallySeen`.
Writers cannot wait in a circle because the lane belongs to a writer that has
committed and let the connection go; and when no writer has a commit to announce and
a live stream holds nothing, `LiveInv` leaves no place where an event could be that
its subscriber has not seen.

### CommandDispatch

`CommandDispatchProofs` proves, for every set of dispatchers, every finite set of
threads, every set of requests and all bounds, with every failed statement,
interruption and crash:

| Theorem | Property |
|---|---|
| `Invariance` | `IInv`, the inductive invariant |
| `TypeCorrect` | `TypeOK` |
| `AppliedAtMostOnce` | the events of a command id are committed at most once |
| `QueueFollowedUp` | a resume reported as accepted has started the queue |
| `DispatchImplementsLedger` | the dispatch implements `CommandLedger` |
| `PlansInvariance` | under `SourcesSettled`: `IInv /\ PInv`, the inductive invariant of the next two |
| `PlansStayCurrent` | under `SourcesSettled`: `PlanCurrent`, what a plan read is unchanged at its commit, apart from a source read without its lock |
| `DeletionsCascade` | under `SourcesSettled`: `NoOrphan` |
| `DispatchUsesMutex` | the locks of all dispatches together behave as `KeyedMutex` says |
| `LocksCannotDeadlock` | under `FamiliesOrdered`: `NoCircularWait`, no set of dispatches waits only for one another |

`IInv` joins what the transaction guarantees to what the locks guarantee:

* `Logged`. Every event of a command is matched by the receipt that names its
  place. `AppliedOnce` follows: two events of one id would share a receipt. Only
  the look at the receipt inside the transaction keeps it, no lock is needed.
* `Locking`. A dispatch holds all its locks, its own thread's among them, from the
  reading of the receipt to its end, and a lock has one holder.
* `Undecided`. While a dispatch plans, no receipt for its own thread can appear,
  because whoever writes one holds the same lock. This is where the rejected and
  the empty plan depend on the locks: they answer what they decided, and
  `insertIfAbsent` may have kept an older receipt, which is then that of another
  thread.
* `Answering`. A definite answer, given or about to be given, agrees with a receipt
  that will not change, unless that receipt names another thread. The exception is
  real: it is the violation `dispatch_conflict` shows, and the reason the mapping to
  the ledger leaves answers about another thread's receipt aside.

The refinement maps the two kinds of steps that matter: a receipt that was absent
is kept (`Decides`, the ledger's `Decide`), and an answer is given (`Respond`, the
ledger's `Tell`). Every other step changes neither receipts nor answers.

Three theorems are about `FirstLocks`, which chooses locks from what it reads while it
holds none. `SourcesSettled` says of the constants when that is enough: side chats are
opened on threads that were there, and not as side chats, from the start, and the
thread of a fork is a new one that no other command makes. `dispatch_family` is such
an instance; `dispatch_forked` is not, and violates `NoOrphan`, so the assumption
cannot be dropped altogether. `PInv` has these parts:

* `OnPath`. The locks a plan needs are on the path. A fork whose thread is missing
  takes its source's lock, as the source, a root, is neither missing nor a side chat
  (`Roots`). A fork whose thread is there does not, but then it was accepted before
  (`ForkTargets`) and is answered with its receipt.
* `Cascade`. A deletion takes the lock of its thread, reads the side chats under it,
  and has them all on its path until it commits. They stay all there are, because a
  new one needs a fork, which needs the same lock. Side chats are never roots
  (`Parents`), so the deletion deletes no thread that may have side chats but its own.
* `PlanHolds`. What a plan found under its locks is still so when it is committed,
  because other commits change threads under their own locks only (`AppliesUnderLocks`).
  What it found of a source without a lock may have changed, but a source that was
  there does not go, and a thread that is there never becomes a side chat.
* `NotStale`. What a dispatch reads lies under its locks (`ReadsUnderLocks`), save the
  source, and the locks of two are apart.

`NoOrphan` is part of `PInv`: a deletion takes the side chats with it, and a fork is
applied while its source is live.

`NoCircularWait` is the safety half of `Answered`: of any dispatches that wait for locks,
one waits for a lock that none of them holds. No order of all locks is fixed in the code:
a deletion takes the locks of its side chats in the order the table lists them. What
there is instead is the lineage. `DInv` says that after its first lock a dispatch takes
only locks of descendants of that thread (`PathDescends`), none twice, and that side chats
descend from the thread they belong to (`SidesDescend`), which a deletion reads when it
already holds a lock. Among dispatches that wait for one another, take one whose first
lock belongs to a thread with no descendant among the first locks of the others. What it
waits for is a descendant, so it is nobody's first lock; whoever holds it as a later lock
began with the same ancestor, and that lock has one holder.

`FamiliesOrdered` says that a thread descends from one thread at most, and that descent
has no cycles. The code writes the one parent of a thread with the thread and never
changes it (Orchestrator.ts:11441), as a fork or as a subagent and not both
(ThreadForkService.ts:102), and a thread is made after its parent; the instances of the
`dispatch_*` runs satisfy it. The requests must respect it as well: two forks of different
sources into one new thread id do not, although only one of them can be accepted. On that
instance TLC finds a circle of three (a deletion, a fork into one of the side chats being
deleted that was received before that side chat was there, and a message to the subagent
that the fork takes as its source), so the assumption cannot be dropped. Clients choose
fresh ids, so it takes an id used twice.

### KeyedLock

`KeyedLockProofs` proves, for every set of keys and semaphores and every finite set
of fibers, `LockTypes`, `LockExclusive` and `LockTableExact`. The inductive invariant
(`LockInvariant`) adds `Referenced` (a fiber in `withLock` refers to the semaphore of
its key's entry, so the entry exists), `OwnSemaphore` (no semaphore serves two keys)
and `PermitFollowsHolder` (the permit of an entry is out exactly while a fiber is
inside). An entry leaves the table only with its last user, which is why the count
(`EntryCountsUsers`) must be exact for exclusion to hold: the lemmas on
`Cardinality(Users(k))` are the heart of the proof.

`LockImplementsMutex` shows that the lock implements `KeyedMutex`, with the fibers that are
inside as the holders: taking a permit is `Take`, giving it back `LetGo`, and what happens
to the table is a stutter. `CommandDispatchProofs` shows the other side
(`DispatchUsesMutex`): `CommandDispatch` has no table of locks, only what each dispatch holds, and
what they hold together, nested, extended by a deletion and dropped by a crash, is taken and
let go as `KeyedMutex` says. So the exclusion that its proofs assume of a lock is the one
the table provides. What `KeyedMutex` does not say is in the other theorems: a waiter's permit
is there whenever nobody is inside (`LockTableExact`), and dispatches do not wait in a
circle (`LocksCannotDeadlock`), which includes the case that `KeyedLock.ts` warns of, a
dispatch that takes a lock it holds already (line 16).

### The other building blocks

`BuildingBlocksProofs` proves, for any items, keys, callers, waiters and limits, from
`BlocksAssumption` and `LockAssumption` (what stands for nothing is not one of the
things, and the bounds are natural numbers):

| Theorem | Property |
|---|---|
| `DrainInvariant`, `DrainsAreExact` | `DrainIsExact`: the count is exact and no drain returns early |
| `CoalescingInvariant`, `CoalescingIsExact` | `CoalescesExactly`: a key is queued once, and no `drainKey` returns early |
| `BufferInvariant`, `BuffersAreExact` | `BufferIsExact`: wakeups are paired with pending states, charges with what is held |
| `GateInvariant`, `GateHoldsBack` | `NoEarlyCommand`: nothing runs before recovery, nothing that was rejected |
| `CallersAreServed` | `CallersKept`: no queued caller is dropped or left before a gate that nobody decides |
| `SignalsInvariant`, `WaitersWokenLate` | `WokenAfterSettle`: nobody returns before the row has settled |
| `WakeupsAreOwed` | `WakeupOwed`: who still waits when the row has settled is or will be woken |

* Drain. The count alone does not show that a drain waits for the right items.
  `ItemsAccounted` says where each accepted item is as long as the queue is open: done,
  running or queued. A count of zero then means that all are done.
* Coalescing. `QueueDistinct` (no key twice in the queue) and `QueuedExactly`
  (`queuedKeys` is the queue and the key just taken) need each other: a key is appended
  only when it is not in the set, and leaves the set only when it has left the queue.
  `ValuesAccounted` follows a value through merging, so a `drainKey` that finds its
  key neither pending nor active has seen every value processed.
* Buffer. `WakeupPaired` is inductive only with `OneWakeup` (while the reader is woken
  there is no second token, nor a source about to offer one), `ClosedAtTheEnd`
  (closing wakes nobody after) and, for the charges, `StatesOnce` and
  `FlightDelivered`: a state is not pending twice, nor pending and in flight, so that
  releasing one charge releases one state.
* Gate. Five things can let a command through; `OpenAfterRecovery` names them and says
  that each came after the recovery. A rejected command never ran because the queue
  holds a caller once (`QueueWaits`) and who ran has its answer or is being served
  (`RanAnswered`). `CallersAreServed` is the other side, the state half of
  `EarlyAnswered`: until the server has closed, a queued caller is in the queue or being
  served, and the deferred is open only while a startup goes on that will complete or
  fail it, whichever way signalling, failing and closing race.
* Signals. `completed` stays empty and no signal is owed before the row settles, which
  is why it does not matter for this whose deferred a waiter joined. For the other
  direction, the state half of `WaitersServed`, it does: `Shared` says that a waiter's
  deferred is that of the entry or is completed, so that completing the entry's misses
  nobody, whichever waiter clears the entry.

### RunQueue

`RunQueueProofs` proves, for any number of messages, restarts and unhandled updates
and any traffic, from `QueueAssumption` alone:

| Theorem | Property |
|---|---|
| `QueueInvariant` | `QInv`, the inductive invariant |
| `OneRunAtATime` | `OneActive`: at most one run is preparing, starting, running or waiting |
| `HeldForReview` | `HoldRespected`: a user's held message stays held or cancelled until its user acts |
| `EndedRunsStayEnded` | `NoRevival`: only the retry of a preparation makes an ended run active |
| `CheckpointBeforeTurn` | `CheckpointFirst`: no turn starts beside an outstanding checkpoint |
| `EveryRunIsDriven` | `RunsDriven`: each active run has a set-up, a start effect, a turn or a capture to move it on, unless that failed for good (`abandoned`) |
| `QueueIsDriven` | `QueueDriven`: while a message waits that was not passed over, a run is active, an end is unhandled or the provider is limited |

`OneActive` and `HoldRespected` are not inductive: three writers commit from what they
read earlier. `QInv` says what each of these reads still guarantees at its commit.

* `PlanBegun`. The run a Stop has decided to end left the queue and is not a held
  message, whatever effects have done to it since.
* `CaptureBegun`. A capture belongs to a living server; its run left the queue, and one
  that was stopped when it was read stays stopped.
* `SnapshotKept`. A user's message that waits now was waiting when the shutdown read
  the thread, and was not held then unless it is held now: so the commit of the
  shutdown holds every user message still waiting.
* `ArrivalOrder`, `UsersOnly`, `Tables`: what the others need of the records.

Steps that move one run along its life are one lemma (`RunMoves`), used by seven
actions; the actions that touch the queue or the process have a case of their own.

`CheckpointFirst` follows from the order of the lane and from `OneActive`: a run that
starts its turn is active, so no other one is waiting. That a waiting run has its capture
is not an invariant, as the capture may fail for good.

The last two theorems together are the state half of `QueueMoves`: whatever a waiting
message waits for has somebody to do it, or is a run in `abandoned`.

* `EveryRunIsDriven` needs `PlanAlone`: a Stop that commits cancels every start effect
  of the thread, which strands no run only because the run it was planned for is the
  one that is starting.
* `QueueIsDriven` is about `StartNext`: the handler of the last update may leave the
  queue alone only if it starts a run, holds what is left, or may not go on because
  of a limit. The first of the waiting messages in delivery order exists
  (`NextInOrder`: positions are bounded, `Places`, and ordinals are well ordered), so
  `Candidates` is not empty when somebody waits; `Listed` makes the head and the tail
  of the unhandled updates reason like those of a sequence.

### ProviderSessions

`ProviderSessionsProofs` proves, for any turns, runtimes, timers and disturbances, from
`Bounds` alone (`MaxRuntimes` and `MaxPins` are natural numbers):

| Theorem | Property |
|---|---|
| `SessionInvariant` | `SessionInv`, the inductive invariant |
| `WorkIsSpared` | `IdleSparesTurns`: idle timers and force stops spare the turns of others |
| `RecordsFollow` | `RecordFollows`: the row of a session that is gone does not say ready, unless a release was cut or a status was written after its release |
| `SessionsAreWatched` | `SessionWatched`: a session that no turn uses has a mark about to go, a reschedule under way or a timer that will find it idle |

`IdleSparesTurns` looks like the guard of `removeLiveEntry`, but that guard reads
`busyTurns`, not the turns. What joins them is `Marks`: a turn that works on the live
runtime is marked in its entry. This is where the comparison of runtimes in `markBusy`
is needed, since a turn can be given a runtime that is replaced before it is marked,
and where the order of a turn's end matters, since the pump of an old runtime unmarks
turns in the entry of the new one: `Marks` also says that every terminal event still
outstanding is that of an ended turn. Generations are not in the invariant at all: a
replacement begins again at zero, so a forgotten timer may release a younger session
than the one it was forked for, and the proof shows that this is harmless to turns.
`RowOwned` is the strengthening for the row: one that says ready belongs to a live
session or to a release that is not over, unless it is `unrecorded`.

`SessionsAreWatched` is the state half of `IdleSessionsEnd`, and here the generations
matter. `FiberKnown`: the timer in the entry is that of an idle session, knows its
generation and probes its runtime, so it cannot end for nothing; forgotten timers may.
`FiberOwn`: a release cancels its own timer and not the one of a replacement, although
it does so after the entry has gone, because a timer that a release still has to cancel
is not given to another session. `BusyWorks` and `PumpsRun`: a mark belongs to a turn
that works or whose terminal event a running pump has still to read. `Watched`: a
session without marks is being attached, has a timer, or somebody is between cancelling
the old one and recording the new one. Only a start that is stopped just there breaks
this (`forsaken`, the exception that `IdleSessionsEnd` makes too).

### ThreadLoading

`ProviderSessionsProofs` also proves, for any requests, unload timers and detaches, from
`HoldersDistinct` alone (the holders of the lock can be told apart):

| Theorem | Property |
|---|---|
| `LoadingInvariant` | `LoadInv`, the inductive invariant |
| `RunsAreLoaded` | `RunsLoaded`: a running turn finds its thread loaded unless a detach came upon it |

`LockHeld` says who holds the attachment lock, `BooksExact` that `loaded` is never
ahead of the provider, `Unshared` that an unload finds nobody on the books and that
whoever runs is on them.

### Compaction

`CompactionProofs` proves, for any entities, links and readers, any length of the log
and any size of a page, from `CompactionAssumption` alone (entities are not links, and
neither are the two groups):

| Theorem | Property |
|---|---|
| `CompactionInvariant` | `CompactionInv`, the inductive invariant |
| `CompactionTypes` | `CompactionTypeOK` |
| `CompactionAgrees` | `ReplayAgrees`: a reader that goes on shows the latest state of every part and every entity in its place |

`Superseded` says in terms of the log, and not of the table, when an event may go; it
can only become truer as the log grows (`SupersededStays`), which is why a page may be
decided before commands append and deleted after. `MemorySound` says that what the
pass remembers lies behind it, `ReaderSound` that a reader has applied whatever the
table holds up to its cursor. `LatestStays` and `FirstStays` connect the two: the
events a reader needs are never superseded.

### Only model-checked

Every liveness property: `EventuallySettled`, `CancelledExecutionStops`, `EventuallySeen`,
`PublicationCompletes`, `Answered`, `QueueMoves`, `IdleSessionsEnd`, `WaitersServed` and
the second half of `GateHolds` (temporal proofs under fairness need `ENABLED`, which the
prover does not handle). Every invariant and every action property of the passing runs
is a theorem.

A liveness property can fail in two ways: something waits for what nobody will do, or
somebody who could take a step never does. The first is a fact about states and is
proved for `EventuallySettled` (`LanesNeverStall`), `CancelledExecutionStops`
(`CancellationsReachExecutions`), `EventuallySeen` (`StreamsRestAtTheEnd`),
`PublicationCompletes` (`PublicationIsNeverBlocked`), `Answered` (`LocksCannotDeadlock`),
`QueueMoves` (`EveryRunIsDriven` and `QueueIsDriven`), `IdleSessionsEnd`
(`SessionsAreWatched`), `EarlyAnswered` (`CallersAreServed`) and, of `WaitersServed`,
the waiters of settled effects (`WakeupsAreOwed`) and of keyed locks (`LockTableExact`),
for every value of the constants. TLC is left with the second: that
under the fairness of section 4 these steps are taken and lead on.

## 6. Where the code and its comments disagree

Three runs end in a violation of a sentence the source says about itself.

* `dispatch_conflict`. Comment at `Orchestrator.ts` 12751: "Receipts only prove
  execution for the thread they were recorded against." The check compares threads
  before the plan; `commitCommand` finds a receipt that was inserted since and
  replays it without comparing. Two dispatches of one id for two threads hold
  different locks, so the second may be told that it was accepted.
* `dispatch_forked`. Comment at 12945: the fork's and the deletion's locks never
  interleave, because a fork from a side chat is rejected. Whether the source is a
  side chat is read before any lock is held; if it is promoted in between, the fork
  is accepted without the lock of its source, and a deletion of the source that
  commits meanwhile leaves the new side chat without its thread.
* `run_worktree`. Comment at `Orchestrator.ts` 760: "Failed worktree setup keeps the
  queue held so queued messages cannot start in the project checkout." The handler
  holds the queue only if the failed run is still the latest executed one when its
  update is handled. A message sent after the failure has committed and before the
  handler has the lock starts at once; when it has ended, it is the latest, and the
  messages queued behind the preparation start without a worktree.

Read in the code while modelling and not checked by a run: the side chats of a
deletion are read under the lock of the thread only (`Orchestrator.ts` 12964), not
under their own as the comment at 12719 says, so one that is promoted before the
deletion gets its lock is deleted as a thread of its own. And locks are no longer ordered
by lineage when two forks of different sources ask for the same new thread id: with a
deletion and a message they can wait in a circle (section 5, `FamiliesOrdered`).

Three exceptions of the properties of provider sessions are behaviours of the code. The
first write of a release's records passes `replaced: false` (`ProviderSessionManager.ts`
1085) without looking, so it may mark the row of a replacement that opened meanwhile as
stopped. The row stays ready after the last release (`unrecorded`) in two cases: the
request that releases is interrupted after the removal, or the release overtakes a writer
that has read its runtime. Such a writer is the attachment of a thread that opens the session
(2348) or joins it (1396-1406), the commit of a started run
(`ProviderTurnStartService.ts` 1424), or the pump that persists a status (1995-2006): none
holds a lock that the release takes, and none is undone by it. A later release, or a retry of
its records that finds no live session, writes the row again and ends the exception. A start that is
stopped between cancelling the idle timer and recording the next one leaves the session
without a timer until the next activity (`forsaken`).

## 7. Not modelled

* What executors, planners and adapters compute: outcomes stand for them.
* The wakeup queue of the outbox (it changes latency, not what may happen; fibers
  poll: a lost wakeup costs at most the thirty seconds of `EffectWorker.ts` 900),
  metrics, tracing, formatting.
* Of the runs: steering and restarting an active run, rollback of checkpoints,
  deliveries of delegated tasks, which pass other messages in the queue and are
  offered again by later updates (`Orchestrator.ts` 12927), several provider instances in
  one thread, the reordering of ordinals when a later message starts first, and
  `restartContinuationRun` other than as an agent's message. The properties of
  `RunQueue` are about the messages of one provider instance without these.
* Attempts, turn items, subagents and requests, which follow their run.
* Of the runs also: the `/goal` command, and a `thread.stop` whose interrupt fails. A
  stream of run updates that ends because its subscription or replay fails when the
  server starts: the handler then handles nothing until the next start, and `RunQueue`
  assumes that it runs.
* Of the commands: what effects, provider events, captures and reconciliations write
  without the lock of a thread (`RunExecutionService.ts`, `ProviderEventIngestor.ts`,
  `ProviderTurnStartService.ts`, `CheckpointCaptureService.ts`). `PlanCurrent` is about
  commands and the sections of `handleRunUpdate`; what the others can overtake is the
  subject of `RunQueue` (`PlanStop`, `CaptureRead`, `ShutdownRead`). The check that
  the source of a merge-back was forked from its thread is among the reasons for a refusal,
  which are a free choice. The merge-back of `dispatch_family` is of a side chat, which
  nobody there changes without the lock of its parent; the fork `b` is the plan that is
  overtaken.
* Of `LatestBuffer`: updates arrive in order, so that one is never older than the state
  that is pending, and the drop of such a one (`LiveStreamBudget.ts` 280) does not occur.
* Of the provider sessions: MCP credentials and their revocation, the roster of
  background tasks, subscribers, pending runtime requests and the permit they share
  with the removal of an entry, the release of all sessions at shutdown, and
  `ensureThread` and `forkThread`, which note a thread as loaded without its lock. A
  turn key starts once: a run restarted under the same ordinal on a replacement could
  be unmarked by the old pump, as `markIdle` does not compare runtimes. An unload that
  is given up after its timeout is taken to happen before the provider sees a later
  resume. In `ThreadLoading` attaching and marking do not fail.
* Projections: they are folded inside the transaction that appends the events, so
  the models treat them as the state those events define. Their compaction is
  modelled, their rebuild and verification are not.
* Real time. `due` and backoff are "not yet" and "now".
* User interfaces, the marketing site, native wrappers, source control, ssh,
  tailscale and provider protocols: I/O and external programs.

## 8. Plan

Done: `EffectOutbox`, `EventSink`, `CommandDispatch`, `RunQueue`, `KeyedLock`,
`ProviderSessions`, `ThreadLoading` and `Compaction` with their proofs; the four
abstract specifications `LaneQueue`, `EventFeed`, `CommandLedger` and `KeyedMutex`; the
building blocks `DrainableWorker`, `KeyedCoalescingWorker`, `LatestBuffer`, `CommandGate`
and `SettledSignals`, with proofs of their safety; the state halves of the liveness
properties.

What would come next, most important first, starting with what can be proved of the
model as it stands: what `DrainReturns`, `ValuesProcessed` and `BufferKeepsUp` rest on.

1. Delegated tasks and their deliveries on top of `RunQueue`; steering and restarting
   an active run; rollback.
2. Of the provider sessions, MCP credentials, the transition policy and continuations.
3. Clients: the connection supervisor, the outbox of unsent messages; then the
   desktop's backend manager and updater.

## 9. Running it

```
tlc -config EffectOutbox_lane.cfg MCEffectOutbox    # likewise for the other configurations
tlapm EffectOutboxProofs.tla       # likewise the other ...Proofs modules
```

`PROJECT.json` names the module and the configuration of each run, the properties
it checks, the source lines every definition stands for, and the mutants that show
each property can fail.
