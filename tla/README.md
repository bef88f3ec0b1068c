# TLA+ models of stream247

stream247 keeps a 24/7 channel on air: it selects items from libraries, VODs and live sources,
plays them with ffmpeg, relays the result to one or more RTMP outputs, and lets an operator and
the chat steer the programme. This directory holds models of its coordination logic: what the
containers write to the shared runtime row, what happens when those writes, the processes and
the failures interleave, and proofs that the most important promises hold for any instance.

Paths below are relative to the repository root.

## 1. The system

Four kinds of actors share one Postgres database and some volumes:

| actor | code | what it does |
|---|---|---|
| playout container | `apps/worker/src/index.ts` (`runPlayoutCycle`) | every 15 s, or when woken: read the state, select, resolve, stop/spawn ffmpeg, write `playout_runtime` |
| worker container | `apps/worker/src/index.ts` (`runWorkerCycle`) | every 30 s: ingest, schedule, chat effects, incidents, alerts, Twitch, relay supervision |
| uplink container | `apps/worker/src/index.ts` (`runUplinkCycle`), `multi-output.ts`, `uplink-watchdog.ts` | one ffmpeg per RTMP output, fed from the relay |
| web admin | `apps/web/lib/server/*` | operator actions, CRUD, overlays |

Every state write runs `withSerializedStateWrite` (`packages/db/src/index.ts:4728`): one
read-modify-write under an advisory lock. Nothing else is shared, so every promise about the
air is a promise about *who writes which column when, and what was read before*.

### Inventory

| component | state it keeps | operations | interacts by | what is hard | what makes it correct |
|---|---|---|---|---|---|
| Playout control | `playout_runtime` row; `playoutProcess`, `plannedStopReason`, kept exit write, abandoned set | the cycle, ffmpeg exits, stop deadline, presses of the admin, chat votes | row, signals, exit callbacks | a cycle lasts up to minutes and goes on with what it read; exits and presses in between; refused writes | one encoder; the row names what is on air; no press is erased; every press is served |
| Input-open retry, fallback ladder | `inputOpenRetry` | owe, retry once, give up | selection, exits | the retry is bridged, covered by a slate, overtaken | one retry of an item that did not open |
| Resume points | the pool's entry of `resumePoints` | start, checkpoint, exit, expire | exits, selection | restart and cut between two writes | an item is continued a bounded number of times |
| Schedule | `schedule_blocks`; recorded window, fired cues | editor's saves, takeover, cuepoints | row, selection | clock change, blocks past midnight, edits of the block on air | one block at a time; a dated block keeps its time; a cue fires once |
| Pool rotation | pointer and position per source | next item, store the position | selection | items held, deleted, continued; refused position writes | no item and no source is passed over |
| Source circuit breaker | breaker row per source, its incident | outcome, trial, close now, delete | resolves, admin | late and carried outcomes, plan outside the lock | a hold is served, a close stands, every hold ends |
| Loop pacing | wake latch, coalescing writer | request, sleep; submit, write | timers | a wake during a cycle; a write in flight | no wake lost, the last value written |
| Uplink | process per output profile, watchdog, destination rows | start, restart, back off; sync, save | ffmpeg, relay API, rows | faults and recoveries in any order, two containers on one row | dark for a bounded time; restarts rationed |
| State persistence | advisory lock, tables, secrets, audit trail, schema | boot, read-change-write, retry | all containers | lost answers, deadlocks, restarts, changed key, every release's schema | applied once; nobody's save undone; the boot serves |
| VOD cache | jobs, partial files, locks, columns | look up, download, prune, release | volume, row | cut downloads, stale locks, eviction | what is asked for comes to be on disk |
| Source ingest | sources, items, sync history; the turn of a source; chapters | list, replace, delete, sweep, probe, edit | HTTP, tables, incidents | listings that fail or are of a part; edits under a sync; a budget of calls | nothing taken away without evidence; no source starves; edits stand |
| Chat interaction | campaign, poll, requests; chat on air | vote, ask, apply, moderate, flush | Twitch, row, queue | the item has left; the operator holds the air; refused writes | a vote cuts its item only; requests rationed; deleted lines leave |
| Twitch connection | token rows, schedule segments | heal, refresh, write title, sync the schedule | HTTP, rows | half-failed syncs, rows read before a request and written after | no segment forgotten; a refreshed token stays |
| Incidents | incident rows, flags of the process | observe, open, close, rearm | all | outage of the database, restart | an incident ends with its cause |
| As-run log | `as_run_log`, queue of writes | start, end, boot | exits | refused writes, late exits | runs do not overlap |
| Web admin | the tables above | read, guard, write | rows | guard and write are two steps | see each table |
| Overlay and rendering | scenes | draw, publish | files, one table | - | layout; not modelled |

`PROJECT.json` lists them with their sources and status, and every hazard with its line.

## 2. What is modelled

### `PlayoutRow` - the row and the pure decisions on it

The columns of `playout_runtime` through which the playout, the worker and the admin coordinate,
and every pure decision taken on them: precedence (`packages/core/src/operator-precedence.ts`),
the arms of `choosePlaybackCandidate`, the write decisions of
`apps/worker/src/playout-boundary.ts` (which restart flag, which insert, which pending action a
write may clear), the exit handler's `exitRuntimeUpdate`, and what each broadcast action writes.
It has no variable. Columns that only carry text, times of display or statistics are left out.

| operator | code |
|---|---|
| `LiveTakesAir`, `OverrideHold`, `InsertHold`, `HeldOut` | operator-precedence.ts |
| `Candidates` | choosePlaybackCandidate; the library-dependent arms are one: any item not held out |
| `InsertGivesWay`, `PrepareFailure`, `RestartFlagAfter`, `ClearPendingAction`, `DropInsertOf`, `MarkInsertActive`, `CycleEndStatus` | the `decide...` functions of playout-boundary.ts |
| `StartedRow`, `CycleEndRow`, `StartFailedRow`, `ExitRow` | the four row updates of a start, a cycle end, a failed start and an exit |
| `PressAllowed`, `OperatorRow` | the guards and the writes of runBroadcastAction |
| `VoteApplies`, `VoteRow` | decidePassedSkipVote and drainChatEffects |

### `PlayoutControl` - the reconciliation loop

The playout cycle as a sequence of steps (`pc`), one step between two awaits that matter, with
the locals the code carries over them: `st` (`state`), `sel` (`selection`), `keep`
(`keepRunningInput`), `restarting` (`restartRequested`), `used` (`consumedRequests` and
`consumedInsert`), `wasRunning` (`processRunningAtCycleStart`). Against it run

- ffmpeg: `ProcessExits` (cleanly, failed, for a signal, or long after it was abandoned); the
  handler clears the handle at once and queues its write (`exitq`), as the code does;
- the database: `ExitWriteCommits`, `ExitWriteRefused` (the write goes to `kept`,
  `createFailedExitWrite`), `CycleFails` (a refused call ends the cycle);
- the container: `ContainerRestarts` (a stall, a long outage, a redeploy);
- the admin: `PressRead` then `PressWrite`; chat: `ApplySkipVote`; time: `HoldRunsOut`.

The steps of a cycle, in order: `StartCycle`, `ReadState`, `EnforceDurationBound`,
`RereadAfterExit`, `Select`, `DropHeldManualNext`, (`LoseDestination`, `ReportNoDestination`),
`CarryOutPendingAction`, `Prepare`, `Resolve` (`DropUnpreparedInsert`), `CrashLoopGate`
(`ResetCrashLoop`), `DecideRestart` (`ClearRestartFlag`), `ReplaceProcess`, `Spawn` or
`FailToStart`, `WriteStart` or `WriteStartFailed`, `WriteCycleEnd`. A stop is `StopThen` followed
by `StopDone` or, at the deadline, `StopDeadline`.

History variables, read by properties only: `ended` (insert requests that ended while the row
showed them on air) and `synced` (no failed cycle since the last complete one).

Abstractions, and why they are sound for the properties:

- *Time stamps* are ticks of a logical clock. A press takes its stamp with its read, and no two
  presses share a stamp. At most one press is in flight; several web requests are not modelled.
- *Write order.* The advisory lock and the retry loop serve one container's updates in the order
  they were issued: a write of the cycle waits for `exitq = <<>>`. `stopPlayoutProcess` resolves
  on the exit event, whose handler has issued its write by then.
- *The relay is on.* Direct mode's reconnect slate and the restart flags of Pin and Resume do
  not occur.
- *All items are ready.* Any item may still fail to resolve, fail to start or die at any time.
- *Crash counting* is a choice: a failed exit may or may not reach the threshold; the backoff of
  the reset may or may not be over.
- *Watchdogs* on the feed end an item exactly as the duration bound does, and are one step.
- *Two reads after one Refresh and rebuild* are one.

### `SourceBreaker` - the circuit breaker of one source

The source's row in `source_breakers`, the part of the playout cycle that feeds it, and the other
writers: Close breaker now, Delete source, whole-state writes. `planSourceBreakerUpdates` and
`planSourceBreakerIncidents` treat sources one by one, so the model has one.

| action | code |
|---|---|
| `StartCycle`, `PickInline`, `PickWithoutResolve`, `ResolveEnds` | the snapshot, the pick, its inline resolve and `recordSelectionResolveOutcome` |
| `Recover` | `planRecoveryAfterPlaybackPreparationFailure`: the global fallback first, which no breaker gates; the generic tiers with the breakers as of the failed resolve |
| `ScanProbe`, `ScanLeaves`, `ScanCountsLeft`, `ScanEnds` | `getPlayableQueuedAssets`: awaited, left and later counted probes (`takeUncountedProbeOutcome`); then `breakerOutcomeCarry.take` |
| `ReadPlain`, `PlanOne`, `NothingToWrite`, `WaitForLock`, `PlanAgain`, `WriteRow` | `recordSourceBreakerOutcomes`: the plan on a plain read, and again under the lock |
| `WriteRefused`, `AnswerLost` | a throw before the commit, or after it; `breakerOutcomeCarry.keep` |
| `ResolveIncident`, `ReportHeld`, `CloseUnneeded`, `ResolveClosed`, `IncidentRefused` | `planSourceBreakerIncidents` and the loop that carries it out |
| `WebRequest`, `WebClose`, `WebResolve`, `WebDelete`, `WebGivesUp`, `DropSource`, `CandidatesChange` | the two routes, `persistState`, and whatever changes `sourceHasPoolCandidate` |
| `CycleCutShort`, `Restart`, `Tick` | an early end of the cycle, a restart of the container, time |

`NextRecord` is `nextSourceBreakerRecord`. History: `early` and `passed` on an outcome (probed
before the cooldown now counted had run out; a clean probe has ended since) and `strikes` (items
recorded as failed since the row was last closed by hand or deleted).

Abstractions:

- *Time* is the age of the row in units no longer than the base cooldown (30 minutes), and `lag`,
  the part of it that passed since `nowIso` was noted. A cycle is far shorter: no unit passes in the cycle that opened the
  breaker, at most one between `nowIso` and the commit, and a cached result (at most 5 minutes)
  outlives none while the row is open. Outcomes are carried over a unit only when no cycle
  reaches its scan for that long, which counts as a trouble.
- *Rows of one source.* The remembered failed items are not capped (20 in the code, of which the
  threshold needs three). `lastError` is text; a row whose only content is an error does not occur.
- *Selection* is a choice among what the gate allows: any item of a closed source, one of a
  half-open one in a walk, none of an open one, and at any time an operator's own pick. The
  alternation of pools is left to fairness.
- *One snapshot* stands for the cycle's reads before its selection.
- *Quarantine* and its daily trials are left out: `candidate` may change at any time.

The row is also shown to implement `Breaker`, six actions long: closed, open, half-open once the
hold has run out; renewed for twice the time up to a cap, or closed. The mapping is the phase of
the row (`Phase`) and its cooldown.

### The programme: `Schedule`, `PoolRotation`, `Uplink`, `AsRun`

| module | state | actions and their code |
|---|---|---|
| `Schedule` | clock, table, a save under way, recorded window, fired cues, block on air | `CreateBlocks`, `CheckEdit`/`SaveEdit`, `DeleteBlock` (POST, PUT, DELETE of the schedule routes: the PUT checks outside its write); `CycleInBlock`, `CycleInGap` (`decideScheduleTakeover`, `carryCuepointFiredKeys`, `getCuepointProgress`); `ItemEnds`, `ClockTicks` |
| `PoolRotation` | the items and what holds them back, pointer and positions, the row's item, the run, the owed retry, the resume point, the writes the cycle still has to make | `StartRetry`, `ContinueItem`, `StartNext`, `StartCover`, then `EndCycle`, `StorePosition` or `PositionWriteFails`; `EndsByItself`, `Fails`, `DoesNotOpen`; what takes the air and leaves it; `ContainerDies` between any two writes; `RetryExpires`, `PointExpires` |
| `Uplink` | destination rows, processes, watchdog of each profile, what uplink and worker have read | `ReadRows`, `IdleCycle`, `Cycle` (routing, backoff, grace, outage check), `SyncReads`/`SyncWrites` (the worker's sync of the same rows), `MarkFailure`, `Save`; the encoder, the far end, the network and the feed turn bad and good |
| `AsRun` | the log's rows, the queue nobody waits for, the process and its stop reason, runs given up on | `StartRun`, `AskToStop`, `StopIsGivenUp`, `ChildExits`, `WriteIsMade`, `WriteIsRefused`, `PlayoutDies`, `PlayoutBoots` |

In `Schedule` time is counted in slots, and the wall clock goes back once (`SwitchAt`,
`SwitchBy`); a run is a block and the date it starts. In `PoolRotation` whatever keeps an item from being picked
(not ready, quarantined, excluded, held by its source) is one set; seconds are units. In
`Uplink` an output's address and key are the number of the save they come from; the encoder's
command and the incidents are left out.

### The library: `SyncTurns`, `Catalogue`, `Chapters`

| module | state | actions and their code |
|---|---|---|
| `SyncTurns` | the two walks, the budget left, what was put off, pauses | `BeginCycle`, `PassOverPaused`, `Call`, `PutOff`, `EndWalk`, `WalkBreaks` (`remote-call-budget.ts`, the walks of the YouTube and the Twitch sync), `Switch` |
| `Catalogue` | one source, one of its items and its others as one, the sync under way, its barren runs and incidents | `BeginSync`, `ListingAnswers`, `SourceIsWritten`, `ItemsAreReplaced`, `RunIsAppended`, `IncidentsAreKept`, `SyncIsCutShort`: a transaction each, from what was read before the listing; `Curate`, `CacheIsWritten`, `EditSource`, `EditReferences`, `CheckDelete`/`DeleteSource`, `Sweep` |
| `Chapters` | the chapter list of one item, what probes left, the candidate a probe was asked about | `SelectCandidate`, `ProbeAnswers`, `ProbeIsLost`, `SyncLists`, `SyncDrops`, `EditChapters` |

A listing is the set of what it names, or what came instead: nothing, a part, an invalid URL.
Parsing, titles and durations are left out.

### The viewers: `ViewerControl`, `ChatFeed`

`ViewerControl` has the socket's handler (`VoteToSkip`, `VoteNext`, `Ask`), which goes by what
the last cycle has read, the worker's chat step write by write (`StepReads`, `PromoteWinner`,
`ApplySkip`, `DecideRequest`, `RecordRequest`, `OpenPoll`, `StepFails`), the playout's cycle and
the operator. Its `PlayoutCycle` writes the queue anew from the pool and never reads it, as the
code does. `ChatFeed` has the IRC connection, its ring of messages, the moderator's deletions
(heard and unheard), the timer's and the cycle's flushes and the panel's switches.

### The records: `StateStore`, `TwitchConnection`, `SchemaBoot`

`StateStore` is `withSerializedStateWrite` step by step (connection, lock, read, change, commit,
retry), with whole-state writes, writes of single rows, secrets encrypted with `APP_SECRET`, the
two prunings of the audit trail and the relay's key; deadlocks, lost connections with and without
a commit, failed boots and restarts may come at any step. A row stands for a table and holds the
number of the call that wrote it last. `TwitchConnection` has the heal, reconcile, schedule and
live steps of the worker, each read, request and write a step of its own, against the web's
connect and disconnect. `SchemaBoot` has the bootstrap transaction, the 43 registered migrations
with the column groups each adds, the seed of an empty database, and two containers of which one
may be of another release; the database is one of any release, one from before migrations were
recorded, one whose baseline got a copied column, one that missed the late-numbered migration 21.

### The upkeep: `Monitors`, `VodCache`, `LoopPacing`

`Monitors` has the watermark ladder, the system volume, the relay and the isolated steps, with
the flags a process keeps of its open incidents. `VodCache` has the lookup of the cycle, the job
queue, the lock that outlives its process, the partial file that outlives the attempt, pruning and
release. `LoopPacing` has the wake latch and the writer that makes one write at a time.

### `MCPlayoutControl`, `MCSourceBreaker`, `MCChannel`, `MCRecords`, `MCUpkeep`

The first gives the symmetry of the items, the second only instantiates. The other three take the
parts of one area into one run. The parts share no variable; a variable `focus` chooses in the
initial state which part a behaviour runs, and the others stay as they start. So a run has the
states of each part, not their product, and a property of a part is checked as it is. They are a
way to run small components, not a claim about how they interact: where components do interact
(the admin, the exits and the votes on the row; the worker's sync and the uplink on a destination;
the editor and the cycle on the schedule; the operator, the playout and the chat step on the
queue) the interaction is inside one module.

## 3. What the runs show

All runs finish completely; nothing is sampled.

| run | distinct states | question | properties |
|---|---|---|---|
| `playout_inserts` | 3.4 million | three presses of Play now, Resume, the Live Bridge and Refresh at any point of a cycle | `TypeOK`, `NewerInsertStands`, `InsertsEndOnce`, `ReleaseSticks`, `RequestedNotLost` |
| `playout_requests` | 6.9 million | Restart, Skip, Pin, Move next, Remove next, Refresh and votes, missed stop deadlines, refused writes, a lost destination | `OneEncoder`, `RowDescribesAir`, `RestartIsHonoured` |
| `playout_served` | 0.2 million | under fairness, with one database failure and crash loops | `RequestsAreServed` |
| `breaker` | 1.2 million | three failures, one trouble, two requests, under fairness | `TypeOK`, `DeletedStaysGone`, `HoldIsServed`, `OpensAfresh`, `RecoveryAvoidsHeld`, `IncidentMatchesHold`, `ImplementsBreaker`, `TroublesEnd` |
| `channel` | 1.2 million | `Schedule`, `PoolRotation`, `Uplink`, `AsRun`, `SyncTurns`, `Chapters`, `Catalogue`, `ViewerControl` | `TypesOK`, `DatedBlocksKeepTheirTime`, `WeekIsClear`, `CuepointsFireOnce`, `TurnsAreDue`, `ContinuationsEnd`, `WatchdogKeepsMeasure`, `RunsDoNotOverlap`, `NoSourceStarves`, `EditedChaptersStand`, `SyncsTakeNothingAway`, `RequestsAreRationed`, `VotesCutTheirItem` |
| `records` | 0.3 million | `StateStore`, `TwitchConnection`, `SchemaBoot` | `TypesOK`, `WritesAreOnRecord`, `SavesStand`, `SegmentsAreKnown`, `SchemaServes` |
| `upkeep` | 0.4 million | `ChatFeed`, `Monitors`, `VodCache`, `LoopPacing`, under fairness | `TypesOK`, `ChatLeavesTheAir`, `IncidentsEndWithTheirCause`, `DownloadsFinish`, `NothingAskedIsLost` |
| `skip_during_refresh`, `settings_erased`, `unstaged_rejoin`, `refresh_undone`, `winner_plays_next` | | the code does not do what a comment or document says (section 6) | one each |

*Bounds of the playout.* Two items are enough: the selection tells apart only the item on air, the
item asked for and "another". `MaxPresses = 3` lets an insert be asked for, replaced and covered
by a bridge while one cycle runs. `MaxProcs = 2` is an abandoned process beside its successor; a
third adds nothing `OneEncoder` tells apart. `MaxOutages` counts refused writes, failed cycles and
container restarts: one is enough to lose each write of a cycle, or its exit write, once.
`playout_inserts` runs without Move next and without failures: section 6.2 says why.

*Bounds of the breaker.* Two failures open it and the third fails its trial; a trouble is a
refused write, a lost answer, a cycle cut short, a result left by the scan, a failed incident
write or a restart, and one of them meets each step once; two requests let a close and a delete, or
a delete and an operator's own pick, meet in one cycle. A base of 2 units tells a cooldown that
runs from one just over, and a cap below twice the base makes it bite on the first renewal.

*Bounds of `channel`.* A week of two days with four slots each, a clock that goes back by two slots
on its second night, grids with one-off dates, dates past midnight and without an end; the editor is
quiet after slot 4, so that runs follow that no edit excuses. A source of three items beside one of
one, two cuts and one refused write or restart: a position is lost once, an item is continued after
its continuation was cut (`MaxShortStarts = 1`). A primary and a backup of one profile, two turns of
the world in four cycles: a fault and its recovery, or two faults. Two runs, one refused write and the deaths
of the playout. Two sources of each sync and a budget of two calls, so that each can keep the other
waiting. Alerts after two barren runs, a protection of one day. Two viewers and an operator decide
a skip in four inputs. *Of `records`:* three callers, two calls and one trouble at any step; three
clock ticks, two windows and two faults of the schedule sync; two containers, one setback. *Of
`upkeep`:* two lines in a ring of two of which one is stored; three changes of the world; two
archives of two pieces, one mishap beside the unbounded cuts of downloads.
The theorems of section 5 hold for every value of these bounds.

*Fairness.* Of the playout: `runLoop` repeats for ever and every await of a cycle is bounded
(`runWithStallGuard`, the stop deadline, timeouts of resolves): WF on `CycleStep`; a request that
has read goes on to write: WF on `PressWrite`; the lock serves a queued exit write: WF on
`ExitWriteCommits`; a process that is being stopped ends (SIGTERM, then SIGKILL): WF on
`ProcessExits` while stopping. None for presses, votes, natural ends, failures or holds.
Of the breaker: WF on the loop, on time and on the routes' writes; SF on a clean `ScanProbe` is the
assumption that probes end clean once the bounded failures are spent and that the pool's rotation
gives every source its turn while the gate allows it. Of `records`: WF on every call's next step
and on a boot that succeeds (timeouts of the pool and the lock). Of `upkeep`: the worker's loop,
its timers and the database go on (`FeedCycle`, `TimerFlushes`, `FlushCommits`, `MonitorStep`), a
database that stopped returns (`DatabaseReturns`), the playout's loop looks up, jobs go on and time
passes (`LookUp`, `JobStep`, `VodTime`), a write in flight ends and the writer's timer fires
(`PaceFairness`). None for the world's faults. Symmetry is used in the three playout runs without
liveness only.

Every property has a mutant in `PROJECT.json`: the definition changed the way a plausible
regression would (several are the code before the fix its comment names), which TLC finds to
violate the property under the run's own configuration.

## 4. Properties

The playout:

- `OneEncoder`: of the ffmpeg processes that exist, at most one has not been given up on, and the
  handle names it.
- `RowDescribesAir`: between cycles and where a cycle has read the row, with every write in, the
  row names the item on air.
- `InsertsEndOnce`: the selection never names an insert that has ended on air, and the bridge on
  air leaves no active insert that would start over after the release.
- `NewerInsertStands`: a Play now pressed while a cycle runs is not dropped with the older one.
- `ReleaseSticks`: a release is not undone by the cycle that started the bridge.
- `RestartIsHonoured`: a restart flag is taken back only when nothing from before it is on air.
- `RequestedNotLost`: a Refresh or rebuild is cleared only by a cycle that has read it.
- `RequestsAreServed`: restarts, Refreshes and rebuilds are served in the end.

The breaker:

- `DeletedStaysGone`: a source deleted on its page keeps no row, whatever its probes still bring.
- `HoldIsServed`: nothing recorded while the cooldown runs ends or renews the hold.
- `OpensAfresh`: an opening is for the base cooldown and rests on enough different items recorded
  as failed since the last close by hand or deletion, wherever that fell in a recording.
- `RecoveryAvoidsHeld`: a generic fallback for a failed pick is not of the source that pick just
  held, unless a write was refused. The global fallback may be: it is the operator's own pick, taken
  before the held sources are passed over (`playout-recovery.ts:25-40`).
- `IncidentMatchesHold`: a cycle whose incident writes succeed leaves the incident open exactly
  while the source is held, whatever earlier cycles failed to write.
- `ImplementsBreaker`: row and clock together are `Breaker`.
- `TroublesEnd`: no hold and no incident stands for ever.

The channel:

- `WeekIsClear`: whatever the editor saves, one block at a time has the air, and the one announced
  as next is the next.
- `DatedBlocksKeepTheirTime`: from the first cycle at a dated block's start to the first at its
  end the item on air is its own, unless the schedule was edited or the clock went back meanwhile.
- `CuepointsFireOnce`: a cue of a run fires once, on the night the clock goes back too.
- `TurnsAreDue`: no item of a source, and no source of a pool, gets a second turn while another
  that could have been picked has waited since the first; none gets a turn while a retry is owed.
- `ContinuationsEnd`: no item is continued more than `MaxShortStarts` times without airing long enough.
- `WatchdogKeepsMeasure`: a profile that is to deliver is dark for the longest pause at most, and
  its restarts are rationed.
- `RunsDoNotOverlap`: of two rows of the log the earlier one has ended when the later one starts.
- `NoSourceStarves`: a source that is on and not paused gets its call within a bound of cycles.
- `SyncsTakeNothingAway`: curation and cache columns survive a sync; an item leaves only with
  evidence or after its protection; a source's incident closes and opens with its cause.
- `EditedChaptersStand`: a saved chapter list stands, and no late answer makes a list shorter.
- `VotesCutTheirItem`: a passed vote cuts only the item it was won against, and not under a hold.
- `RequestsAreRationed`: no queue, item or viewer goes over its limit.

The records and the upkeep:

- `WritesAreOnRecord`: a call is applied once at most, and once if it said so; the audit trail
  holds the newest entries and the newest protected ones of all that were applied.
- `SavesStand`: a whole-state write undoes nobody's save; an unreadable secret survives every write
  but one that enters a new value (`updateManagedConfigRecord` excepted, section 6.1); every call
  returns.
- `SegmentsAreKnown`: every entry on the channel's Twitch schedule that lies ahead is in the stored
  list, unless its answer never came.
- `SchemaServes`: every pending migration can be made, a ready container finds every column its
  release declares, and no boot writes the seed over what was entered.
- `ChatLeavesTheAir`: what a moderator deleted leaves the broadcast, and so does a panel switched off.
- `IncidentsEndWithTheirCause`, `DownloadsFinish`, `NothingAskedIsLost`: as named.

## 5. What is proved

The proofs hold for every value of the constants under the named assumptions of each module
(`NoneIsNoAsset`, `BoundsAreNaturals`, `ActionsAreKnown`, `SwitchesAreBoolean`, `CooldownsGrow`,
`RecordingIsShort`, `ThresholdIsPositive`, `SizesAreNaturals`, `LimitsAreNaturals`,
`ItemsAreFinite`, `ScheduleAssumption`, `PoolAssumption`, `UplinkAssumption`, `AsRunAssumption`,
`SyncTurnsAssumption`, `CatalogueAssumption`, `ChaptersAssumption`, `ViewerAssumption`,
`StoreAssumption`, `TwitchAssumption`, `SchemaAssumption`, `ChatFeedAssumption`,
`MonitorsAssumption`, `VodCacheAssumption`, `PaceAssumption`), which the code's constants satisfy
and TLC evaluates in the runs. They ask for numbers where the code has numbers, for finite sets of
items, blocks and archives, and for little else: that no pool lists an item twice, that the budget
of a sync has room for one call, that the blocks the schedule begins with are valid.

The type invariants of the runs are proved, and of their other properties all that are about safety,
`CuepointsFireOnce` for a clock that is not put back. The three compositions are shown to run their parts alone
(`PartsRunAlone`, `RecordsRunAlone`, `UpkeepRunsAlone`: every step of the composition is a step or a
stutter of each part), so that what is proved of `Schedule` or `VodCache` holds in the run, and the
type invariants of the parts make `TypesOK`.

### The playout (`PlayoutControl_proofs`)

It begins with the lemmas on the row: each updater keeps its type, and its *frame*: what it may do
to the restart flag, the insert, the bridge, the current item and the pending action.

| theorem | property | argument |
|---|---|---|
| `TypeCorrect` | `TypeOK` | inductive; one step per action |
| `OneEncoderAlways` | `OneEncoder` | `ProcInv`: the handle's process exists, abandoned processes exist and are not the handle's, and the handle is free where the loop spawns. `OneEncoder` alone is not inductive: the late exit of an abandoned process that were also the handle's, or a spawn over a live handle, would break it |
| `ReleaseAlwaysSticks` | `ReleaseSticks` | `EveryRowStep`, the classification of all writes |
| `NoRequestIsLost` | `RequestedNotLost` | the same |
| `RestartsAreHonoured` | `RestartIsHonoured` | `Stamps` (no stamp is in the future) and `DecidedInv` (from the decision to the last write, `used`, `restarting` and `sel` agree, and a carried-out restart has left no older process) |
| `NewerInsertsStand` | `NewerInsertStands` | `DecidedInv`: the insert the cycle may drop is the one it has read |
| `RowAlwaysDescribesAir` | `RowDescribesAir` | `AirInv` says for every place of the loop what the row will name once the writes under way are in: the exit write queued or kept belongs to the process that is gone, a start is recorded before the cycle can end, a failed cycle makes the row unsettled until the next complete one |
| `BridgesEndInserts` | half of `InsertsEndOnce` | `BridgeInv`: until a cycle selects, an active insert is the one it has read; from the selection of the bridge on none is active. Assumes that Move next is not pressed |
| `InsertsAlwaysEndOnce` | `InsertsEndOnce` | with `EndedInv` (an insert of the row that has ended waits only for its own exit write, which is the next in the queue, and no cycle selects before it is in) and `FreshInv` (a press under way is younger than every request on the row and every ended one). Assumes that Move next is not pressed and no write is refused: section 6.2 gives the behaviours that break it otherwise |

### The breaker (`SourceBreaker_proofs`)

`BreakerTypeCorrect` (`TypeOK`), and from one inductive invariant `IInv`:

| part of `IInv` | what it says | needed for |
|---|---|---|
| `RowInv` | a deleted source has no row; a row's failures are strikes | `DeletedSourcesStayGone` |
| `LockedPlan` | between the second read and the commit nobody else writes: without an update the draft is the row, with one the row was not held at `nowIso`, and what it counts was heard or is on the row | `HoldsAreServed`, `EveryOpeningIsFresh`, and `RowInv` at a commit |
| `SeenInv` | until the fallback is chosen, a held row is the one the cycle has seen, so the generic tiers pass it over | `FallbacksAvoidHeld` |
| `SnapInv` | only the cycle opens an incident, so its snapshot knows every open one | `IncidentsMatchHolds` |

`RowIsABreaker` proves the refinement (`ImplementsBreaker`): the initial row maps to the initial
breaker, and every step maps to one of its six actions or to a stutter. It needs `ShapeInv`: a
recording either leaves the row, or goes from closed or half-open to a fresh hold, from half-open
to a doubled one, or to closed; and `RecordingIsShort` (a recording takes less than a cooldown:
30 minutes in the code), without which the hold a recording makes could have run out at its commit.

### The programme and the library (`Programme_proofs`, `Channel_proofs`)

`Programme_proofs` is about what plays and has played: schedule, pool, as-run log and viewers. `Channel_proofs`
has the library (sync turns, catalogue, chapters) and the composition of all of these.

| theorem | property | argument |
|---|---|---|
| `WeekIsAlwaysClear` | `WeekIsClear` | see below |
| `DatedBlocksAlwaysKeepTheirTime` | `DatedBlocksKeepTheirTime` | `SchedShape` (every block saved, and every block a save under way will write, is valid) and `RunStands` (the run recorded is one of the table, on a date the clock has shown). It assumes `[]RecordKeepsUp`, see below |
| `CuesComeBackInOneNight`, `CuepointsFireOnceForwards` | `CuepointsFireOnce` | see below |
| `EveryTurnIsDue` | `TurnsAreDue` | `DueInv`: counted in steps round the list from the stored pointer, every item that waits comes before the one whose turn was, and so for the sources; `OwedInv`: while a retry is owed the row or the end still to be written says that its item failed |
| `ContinuationsAlwaysEnd` | `ContinuationsEnd` | `CountInv`: a point stored for the item that is watched counts all its short continuations in a row, and until a continued run has aired the floor its point stays stored, wherever the container dies between the writes |
| `LogNeverOverlaps` | `RunsDoNotOverlap` | `AsRunInv`: runs start in the order of their numbers (`InTurn`); the queued writes are ordered in time and their starts in number (`ChainInv`); what a row says lies before every write still queued, and every start in the queue is of a later run (`RowBehind`). So a start that is written closes only rows that began before it, and a late end finds its row closed |
| `EverySourceHasItsTurn` | `NoSourceStarves` | `TurnsInv`: a source put off has the seat in the next walk where it was put off, any other the last one; what a source has waited is two cycles at most for each seat it has moved up (`SeatsMoveUp`), because in one of two cycles its sync has room for a call (`RoomForOne`) and who is called or put off stood before who is still to come (`Overtaken`). A walk that broke off costs two cycles more |
| `NothingIsEverTakenAway` | `SyncsTakeNothingAway` | `CatalogueInv`: an item without its source was written after the deletion; a sync that goes on knows of the row what matters, whether there is an item and how many barren runs stand |
| `EditedChaptersAlwaysStand` | `EditedChaptersStand` | `EditInv`: the row has the list the operator saved, with the probe's status cleared, so that an answer to an earlier question finds another row than the one it was asked about |
| `ChannelTypesCorrect` | `TypesOK` | the types of the eight parts, by `PartsRunAlone` |

*The week.* The lemmas say what the model's calendar is: a date is its slots (`DateIs`), runs that
share a slot start a day apart at most (`MeetingRuns`), a block that begins on a date lies on the
circular weekday line where `MeetInTheWeek` looks for it (`DateOnLine`), and what meets on that line
meets in every week, each time as many dates apart (`LineMeetsEveryWeek`). From these:
`MeetingIsReported` (two runs of a layer that share a slot are blocks `scheduleBlocksOverlap`
reports), `ReportedDoMeet` (of two blocks with first and last dates only such pairs are reported:
either the dates decide, or they are so many that every weekday is among them), `OneOnAir` (hence two
blocks on air in a minute have been reported, and the lists of an evening and of the next morning
agree), `TheNextIsNext`. What a save brings in is the invariant `EditIsClear`: a save that passed its
check brings in no overlap until another one is committed, which makes its check stale.

*Cues.* `CueInv`: a cue that has fired was due when its run had the air, and either it is in the
list and its run is still the one recorded, or its run has lost the air since. In the second case
the list may have dropped it (`carryCuepointFiredKeys` keeps two runs), and the windows decide:
`WindowCovers` (a window that is open now, told from today's list, holds every slot since the cue
was due) and `KeepsTheAir` (so the run has had the air throughout, although the list of the day
before may have known of dated blocks that today's does not) contradict the loss. Both need a clock
that goes on between the cue's instant and now (`Onward`): all years round but for the hour that is
passed twice, where `CuesComeBackInOneNight` leaves room for the behaviour of 6.3. TLC checked
`CueInv` and the theorem on fifteen small instances with the clock put back, forward or left alone,
and found a state against either of the two bounds drawn closer, at the switch itself. The
hypothesis that no two blocks overlap is what `WeekIsAlwaysClear` gives while no save with a stale
check is written: of two overlapping blocks the later takes the air without a window of the other
ending.

*A dated block's time.* `findScheduleRun` looks for the run recorded on today's list and
yesterday's. If nothing could be put on air for longer than that, the end of a dated block is not
seen as a boundary. In the code a cycle comes every 15 seconds and records what it sees unless its
pick cannot be prepared; in the model the clock may also tick with no cycle between, for as long as
`LastSlot` allows. So the theorem has the hypothesis `RecordKeepsUp`: while an unexcused item is on
air and the run recorded is a dated block's, the clock is at most a day past the last date of that
run. TLC found it to hold in every state of `Schedule` on the instance of `channel` (45,499 states),
where the unconditional property is checked. With `LastSlot` raised to 16 both fail in the model:
its clock passes more than a day without a cycle, which the code's 15-second cycle does not.

### The uplink (`Uplink_proofs`)

`DarkTimeIsMeasured` (`WatchdogKeepsMeasure`) from `UpInv`, which says of each profile: it is on air,
or was found dark in the cycle before, or is held for no longer than a pause (`Lit`); a counted
restart without a pause is in the streak that is being counted, which only a change of the output or
the end of an outage ends (`InStreak`); the grace in force is one an earlier restart had, or a quiet
time has passed since (`InGrace`). That a pause of `FirstPause * 2^(n - 1)` is a positive number is
shown by counting the subsets of a finite set, since the solver has no powers.

### The records (`StateStore_proofs`, `Records_proofs`)

Every step of a call is one of six shapes (it quits, moves, starts, ends, writes, writes the
as-run log). The lock invariant (who is past it holds it; who has computed has read what is
committed) gives `WholeWritesKeep`, the first conjunct of `SavesStand`. `EveryWriteIsOnRecord`
needs that a call in flight has not been applied and that numbers are not used twice; the audit trail is the
newest of what both prunings leave, because dropping what is not among the newest `n` changes
nobody's rank among them (`StateStore_proofs` counts by injections of finite sets).
`SecretsAlwaysSurvive` is the second conjunct: what a whole-state write read as unreadable it puts
back, and a cached relay key is the stored one until somebody replaces an unreadable one. The
third conjunct, `WritesReturn`, is liveness.

`SegmentsStayKnown` from `KnownInv`: while a sync writes, the list is what it read with what it has
made on top; after the deletes what is left of it was planned or kept; and whatever Twitch has
beyond that is a segment whose answer never came, or whose window is over.

`SchemaAlwaysServes` from `BootInv`: what is recorded as applied is there (`Complete`), and one
container at a time boots (`InTurn`). That every pending migration can be made rests on two facts
about the table of the 43, proved by going through it: the last migration to bring a column adds it
(`LastMakesIt`: one that creates a table with a column leaves the column out where the table is there),
and what a later migration alters was created by one before it whose number came in its turn
(`MadeBefore`; the late-numbered migration 21 makes nothing that others alter).
`RecordsTypesCorrect` has the types of the store, the Twitch rows and the boot.

### The viewers (`Programme_proofs`)

`VotesCutOnlyTheirItem` from `CutInv`: a restart flag set by a vote names the item that is on air;
nothing takes that item off before the cycle that carries the vote out. `RequestsStayRationed` from `RequestInv`: a pass
counts what it has queued against the limit and the rows that wait; rows only thin out while it
runs, by an injection into those it has read.

### The upkeep (`Upkeep_proofs`)

`WakesAreAnswered` and `QuietWriterHasTried` from `PaceInv` (a wake nobody has answered is latched;
the last line given is being written, waits, or has been tried): the second is the safety half of
`NothingAskedIsLost`. `ChatIsBounded`: the ring and the stored row never outgrow their limits.
`VodTypeCorrect` needs what the queue and the records have to do with each other: an archive is in the
queue once, exactly while its record says that it waits, and the record of the job's archive says
that it runs. `UpkeepTypesCorrect` puts the four parts together.

### What stays with TLC, and why

- *Liveness and fairness*: `RequestsAreServed`, `TroublesEnd`, `WritesReturn` (in `SavesStand`),
  `ChatLeavesTheAir`, `IncidentsEndWithTheirCause`, `DownloadsFinish`, the writer's half of `NothingAskedIsLost`.
- `CuepointsFireOnce` on the night the clock goes back: it is not so for every instance. The list keeps
  the cues of two runs, the one recorded and the one that follows; a run that two other runs in a row
  have interrupted, about the hour that is passed twice, has lost its own (6.3). The instance of
  `channel` has no room for that.
- That the model is the code: the definitions are translations, and `PROJECT.json` names the lines.

## 6. Where the code and its documents disagree

### 6.1 Runs that violate what is said

1. `skip_during_refresh`: a Skip that lands while a cycle carries out a Refresh is consumed by
   that cycle, which restarts the skipped item: the state is read again, the selection is not
   (`apps/worker/src/index.ts:8491`; `docs/operations.md:136`).
2. `settings_erased`: after `APP_SECRET` was changed, one save of a settings page encrypts the
   defaults over every stored credential (`packages/db/src/index.ts:7680`; the comment at 4903).
3. `unstaged_rejoin`: a recovered destination is never staged; the rule asks for a playout process
   of the worker container, which has none (`apps/worker/src/index.ts:6787`; `README.md:81`).
4. `refresh_undone`: the last write of a metadata sync puts the token that its own refresh has just
   replaced back into the row (`apps/worker/src/index.ts:10967`; the comment at 10697).
5. `winner_plays_next`: a poll's winner and a granted request go into a queue that nothing plays
   from (`apps/worker/src/index.ts:9577`; `packages/core/src/chat-interaction.ts:3`).

### 6.2 Found while proving

`InsertsEndOnce` does not hold when Move next is among the presses. Skip X; Play now Y, which is
on air; Move next X, which the skip still holds out. The next cycle selects Y, drops the held next
item, reads the state again (`apps/worker/src/index.ts:8388-8405`) and selects anew: a Live Bridge
pressed meanwhile takes the air. `decideInsertAfterSelection` (8347-8386) judged the first selection
only, so Y stays active under the bridge for a cycle; if the bridge is released before the next
cycle reads, Y starts again from 0, which the comment at 8351 (M78) excludes. With refused exit
writes the other half fails too: the second read does not re-apply the kept exit write, so an
insert that has ended can be selected once more.

### 6.3 Observations without a run

TLC showed these on the models, or they were met while reading; each is the code's behaviour.

*Playout.* An insert that ends while its cycle still resolves is started again from 0 (8263 says
such an exit is caught; `FinishedInsertStaysFinished`). The fallback for an item that cannot be
prepared ignores the Skip hold (`playout-recovery.ts:28`; `SkippedStaysOut`). "A continued item that
failed to open is started once more at the same position (M124)" (`apps/worker/src/index.ts:6271`) is
not so: the look-up of its resume point reads `currentScheduleItem` (6276), whose `const` comes later
(6323), so every cycle throws and nothing but an operator's item or a Live Bridge takes the air until
the ten minutes of `INPUT_OPEN_RETRY_WINDOW_MS` are over; then the item is continued as if new
(`PoolRotation`'s `SelectionThrows`). An insert that ends
between its spawn and the cycle's last write is marked active by it and plays twice; a bridge
that fails there is shown active until the next cycle. If the write of a position is refused, the
started item is not stored and its turn comes again (`playout-boundary.ts:363`).

*Breaker.* Outcomes carried over a long outage renew a hold without a trial (`TrialDecides`). A
Close now between the recording and the incident write opens the incident of a closed breaker
until the next cycle (`ClosedStaysQuiet`). Failures on both sides of a clean probe can be counted
together (`NoCleanProbeBetween`).

*Schedule.* The PUT's conflict check runs outside its write, so two saves at a time can overlap
(the POST's comment at 386-388 says inside). On the night the clock goes back, a weekly
block that two dated blocks in a row interrupt about the hour that is passed twice fires a cue again
when it comes back: `carryCuepointFiredKeys` keeps the keys of two runs since "a run comes back only right
after the one that interrupted it" (`packages/core/src/index.ts:3042`), and here it does not
(`CuepointsFireOnce`, on an instance with room for three blocks).

*Uplink.* A stall timer survives a change of the destination; a held profile whose primary is
"ready" keeps a ready backup off air; a storm that has settled is still answered by a restart;
whole-row saves of destinations undo the operator's; a failover between outputs of one profile
restarts its encoder; a pause within a restart streak can be shorter than the one before.

*Ingest.* The library sync writes category and an emptied chapter list from its snapshot (the page
says edits of chapters are never overwritten). The other syncs write title and category from their
listing over what the page has stored (`packages/db/src/index.ts:6784`, 6798). A source deleted in the middle of its sync leaves orphans, or is made
anew. The incident of a deleted source is never resolved. A YouTube source with an invalid URL opens no
incident before the third barren run.

*Chat.* A deletion can wait for the next cycle rather than the timer
(`DeletedLeaveWithTheTimer`); the incident of a refused login can outlive chat
(`RefusalEndsWithChat`); a poll that is open stays open in memory when viewer control is switched
off.

*Incidents.* `observeSystemVolume` sets its flag before the write: a refused upsert is not tried
again by that process (`LowVolumeIsReported`), and a refused close leaves the incident open until
a restart; `IncidentsEndWithTheirCause` excludes just that (`unclosed`). A failed Docker call still
counts as the relay's restart, so a hung relay is not tried again.

*VOD cache.* Under pressure the pruning removes other archives' partial files first, so two that
are cut in turn need not finish; it also removes `.lock` files of live jobs. A complete but
corrupt part is verified again until its age removes it.

*Twitch.* A disconnect of the broadcaster, or a reconnect of the bot, is undone by a whole-row
write of a refresh in flight (4091, 10599, 11142). A POST whose answer is lost makes a second entry.

*Persistence.* An unreadable legacy file reads as none and the seed is written
(`readLegacyState`). Stale-read saves of one row (settings, a user, a destination) can lose each
other. A refused start of a run with a late exit can give its successor a wrong reason in the
as-run log.

## 7. Not modelled, and why

- *Playout*: direct mode, scheduled inserts, Force reconnect, Recover outputs, Fallback (a Pin of
  another item) and Replay previous; schedule takeover, retry and resume points are in `Schedule`
  and `PoolRotation`, not composed with the row of `PlayoutControl`.
- *Breaker*: item quarantine and its daily trials decide which items are candidates, which the
  model lets change at any time.
- *Uplink*: the relay's own restart ladder and its presence; `Monitors` has the incident of a relay
  that does not answer.
- *Incidents*: alerts and their suppression, the health self restart, the frozen marker.
- *Persistence*: the drift report, backfills of data, redactions.
- *Twitch*: EventSub. *Chat*: games and answers to commands.
- *Ingest*: parsing of yt-dlp's output and probing of media files.
- *Overlay and rendering*: layout and drawing.
- *Web*: pages and CRUD routes that are one write of one row.

## 8. Plan

1. Done: the playout, the breaker with its refinement, the parts of the channel, the records and
   the upkeep; 51 theorems in eight modules, 48 of them listed in PROJECT.json. The other three
   (`StoreIsSound`, `StoreKeepsTypes`, `AsRunTypeCorrect`) serve their proofs.
2. Next, proofs: `DatedBlocksKeepTheirTime` from a bound on how long a pick stays unprepared
   instead of `RecordKeepsUp`.
3. Next, models: composing `PoolRotation`'s retry and resume point with `PlayoutControl`; alerts.
