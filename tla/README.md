# GengoWatcher: models and proofs

TLA+ modules for the concurrent core of `gengowatcher-go`, TLC configurations that check
them on small instances, and TLAPS proofs of the properties that matter most.
`PROJECT.json` lists the components, the runs, the source lines behind every definition,
the hazards in the code and the theorems.

```
tlc -workers 2 -config MCDedupeGate.cfg MCDedupeGate     # one run
tlapm DedupeGateProofs.tla                               # one proof
```

## 1. The system

The program watches a translation marketplace through an RSS feed and a websocket. A job
that either of them reports for the first time is opened in a browser, announced by a
notification, recorded in a state file and shown in a terminal.

```
 rss monitor ──┐ events chan (buffered)            ┌─► reaction executor ─► browser, notifier
               ├──────────────► watcher ─► router ─┼─► telemetry sink (goroutines)
 ws  monitor ──┘   errCh ─────►  loop   (gate) ────┴─► OnJobFound ─┬─► state recorder ─► state file
                                                                   └─► terminal ui
```

| component | source | state | operations |
|---|---|---|---|
| dedupe gate | `internal/dedupe/gate.go` | map key → expiry, slice with the order of acceptance, a mutex | `FirstSeen` |
| reaction executor | `internal/reaction/executor.go` | one buffered channel of slots | `Dispatch`, `dispatchAsync` |
| event router | `internal/pipeline/router.go` | its gate, the slots of telemetry writes | `Handle`, `writeTelemetryAsync`, `canonicalJobKey` |
| watcher | `internal/app/watcher.go` | events channel, `errCh`, `runCtx`, a wait group | `Start`, `finishShutdown` |
| rss monitor | `internal/monitor/rss/monitor.go` | `primed`, validators, `failureCount`, its gate | `Start`, `primeOnce`, `pollOnce`, `fetchItems`, `emitItems`, `nextWait` |
| websocket monitor | `internal/monitor/websocket/monitor.go` | connection, backoff, read deadline | `Start`, `runConnection`, `runHeartbeat`, `dialWithFallback` |
| state store | `internal/state/store.go` | the state file, its temporary file, the flock | `Save`, `Load` |
| state recorder | `internal/state/recorder.go` | snapshot, channel of events, `closed`, `closeOnce` | `NewRecorder`, `Record`, `Close`, `Snapshot`, `run`, `applyBatch` |
| terminal ui | `internal/ui/*.go` | job list, channel of events, count of dropped events, the goroutines of `Run` | `Run`, `OnJobFound`, `waitForJobEventWithDone`, `Update`, `View` |
| telemetry sink | `internal/telemetry/sqlite/sink.go` | a database | `RecordEvent`, `Close` |
| notifier | `internal/notify/notify.go` | none, but the commands it runs take time | `Open`, `Notify` |
| configuration | `internal/config/*.go` | none | `Load`, `Validate`, `HasEnabledMonitors` |
| shared types | `pkg/gengo/*.go` | none of their own | `Stats.Increment` |
| entry point | `cmd/gengowatcher/main.go` | none | `main` |

Interactions. Each monitor is a goroutine that *sends* on the watcher's events channel
and *returns* an error, which the watcher's goroutine for it forwards to `errCh`. The
watcher's loop is the only caller of `Router.Handle`, which calls the gate and
`OnJobFound` synchronously and starts goroutines for the reactions and telemetry; nobody
waits for those. `OnJobFound` calls `Recorder.Record` and feeds the screen, both without
blocking. The recorder's goroutine is the only caller of `Store.Save` in a process;
other processes may share the file.

What makes it hard, and what being correct means:

* **gate** – callers read the clock before they take the mutex, so time runs backwards
  from the point of view of the map. The map and the slice must agree, the capacity must
  hold, a live key may be forgotten only when it is the oldest, and each answer must be
  right for some moment of its call.
* **executor, router** – actions fail, panic or never return; a full pool sheds. No slot
  may leak or be returned twice, nothing may vanish unreported, and a shed reaction must
  not cost the job its others.
* **watcher** – monitors fail, close the channel, ignore their context or block on a
  full channel while the loop is elsewhere and the caller cancels. A failure must end
  `Start` with that error, a shutdown must end, and a job must not be lost while the
  watcher runs.
* **rss monitor** – the feed changes between any two requests, requests fail at every
  step, answers are conditional, keys expire, and the wait doubles in fixed-width
  arithmetic. Nothing may be reported twice or at startup, nothing may be hidden for
  good, and requests must keep their distance.
* **store** – steps of `Save` fail, processes are killed, the power goes. The file must
  stay whole and acknowledged saves must stay.
* **recorder** – `Record` races with `Close`, batches take what arrives while they last,
  saves fail. No send on a closed channel, no event lost, doubled or out of order,
  `Close` drains.
* **websocket monitor** – two helper goroutines act on the connection that the reader
  uses, the deadline runs while the consumer holds the reader up, the server may fall
  silent without hanging up. A live server must be kept, a silent one given up in time,
  reconnections paced, and helpers must end.
* **ui** – the watcher, the terminal, the goroutine that waits for the end of the context
  and two timers end in any order. `Run` must return, with the error of whoever failed,
  must account for every job it did not show, and must keep the newest jobs on the
  screen in their order.
* **notifier** – commands are missing, fail, or hang. One that fails must not cost the
  job the next one, and the end of the context must end them all.
* **configuration** – three layers, of which some settings have only one, and values that
  stand for "not given". What `main` accepts must keep the legal minimum between polls.
* **job keys** – the two sources describe one posting in different words. It must be one
  job to the router.

## 2. Modules

| module | models | built on |
|---|---|---|
| `FirstSeenMemory` | what a caller may rely on from a gate: abstract specification | |
| `DedupeGate` | `FirstSeen` in two steps (clock, critical section) | refines `FirstSeenMemory` |
| `AsyncPool` | `dispatchAsync`: slots, goroutines, failures and panics | |
| `Reactions` | what `Open` and `Notify` do in a pool, with the commands they run | extends `AsyncPool` and implements it |
| `JobReports` | the jobs that the two sources make of a posting | |
| `JobKey` | `canonicalJobKey` | |
| `WatcherService` | what the caller of `Watcher.Start` may rely on: abstract specification | |
| `WatcherPipeline` | watcher, router and the goroutines of the monitors | two instances of `AsyncPool`, `JobKey`; refines `WatcherService` |
| `TuiBridge` | `ui.Run`, the way of a job to the screen, the shutdown | uses the steps of `WatcherService` |
| `Config` | the layers of the configuration, defaults, validation | |
| `RssSchedule` | when the feed is fetched: interval, backoff, pause file | takes its durations from `Config` |
| `RssMonitor` | what is fetched and reported | extends `RssSchedule` and implements it |
| `WebSocketMonitor` | connection, deadline, helpers, reconnection, in discrete time | |
| `StateStore` | `Save` and `Load` step by step, with the flock, failures, kills, power loss | |
| `Recorder` | `Record`, `Close`, `run`, `applyBatch` | |
| `*Proofs` | theorems about the module they extend | |
| `MC*` | symmetry and sets of values for TLC | |

The composition follows the calls: `RssMonitor` and `WebSocketMonitor` say what a monitor
may do; `WatcherPipeline` takes monitors with any of these behaviours and shows that the
watcher keeps the promise of `WatcherService`; `TuiBridge` relies on that promise and on
nothing else. In the same way `WatcherPipeline` relies on `AsyncPool`, and `Reactions`
shows that the program's own actions keep to it.

Definitions called *Fault in X* stand next to the action or operator `X`. No
specification uses them: each is `X` with one plausible mistake, and is there to show,
by putting it in X's place, that a property notices that mistake.

### How state and actions correspond to the code

**DedupeGate.** `entries` and `order` are the fields of `Gate`; `asked` is a call
between `time.Now()` and `mu.Lock()`. `ReadClock` is the first half of `FirstSeen`;
`Reject` and `Accept` are the critical section, with pruning, compaction, insertion and
eviction in the order of the code. `compactOrder` and the eviction loop are described by
what they compute (`Compactions`, `Evicts`). `Bypass` is the early return.

**AsyncPool, Reactions.** `slots` is the number of tokens in the channel, `task[t]` the
stage of a goroutine, `reports[t]` what the error hook was told. `Dispatch` is the
`select` (start or shed); `Run`, `Report`, `Release` are the goroutine and its deferred
calls in their order. The telemetry writes of the router have the same form with their
own hook and without recovery from panics, so their instance has no outcome
`"panicked"`; a panic of the sink would end the process. `Reactions` replaces `Run` by
the body of the action: `todo[t]` are the commands it has not come to, `command[t]` the
one that runs, `errs[t]` those that failed. A missing program is one that fails at once;
`KillCommand` is what `exec.CommandContext` does when the context ends.

**JobKey, JobReports.** A job is a record of its id, its URL and its facets, as far as
the key depends on them. A path is the sequence of its segments, cleaned as `path.Clean`
does; a query is the set of its parameters, as `Encode` sorts them. A key is a tuple
whose first element says which of the three kinds it is. `JobReports` has the fields
that each source fills, with the alternative names of the websocket's messages.

**WatcherPipeline.** `loop` is the position of `Watcher.Start`; each case of its
`select` is an action and any ready one may be taken. `mon[m]` is the position of a
monitor's goroutine in lines 152–164: the monitor runs or sends, has returned an error,
has found `runCtx` alive and is about to send its error. Reading `runCtx.Err()` and
sending to `errCh` are two actions because the shutdown may come between them.
`Shutdown` is `finishShutdown` up to its wait, `Join` its two outcomes: a timeout is
possible at any time. The three dispatches of a job are three actions since goroutines
end between them. Monitors are external: one may stay silent, fail, return nil or, if it
is in `Closers`, close the channel; one in `Cooperative` honours its context. A monitor
that closes the channel is assumed to know that no other one is sending, and none sends
afterwards: Go's panic of a send on a closed channel is outside the model. Neither
monitor of the program closes it, so this is an assumption about others. Monitors
send *reports*; `PostingOf` says which posting each is about, and the router sees only
the key of its job, so that two reports of a posting may have two keys and two reports
without any signal have none. Keys do not expire in this module: `DedupeGate` covers
that.

**TuiBridge.** `run` is the position of `ui.Run`, `watcher` and `quitter` those of its
two goroutines, `reporter` that of the drop reporter. A *pump* is a command of
`waitForJobEventWithDone` that waits on the channel; what it received is in `messages`
until `Update` takes it, which starts the next pump. `program` is the message loop of
Bubble Tea, of which the code uses `Run`, `Quit` and the order of messages. `Launch`
starts the goroutines and `StartProgram` is the call of `program.Run`: the watcher may
fail, and both goroutines may call `Quit`, before the program runs. `timedOut` says
which timers of the shutdown have fired: none, the join timer, or the drain window's
too. The recorder is open or closed here: its queue is in `Recorder`. Timers are
choices: each may fire before or after anything else.

**Config.** A file and an environment are functions from the settings they name to
values. `Layered` is viper's order. A variable of the environment counts for the settings
that viper knows: by a default, by `BindEnv`, or, as `AutomaticEnv` is on, because the
file names them (`Overridable`). `Secrets` come from the environment alone.
`ApplyDefaults` has the values that stand for "not given", `Accepted` what `main` starts
the ui with.

**RssSchedule, RssMonitor.** `at` is the position of `Start`. One action is one fetch up
to the result, with the header update of `updateConditionalRequestHeaders` before parsing
as in the code. For the schedule a fetch lasts until its items are sent, and who reports
an error or has returned waits: `ScheduleAt` is that mapping. `emitItems` looks at and
sends items one by one (`Look`, `Send`), since the context, the feed and the gate may
change between. ETag and Last-Modified are one version number; an answer may come without
them, and a body that does not parse leaves those it came with (`FetchBroken`). Two
history variables say what that does: `unread`, the stored validator is that of a body
nobody could read, and `blind`, the monitor primed itself on a 304. Sending a job and
sending an error are each two actions, received or abandoned at the end of the context.
`RssSchedule` has the arithmetic: `Doubled` wraps as `time.Duration` does. Powers of two
are a function, `Pow2`. `MaxFailures` bounds the count of failures, which stays there. It
starts with the durations of any configuration that `Config` loads and accepts, after the
corrections of `sanitizeRSSDurations`.

**WebSocketMonitor.** `at` is the position of `Start` and of the reader in
`runConnection`. `quiet` is the age of the read deadline, `beat` that of the heartbeat's
ticker, `pause` what is left of the sleep between two dials; `Tick` moves them when
nothing else is due (`Idle`), so code takes no time and waiting does. `beating` and
`watching` are the connections whose helper goroutines live; there are two numbers for
connections, on the assumption that the helpers of one have ended before the second one
after it is made. `answer` is the time until the pong for the last ping arrives: a
server that is up needs at most `Latency`. Frames that were read from the socket's
buffer are still processed after the deadline; after a close on this side they are not,
because the deadline cannot be moved any more.

**StateStore.** `pc` walks through the calls of `Save` and `Load`; every step may fail
(`FailStep`, `FailLock`, `FailLoad`), with cleanup and deferred unlock as in the code.
`onDisk` is the set of files that the path may name after a power loss: the old and the
new one between `Rename` and `SyncDir`. `fresh` says that the directory itself was made
by this program and may go with all that is in it, since `Save` fsyncs the directory and
not its parent. A process that is killed leaves its temporary file (`orphans`). `acked`
is a history variable.

**Recorder.** `producer` and `closer` are the positions of callers of `Record` and
`Close`. `sendMu` is held for reading by every producer that is not idle; a closer at
`"lock"` waits for it or has it. `runner` is the position of `run`: `"drain"` is inside
`applyBatch`, whose receives interleave with `Record`. `newest` and `total` are history:
what the snapshot would be if every accepted event had been applied. `JobsOf` is the
filter of `applyEventLocked` on a list of events.

## 3. Runs

| run | properties | instance |
|---|---|---|
| `gate` | `OrderMatchesEntries`, `EvictsOldest`, `ImplementsMemory` | 3 keys, 2 callers, capacity 2, lifetime 2, clock to 4 |
| `reactions` | `SlotAccounting`, `SlotReturned`, `AllTried`, `CancelEndsAll` | an `Open` and two `Notify`, one without a title, on 2 slots, all outcomes |
| `watcher` | `OncePerPosting`, `OnceAndCompletely`, `ImplementsService`, `QuietAfterReturn` | 2 monitors, 3 reports of 2 postings, all buffers and pools of size 1 |
| `watcher_liveness` | `FailureEndsWatcher`, `CancelReturns`, `JobNotDropped` | 3 reports without an id, one of them without any signal, no telemetry, reactions that never return |
| `rss_schedule` | `SpacingKept`, `MinimumKept`, `BackoffExact` | 6-bit durations, every interval and cap, 6 environments, 6 failures in a row |
| `rss_monitor` | `ReportedOnce`, `NoBurstIfRead`, `ImplementsSchedule`, `NoticedUnlessHidden`, `StopReturns` | a keyed and a keyless item, 2 versions of the feed, 2 failures in a row |
| `websocket` | `SilenceEnds`, `DialsPaced`, `LiveServerKept`, `StopReturns`, `HelpersEnd` | heartbeat 2, pong wait 4, latency 1, waits from 2 to 5 with half of it as jitter, one message waiting |
| `store` | `NeverTorn`, `AckedIsDurable`, `NothingLeftBehind` | 3 processes, 3 saves, 1 power loss |
| `recorder` | `NoSendOnClosed`, `NothingLostOrReordered`, `SavedUnlessFailed`, `CloseDrains`, `CloseReturns` | 2 producers, 2 closers, 2 jobs and another event, buffer 1, list of 2, counters modulo 2 |
| `ui` | `DropsReported`, `ScreenNewest`, `ErrorNotSwallowed`, `RunReturns`, `EventShown` | up to 4 jobs, a channel of 1, a screen of 2 |
| `rss_priming` | `NoStartupBurst`, violated | a first body that does not parse and carries a validator |
| `cross_source` | `OncePerPosting`, violated | a websocket report and a feed item without a guid |

Two more configurations are for the reader of section 5 and no entry of `PROJECT.json`:
TLC refutes `ItemNoticed` under `MCRssHidden.cfg` (module `MCRssMonitor`) and
`AliveUnlessCancelled` under `MCWatcherAlive.cfg` (module `MCWatcherPipeline`).

`TypeOK` documents the types of a module's variables; the parts that a proof needs are
conjuncts of its invariant and hold by it for all constants.

Why these bounds are enough for what the runs ask:

* `gate`: with room for two of three keys a third acceptance evicts; with a lifetime of
  2 on a clock to 4 a key expires, is accepted again and may be asked for with a clock
  value from before its expiry. Two callers are enough for a stale clock: the critical
  section excludes others.
* `reactions`: two calls fill the pool and the third is shed or takes a slot that came
  back. `Open` has one command, a notification two, and one without a title only the
  second: with the missing, failing, hanging and panicking ways of each that is every
  sequence the code can run. The switches of the configuration only shorten the list.
* `watcher`: two actions on one slot shed already for one job; the second job makes
  telemetry shed and lets a job wait behind another. One monitor cooperates, the other
  may ignore its context and close the channel. A buffer of 1 is full after one event.
  Two reports of one posting are a message without title and URL and a feed item with a
  guid, which differ in everything but the id; the third goes by its URL, whose path must
  be cleaned to find the number.
* `watcher_liveness`: reactions that never return are the worst case for the loop, so
  their outcomes are left out; its progress does not depend on them. The reports are
  those that have no id: a page with a query, a title alone, and nothing at all, which
  makes no key and is rightly dropped.
* `rss_schedule`: in six bits a wait of 2 doubles past the largest value within the six
  failures, and caps above, at and below every power of two times the interval occur, as
  do negative and zero ones. An environment may lower an interval of the file below the
  minimum, which `Validate` refuses, or set a value to zero, which means the default.
* `rss_monitor`: items do not influence each other except through the poll they are in,
  which the item without a key shares with the one that has one. Any body may fail to
  parse and leave its validator behind, so the two properties that this breaks are
  checked with the one exception they need, and without it in `rss_priming` and
  `MCRssHidden.cfg`. Two failures in a row and 6-bit durations let the wait grow to its cap
  once, which is all that a monitor that keeps to the schedule has to show; further
  failures leave the count where it is and the wait at its cap.
* `websocket`: a heartbeat, and the answer to it, fit into the pong wait with a tick to
  spare, as 10 and 30 seconds do; a ping that is lost with its answer does not. Waits go
  2, 4, 5, so that growth, the limit and a wait above a limit that is no power of two
  all occur. One message that waits besides pongs is enough to hold the reader up again
  and again.
* `store`: three processes allow a save, a waiting save and a load at once; three saves
  let a failed one come between two that succeed. The directory is there from the start
  or new. One power loss suffices: the state after it is again a file without pending
  changes, and orphans are the only temporary files.
* `ui`: with room for one event the second of two quick jobs is dropped; four jobs let a
  drop come between two that are shown, and the third that is shown pushes the first off
  the screen. A screen that the state file has filled is one of the initial states.
* `recorder`: with a buffer of 1 a batch still has any length, as it takes events while
  they arrive. Counters modulo 2 tell a lost or doubled event from a correct count; the
  real `int` wraps far away.

Deadlock is checked for `gate`, `store` and `recorder` as TLC reports it there. It is
switched off where the modelled part comes to an end by itself: `reactions` when all
calls are over, `watcher`, `watcher_liveness` and `cross_source` after `Start` has
returned, `rss_*` and `websocket` after `Start` has returned or refused its
configuration, and `ui` after `Run` has returned. What a deadlock would prevent there is
a liveness property of the run: `CancelEndsAll`, `CancelReturns`, `StopReturns`,
`RunReturns`.

### Fairness

* Weak fairness for code that runs on without waiting (deferred calls, dispatch,
  parsing).
* Strong fairness for the cases of a Go `select`, which picks among ready cases at
  random, and for a send on a channel, whose blocked senders Go serves in turn. This is
  what `FailureEndsWatcher` rests on: other monitors may keep the channel full for ever.
* None for what the code does not control: a monitor need not report, a reaction need
  not return, nobody need call `Record` or `Close`, the caller need not cancel.
* In `Reactions` goroutines run on and a killed command ends; a command that nobody
  kills need not end, which is what `CancelEndsAll` is about.
* In `TuiBridge` goroutines run on and the timers of `Run` fire. The watcher need not
  find anything and need not return, and nobody need press a key; the channel of the
  watcher's error and the drain timer are one weakly fair step, so that `RunReturns`
  holds with a watcher that never returns.
* No fairness of time in `WebSocketMonitor`: `StopReturns` and `HelpersEnd` hold without
  waiting for a deadline or a ticker.
* `RssMonitor` takes the server to answer at last when it is asked again and again:
  without it `NoticedUnlessHidden` is about the network. The consumer receives until the
  context ends, as the watcher does, and nobody need receive after that: only the
  `ctx.Done` branches of the two sends then let `Start` return, which is what
  `StopReturns` asks.

## 4. Proofs

All theorems hold for every value of the constants under the named assumption of the
module (`GateAssumption`, `PoolAssumption`, `ReactionAssumption`, `WatcherAssumption`,
`BridgeAssumption`, `ScheduleAssumption`, `RssAssumption`, `SocketAssumption`,
`StoreAssumption`, `RecorderAssumption`). Each proof has the same plan: an inductive
invariant, `Init => IInv`, `IInv /\ [Next]_vars => IInv'` with a case for each action, and
the property from `IInv`. Every safety invariant and every safety action property that a
passing run checks is the property of a theorem.

Induction over data. The library's induction rule takes an operator as its parameter,
which the provers cannot instantiate. Three proofs need induction all the same: over the
number of doublings and over the length of a list. They use `NatInd`, which speaks of a
*set* of numbers with 0 and the successor of each of its members, and which follows from
the well-foundedness of `<` on `Nat` (`WFMin`). A recursive function is then shown to
exist by building longer and longer finite ones (`Doublings`, `ListExists`). Each proof
module has the lemmas it needs, so that it can be read alone.

* **DedupeGateProofs** – `TypeCorrect`, `StructureCorrect`, `CapacityCorrect`,
  `EvictionCorrect`, `MemoryCorrect`. `WithinCapacity` is not inductive alone: an
  acceptance is brought back to the capacity by taking keys from `order`, so `order`
  must list the keys, each once. `IInv` therefore joins the types,
  `OrderMatchesEntries`, finiteness of the map, the capacity, and the fact that pending
  calls read a time not after the clock. The lemmas say what compaction keeps
  (`CompactionProperties`), that eviction removes at most one key (`EvictsAtMostOne`)
  and what a call leaves (`AcceptOutcome`, `RejectOutcome`). `MemoryCorrect` is the
  refinement: each step of the gate is a step of `FirstSeenMemory` or a stutter; a
  rejection with an old clock is right at the time of the call, an acceptance at the
  time of the return.
* **ReactionsProofs** – first the pool alone: `TypeCorrect`, `SlotsCorrect`,
  `LossCorrect`. The capacity bound comes from the guard of `Dispatch`, the lower bound
  from counting the holders. Then what runs in it. `PoolCorrect`: every step of a call is
  a step of its task in `AsyncPool` or none, from which `ReactionSlotsCorrect` follows
  with `SlotsCorrect`. `CallsCorrect` is `AllTried`; its invariant adds what is true
  inside a call, that a command runs only in a running one and that what it is about to
  report agrees with `errs`.
* **RssMonitorProofs** – the schedule: `ScheduleTypeCorrect`, `SpacingCorrect`,
  `MinimumCorrect`, `BackoffCorrect`. `BackoffValue` says that the loop of `nextWait`,
  which stops as soon as the wait is above half the cap, returns `check * 2^n` or the cap
  where that is less, for any width of the integers: a doubling happens only where
  `NoWrap` applies. `Spaced` is the invariant: during a wait the time since the last
  fetch and what is left to wait add up to the smaller of interval and cap, so that a
  pause in between can only lengthen it. `ConfigTypes` says that what `Config` loads and
  `main` accepts are durations, with an interval above the minimum.
  The monitor: `ScheduleCorrect` is the refinement, step by step (`ScheduleSimulates`):
  a fetch that fails, is answered 304, primes, is abandoned or ends after its last item
  is one `Fetch` of the schedule, and everything else leaves the schedule alone.
  `MonitorSpacingCorrect` and `MonitorMinimumCorrect` are what it is for: the requests of
  the monitor itself keep their distance. `OnceCorrect` counts: what was reported of an
  item, and what is being sent, is paid for by its key in the gate or by one that has
  expired (`Paid`). `PrimingCorrect` needs that an unprimed monitor has no validator, so
  that it can be primed by a complete first feed only (`Unprimed`), unless that validator
  came with a body it could not read, and that each item of that feed has its key from
  then on (`BacklogMarked`). It is a theorem about the code as it is: `NoBurstIfRead`
  leaves out the monitor that primed itself on a 304, `rss_priming` shows that one.
* **WatcherPipelineProofs** – `ServiceCorrect` is the refinement of `WatcherService`,
  `OncePerPostingCorrect` says that a posting is reacted to once if its reports agree on
  their key, `CompleteCorrect` is `OnceAndCompletely`, `QuietCorrect` is
  `QuietAfterReturn`. The invariants: the gate holds exactly the keys that the hook was
  called for (`HookMatchesGate`); `runCtx` ends, and the base error stays empty, only by
  the caller's doing (`OnlyTheCaller`); while a job is being dispatched its key is the
  only one whose reactions may be missing, and which of them depends on `loop`; after
  the join all monitors have left. The hypothesis of `OncePerPostingCorrect` is what
  `cross_source` shows to fail. `SameIdCorrect` replaces it by a condition on the reports,
  that those of one posting carry one id; `KeysTellIds` says that nothing less will do
  for a posting with an id in one of them, as the kinds of keys never meet, and that no
  posting is taken for another one with an id of its own.
* **TuiBridgeProofs** – `ErrorCorrect`, `DropsCorrect`, `ScreenCorrect`. For the first,
  the error channel holds what `Start` returned once the goroutine is over and nothing
  before, and the program's result stands once it has ended. The second needs that jobs
  are found in the order of their numbers, that shown jobs come before the one in a
  message and that before those in the channel, and that there is one pump, message or
  `Update` at a time (`OnePump`); the third builds on the same order, as `Update` puts
  its job in front without looking.
* **StateStoreProofs** – `TypeCorrect`, `NeverTornCorrect`, `DurabilityCorrect`,
  `CleanCorrect`. Durability needs that the lock holder has the newest snapshot
  (`OneSave`), that its temporary file is whole from `WriteTemp` and on the disk from
  `SyncTemp` on (`TempIsWhole`), and that between `SyncDir` and the return only the new
  file can survive (`OnlyTheSaved`). `CleanCorrect` (`NothingLeftBehind`) has an
  invariant of its own: who holds something is at a step that gives it back.
* **WebSocketMonitorProofs** – `SilenceCorrect`, `LiveCorrect`, `PaceCorrect`.
  `LiveServerKept` holds because, while nothing waits to be read, the deadline is no
  older than the last ping if that was answered, and than the ping before and its way
  back if not (`DeadlineFollowsPings`), so it cannot pass while the reader reads.
  `SilenceEnds` holds because a silent server leaves nothing to read and no ping of ours
  moves the deadline (`SilenceIsQuiet`). Both need that the heartbeat lives as long as
  the connection. `PaceCorrect` (`DialsPaced`) needs that `backoff` is the wait that
  belongs to the failures in a row at every place of `Start` (`PaceInv`), and that these
  waits double up to `MaxWait` and stay there (`Waits`).
* **RecorderProofs** – `NoPanicCorrect`, `SavedCorrect`, `AccountCorrect`,
  `DrainCorrect`. Inside a batch the file may lag behind, so the invariant says that
  `changed` is true whenever it does (`OnlyTheBatch`). `AccountCorrect`
  (`NothingLostOrReordered`) is an equation between lists that are filtered, reversed and
  cut: it is inductive with the types of the lists, and its steps rest on what the filter
  does with an event at either end (`JobsAppend`, `JobsPrepend`), on cutting a list early
  or late being the same (`CutEarly`), and on the same for the modulus (`WrapEarly`).
  `DrainCorrect` (`CloseDrains`) adds that a call of `Close` has returned only after the
  goroutine has ended, which it does on a closed and empty channel that nobody can fill
  any more (`CloseInv`).

Only model-checked:

* Everything under fairness: liveness is out of the prover's reach. `SlotReturned`,
  `CancelEndsAll`, `FailureEndsWatcher`, `CancelReturns`, `JobNotDropped`,
  `NoticedUnlessHidden`, `StopReturns`, `HelpersEnd`, `CloseReturns`, `RunReturns`,
  `EventShown`.
* Which key `JobKey` makes of a job without an id: cleaned paths and queries are checked
  for the reports of the runs.
* What the violated runs show: a counterexample needs no proof.

## 5. Where the code and its documents differ

1. **A body that does not parse is never fetched again** (`rss_priming`, and
   `MCRssHidden.cfg` for the second half).
   `fetchItems` stores ETag and Last-Modified before it parses the body. If the body does
   not parse, the retry carries that validator and is answered 304 until the feed changes.
   Before priming, `primeOnce` then marks an empty list as the first feed, and its items
   are reported as new by the next full answer: `README.md` promises "startup priming (no
   initial burst)". At any time, an item of the broken body is never looked at while the
   feed stays as it is: the design in
   `docs/plans/2026-02-24-rss-ws-reaction-hardening-design.md` says "Monitor-level errors
   are non-fatal and retried", and this retry cannot succeed.
2. **One posting, two keys** (`cross_source`). `canonicalJobKey` uses the id when there
   is one and looks for an id in the URL only when there is none, and marks the two
   differently: a posting from the websocket and the same one from a feed item without a
   guid are two jobs. The same design promises "No duplicate user actions for same job
   across RSS+WS inside dedupe window."
3. **A monitor that fails ends the watcher** (`MCWatcherAlive.cfg`, and
   `FailureEndsWatcher` for what the code does instead). `Watcher.Start` returns the
   first error of a monitor and cancels the others, as its test `TestWatcher_StartReturnsFatalMonitorError` wants.
   The same design says "Monitor-level errors are non-fatal and retried" and "Pipeline
   must remain alive unless context is cancelled". The monitors of the program do retry
   what happens to them: `Start` of the rss monitor fails only for an interval that is
   not positive, that of the websocket monitor never. It is the watcher that does not.

Limits of the code that a property states as its condition, or that no run asks about:

* `MinimumKept` holds when `max_backoff` is at least the minimum of 31 seconds. Nothing
  enforces that, and below it failures poll faster than the same design's "Guaranteed
  RSS compliance with 31-second minimum polling interval" allows. `SpacingKept` says
  what does hold: the smaller of interval and cap.
* `LiveServerKept` names the one way to lose a live websocket, a consumer that holds up
  one event for the whole pong wait.
* `DropsReported` and `ErrorNotSwallowed` except a watcher that outlives both the join
  timer, which is reported, and the drain window after it: its later jobs and its error
  are nobody's any more. What it returns within the window still counts.
* `AckedIsDurable` except the loss of a new directory: `Save` makes it with `MkdirAll` and
  fsyncs the directory, and nothing fsyncs its parent. A first save may be lost with it.
* `NothingLeftBehind` except processes that are killed: their temporary files stay, and
  no later start removes them.
* An event and the end of the context may be ready together, and `select` may take the
  event: its reactions then start with a context that is over, fail and are reported.
  `OnceAndCompletely` counts them as made.
* A `min_reward` of zero, in a file or the environment, means the default of 5: there is
  no way to ask for all jobs.
* `HasEnabledMonitors` counts the email and website monitors, which do not exist; a
  configuration with one of these alone is accepted and ends with "no enabled monitors".
* Two processes on one state file: the flock orders the writes, and each still replaces
  the whole file by its own snapshot. `SessionFound` is loaded from the file and not
  reset, so after a restart it goes on from the last run.

## 6. Not modelled

* The telemetry sink: SQL statements behind one mutex, which the program does not open
  yet. The router's side of it is in `WatcherPipeline`, with any outcome but a panic.
* The contents of messages, feeds and snapshots beyond what the key of a job depends on;
  parsing of rewards, dates and XML, formatting, logging. An id of spaces alone, which
  the websocket passes on and the router trims away, is not among the reports.
* The two dials of `dialWithFallback` and the write of the credentials are one step that
  succeeds or fails.
* The command lines of the notifier on each platform; `View` and the tabs of the screen,
  which only read.
* Flags, signals and the exit code of `main`: a signal is `TuiBridge`'s `Cancel`.
* The mutex `mu` of `Recorder` and `Store` where it only makes one action atomic.

## 7. Plan

Done, in this order: `DedupeGate`, `AsyncPool`, `WatcherPipeline`, `RssSchedule`,
`RssMonitor`, `WebSocketMonitor`, `StateStore`, `Recorder` and their first proofs; then
`WatcherService`, `TuiBridge`, `JobKey`, `JobReports`, `Config`, `Reactions`, and the
proofs of the watcher, the ui, the reactions, the websocket monitor and the store's
cleanup; then the proofs of the schedule, of the rss monitor and its refinement of the
schedule, of the pace of the dials, and of the recorder's account and its end. Next:

1. An abstract specification of the recorder (a log of accepted events and a durable
   prefix) that `Recorder` implements, with the step mapping proved, and with it what
   `TuiBridge` may rely on instead of an open or closed recorder.
2. Lemmas about `JobKey` for reports without an id: which spellings of a URL have one key.
3. Two configurations of the gate in one run: the rss monitor's own in front of the
   router's, with the different lifetimes they have.
