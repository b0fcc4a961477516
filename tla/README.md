# Formal models of the crypto trading bot

This directory holds TLA+ specifications of the trading bot, the TLC
configurations that check them on small instances, and TLAPS proofs of what
holds for every instance. Paths below are relative to the repository
(`src/...`).

## 1. The system

The program runs bots (funding reversion, funding dilution, penny jumper)
against futures exchanges. Strategies decide, an order manager executes, and
infrastructure connects both to the exchanges.

| part | state it keeps | operations | what is hard | what makes it correct |
|---|---|---|---|---|
| Order manager `internal/trading/ordermanager/futures` | one event-sourced aggregate per request (TTL cache), a map of timers, PnL trackers | Dispatch, CancelOrder, CancelOpenOrders, the handlers of 13 topics, AfterFunc timers, callbacks of the position stream | every message runs in its own goroutine; handlers sleep and wait for REST while others finish the same order | one submission, one completion, a position never left without a watcher, the saved row is true |
| Event bus `pkg/eventbus` | deduplication keys, subscriptions | Publish, Subscribe | duplicates, next message only after the Ack | a key is delivered once per subscription |
| Order watcher `internal/infrastructure/watcher` | callbacks per symbol and order | PublishPosition, PublishTrade, Subscribe | callbacks in goroutines, subscriptions that expire | each update reaches the orders that listen |
| Trade repository `internal/trading/ordermanager/persistence` | rows | SaveTrade | failed save | one row per order |
| Local order book `internal/infrastructure/store/orderbook` | book, version, staging buffer, inbox per symbol | InitializeSymbol, ProcessUpdate, RemoveSymbol, snapshot and commit recovery | deltas while a snapshot is fetched, gaps, a full inbox, callers that wait | a ready book equals the exchange's at its version |
| WebSocket client and pool `pkg/ws`, service `internal/infrastructure/ws` | connections, topic routing, reference counts, pending RPCs | Connect, Subscribe, Unsubscribe, RoundTrip, Close | reconnect while subscribing, a first subscriber that fails while a second joins | a topic with users is subscribed on a live connection |
| Combat mode `.../futures/combat_mode.go` | active window, timers, GC percentage | RegisterTargetTime, Close | overlapping windows, Close inside a window | GC is restored after the last window |
| PnL tracker `.../futures/manager.go` | history of ticks, maximum | update, IsConsecutiveDrop | concurrent trade callbacks | bailout only after a confirmed drop |
| Time sync, rate limiter, ticker, HTTP pool | offsets, tokens, workers | Sync, Wait, Run | clock steps, cancellation | never early, never above the rate |
| Reversion, dilution, obfuscator `internal/bots/funding` | armed symbols, quoting cycles, schedules | scan, arm, fire, recheck, quote | the settle instant, shared symbols | one position per settle, no orphan quote |
| Penny jumper `internal/bots/penny_jumper` | walls and their journals, subscribed symbols, cooldowns, rows | refresh, detect, judge, record | books and events out of order, rotation during a scan, names that repeat | the row of a wall holds its whole life |
| Exchange adapters `internal/infrastructure/exchange`, 18 of them | the session of the order WebSocket (Bybit, Binance) | CreateOrder, ClosePosition, CloseAllPositions, PlaceTPSL, GetOpenPositions, GetOrder | side, position mode, leg and reduction are called differently everywhere, and a close is computed from a position that another close is about to change | an entry opens its leg, a close never opens, a position reads back as what it is |
| Server, notifier, configuration | - | wiring and I/O | - | not modelled |

A strategy calls `OrderManager.Dispatch` with an intent. The manager records
the event on the aggregate of the request and publishes it on the bus. The bus
hands one message to each subscription of the topic; the handler records the
event again, works (often over REST), and publishes the next event:

    order_intent -> preflight_done -> position_watch_ready -> fire_window_reached
      -> CreateOrder -> submitted -+-> TP/SL
                                   +-> outcome watcher (polls GetOrder) -> outcome_resolved
                                   +-> cancel or close timer -> timeout_scheduled -> position checked
    position stream --------------> filled -> hold watchdog (close timer)
    position stream --------------> position_closed
      outcome, close, deadline, bailout -> order_completed -> trade_record -> row

The right-hand side runs concurrently; several branches may complete the
order, stop each other's timers or find it already gone.

## 2. Modules

| module | content |
|---|---|
| `OrderManager` | the order manager with the bus, the watcher, the timers, the API and the exchange as environment: state, actions, fairness, properties |
| `OrderPromise` | what the order manager promises a strategy about one request |
| `OrderManagerPromise` | the refinement mapping from `OrderManager` to `OrderPromise` |
| `MCOrderManager` | the intents of the TLC instances |
| `OrderManagerProofs`, `OrderLifecycleProofs` | the inductive invariant of the order manager and its proofs; the life of one order and the proof of the refinement |
| `OrderBookSync` | the synchronizer, the worker and the book of one symbol, with its stream, REST and the subscribe manager |
| `MCOrderBookSync`, `OrderBookSyncProofs` | the configurations of its TLC instances; the invariants of its fetches and of its book, and the proofs |
| `ExchangeAdapters` | pure operators: what each of the 18 adapters sends for an order, a close and a take profit, and makes of position rows and order states |
| `Bailout` | one taker order from submission to bailout over any adapter, with the legs of the account and closes that are executed late |
| `MCBailout`, `BailoutProofs` | its accounts for TLC; its inductive invariant and proofs |
| `WsTrade` | one WebSocket client with its connect loop, the dispatcher of requests and the order session |
| `Trade`, `MCTrade`, `TradeProofs` | `WsTrade` next to an `OrderManager`; the instance, whose pushes get lost; proofs about the WebSocket |
| `WsPool` | the reference-counted topics, the pool that spreads them over clients, the replay after a reconnect |
| `TimeSync` | the smoothed clock offset and the precision sleep |
| `CombatMode` | the windows in which the garbage collector is off |
| `Infrastructure`, `MCInfrastructure`, `InfrastructureProofs` | `WsPool`, `TimeSync` and `CombatMode` side by side; the instance; proofs about all three |
| `Reversion` | the funding scanner and the ten handlers of the reversion strategy |
| `Dilution` | the tick of the dilution job with the order manager and the market as it meets them |
| `WallDetector`, `WallDetectorProofs` | the walls of one symbol from the depth updates through journal and event stream to their rows; proofs |
| `Strategies`, `MCStrategies`, `StrategiesProofs` | `Reversion`, `Dilution` and `WallDetector` side by side; the instance; proofs about the first two |

Three modules (`Trade`, `Infrastructure`, `Strategies`) compose parts that share no state. A variable `focus` picks
the one that a behaviour exercises, so the state spaces add up instead of
multiplying, and the fairness is that of the part that runs. `EachIsAPart` proves for
each of the three that its behaviours are behaviours of the parts, so that a theorem
about a part holds of the composition.

### How `OrderManager` corresponds to the code

* `intent` is the `OrderIntentEvent`, reduced to the five fields that steer
  control: maker or taker, opening or closing, separate TP/SL, the two
  timeouts, PnL trailing.
* `state` and `log` are the aggregate. `Rank` is `stateRank`, `NextState`
  `resolveEventNextState`, and `Apply` refuses an event of lower rank as
  `applyLocked` does. Events of equal rank overwrite each other, terminal
  states included.
* `tasks` are the goroutines and the messages. A task at `"start"` is a
  message a subscription was given; `"reply"`, `"poll"`, `"close"` and
  `"enrich"` are the points at which a handler sleeps or waits for the
  exchange. Everything between two such points is one action: it touches
  shared state under the aggregate's lock or through `sync.Map` calls.
* `Messages` is `Bus.Publish`: a deduplication key seen before produces
  nothing. Every event of a request that is published is in `log`, so the keys
  are read off `log`. `Received` is the second `Record` of the event when its
  handler starts.
* `timer` is `OrderManager.timers` (one entry per request, overwritten by
  `Store`), `armed` the `AfterFunc`s that have not fired. A timer that fires
  deletes the entry of the request even if the entry is another timer's.
* `flows` and `listeners` are the personal stream and the position callbacks;
  a position update becomes a `"Push"` task per listener, or is lost.
* `ord`, `deal`, `position` are the exchange. A taker order ends inside
  `CreateOrder`; a maker order rests and is filled lot by lot.

### How `OrderBookSync` corresponds to the code

* `worker` holds every `symbolWorker` made for the symbol, `current` the entry
  of the map. `inbox` is the channel of capacity `MaxBufferCapacity`, `staging`
  the staging buffer, `waiters` the callers to be told, `asked` and `reply` the
  fetching goroutine before and after the exchange answered, `cooling` the two
  seconds after a failed snapshot. `call` are the goroutines inside
  `InitializeSymbol` or `Flush`.
* A handler is one action: only the worker's goroutine touches its fields.
  Readers may see the book between two deltas of a replay; in version order
  every prefix is as exact as the whole.
* A book is the sequence of changes it took in, `Span(1, v)` for a snapshot
  at `v`. Levels carry absolute volumes, so a delta covers its whole range
  whatever of it the book had, and one applied behind a newer one leaves a
  sequence that is not increasing. `FirstVersion` 0 means `Version`, as the
  adapters fill it in.
* `missed` is history for `OnlyMissedAreMissing`: the changes the stream failed
  to bring after the exchange answered a fetch and before the answer was
  handled, since the last snapshot was asked for. Such a loss leaves no trace
  the replay could find; any other one shows as a gap and is repaired, which is
  what the property says. Commits do not fill these holes, they begin behind
  the book's version, so only a new snapshot forgets them.
* Bounds: five versions, deltas of at most two, an inbox of two and a staging
  buffer cut from three to one reach every branch, the full inbox and the cut
  included. Five are needed for a change missed while a snapshot waits, then a
  gap, then commits that bridge it; with four that never ends in a ready book.
  Contexts that end (`ctx`) are part of `ob_live` only. `Resend` repeats only
  the change before the last, with an empty inbox. Workers share nothing, so one
  at a time is enough; the rotation of a symbol (`RotatedOutIsRemoved`, below)
  needs two.
* Left out: the readers, the best-price cache, `StaleTimeout` (read nowhere).

### How `ExchangeAdapters` and `Bailout` correspond to the code

* An operator named after an exchange stands for the adapter's function:
  `GateClose` for `ClosePosition` of `gate/position.go`. A raw order is a
  direction, the leg it names (`"both"` in one-way mode, `"any"` where the
  exchange picks, as OrangeX does), whether it may only reduce and whether it takes
  the whole leg. Prices, symbols, precision and signatures are left out.
* `GetOpenPosition` builds the row that the exchange shows for a leg, signed where
  that exchange signs amounts, and reads it back as the adapter does.
* `legs`, `phase`, `deal`, `flight`, `exit` are the exchange: lots held, the
  entry order, its dealt lots, closes accepted and not executed yet, the take
  profit and stop loss. Take profit and stop loss are one exit: when one
  triggers, what the other does is left out. Pionex and XT have none; KuCoin's
  `PlaceTPSL` is never called because its entry carries the prices.
* A close larger than the leg is cut by the exchange, which is what reduce-only
  and hedge mode mean there. A one-way order without the flag is not cut: its
  rest opens the other direction (`AfterNet`).
* `CloseAllPositions` encodes its closes for hedge mode on every exchange that
  goes leg by leg. A one-way account refuses them (`Accepts`), and the retry
  loop of the bailout closes instead.
* `stage` follows `HandleOutcomeWatcher`, `HandleWaitTimeoutDeadline` and
  `HandleExecuteBailout`. `HandleTimeoutCheck` is called by tests only and is not modelled. A
  query that fails at the deadline reads as no position (`"unread"`, the
  handler's zero `HoldVol`). The outcomes `canceled_no_fill` and `unknown` complete
  the order (`Completes`): `"ended"` is the request whose timer
  `CancelTimeoutGuard` stopped. It may go on to the deadline all the same
  (`"hold"`), because the handlers that store a timer run concurrently.
* An outcome may say less than was dealt: only BitMart and Pionex (`TellsCut`) tell
  an order that was cut after a part from one that was not dealt. So
  `OutcomeNotOverstated` says that no outcome claims more; that the orders which
  "no fill" completes were not dealt is `EndedUnfilled`, which is false. Aster
  reports IOC orders that have ended as new: they await their deadline.
* The request starts with a lot or none on the other leg of a hedge account,
  which stands for another request. Hotcoin's emulated IOC order is taken as
  canceled when it is said to be; the cancel of resting orders by MEXC and XT is
  left out.

### How `WsTrade` and `WsPool` correspond to the code

* `loop` is the goroutine of `Client.Run` with its read loop and its hooks
  `onConnected` and `onDisconnected`; a broken connection is noticed when it is read. `pending`,
  `channel`, `taken` are `Dispatcher`: the map, the buffered channel of a
  request, and the requests `Dispatch` has removed from the map and not yet
  sent to. `call` walks through `dispatch` and `RoundTrip`: ready, registered,
  written, waiting. `closing` walks through `Close`.
* Heartbeats are left out: what they do to a connection the network does too.
* `WsPool` has the locks of the code as actions: `subscribers` is the count of
  `infrastructure/ws/ws.go`, `routing` and `count` the maps of `pool.go`,
  `phase`, `todo`, `owner`, `ready` the client made for a slot. The connect
  loop runs under the context of the caller that made the client (`owner`).
* `RoutedIsStreamed` speaks of topics that only one flow follows: of two overlapping
  calls on the same topic `SharedIsRouted` (not run, false) says more, see below.
  `CapacityKept` and `StreamsResume` are about callers whose contexts last.

### How the others correspond to the code

* `TimeSync`: `offset` is what `syncOnce` smooths; a measurement lies within
  half a round trip of the true skew; the float product may fall short of a
  whole number, so `Smoothed` gives both results. `PrecisionSleepUntil` sleeps
  until a lead before the target, then spins, and reads the offset anew.
* `CombatMode`: every method is one action under the lock of the coordinator;
  `starts` and `exits` are the `AfterFunc`s. An exit timer that finds a later
  end is armed again.
* `Reversion`: `found` holds what a scanner saw until `shouldTrigger`;
  `flows[i].topic` is the message that is to be handled, `held` a handler that
  sleeps. A topic handles one message at a time (its Ack is the return of
  the handler), so a sleeping handler delays the other candidates. Time is four
  instants per settlement: before the scanner's window, in it, recheck, snapshot.
* `Dilution`: a quote is pending at the order manager, resting, filled in part,
  withdrawn, or closed out. A failed read counts as no position, a failed cancel
  leaves the quotes. `slips` counts these and the quotes submitted after the
  cancel of the next tick, so `ExposureBounded` is a bound in the number of
  things that went wrong.
* `WallDetector`: `scan` and `task` are the two goroutines of `subscribeTopic`;
  the bus hands each its waiting messages in any order. The filters of
  `evalLevel` are data: a level passes them or does not, and `Shows` says what
  a book may show of a wall that stands. `name` is `ExternalUniqueID`, whose
  clock ticks in seconds; `n` and `seq` tell walls and their events apart
  where the code does not. Journals (one hour) and active walls (thirty
  minutes) do not expire. A rotation deletes the walls only: depth updates on
  their way are still scanned.

Definitions preceded by `(fault)` are plausible wrong variants of the
definition that follows. Nothing uses them: putting one in the place of the
right definition must make TLC report the property paired with it in
`PROJECT.json`, which shows that the property depends on that piece of code.

### Constants and abstractions

* `Lots` = 2: one lot of two is a partial fill; nothing in the code tells
  three lots from two. Volumes, prices, leverage and rounding are left out.
* `PollTries` (6 in the code) and `BailoutTries` (11) are 1 or 2 in the runs:
  each attempt repeats the same step, so one that fails followed by one that
  does not is enough, and the last attempt is reached in every run.
* `Faults` names what may go wrong in a run: `rest_read` and `rest_write`
  (REST queries and commands fail), `reject` and `submit_ambiguous` (the order
  is refused; or taken although `CreateOrder` reports an error),
  `partial_cancel` (an order ends partly dealt), `ws_loss`, `snapshot` (the
  stream repeats itself), `watch_expire` (the callback's subscription ends),
  `db` (the save fails).
* `Api` names the calls besides the first `Dispatch`: `redispatch`, `cancel`
  (`CancelOrder`), `cancelOpen` (`CancelOpenOrders`), `trail` (a trade update
  that finds the PnL dropped; the tracker's verdict is a free choice).
* `AckGates`: the in-memory channel hands a subscription its next message
  after the Ack of the last, and the Ack is the end of the handler
  (`execute.go`, `dispatchMessage`).
* `SlowTimers`: a timer (seconds to minutes) does not fire while a message of
  its request waits to be handled. It is switched off in `trade` and in the
  liveness run, whose properties do not rely on it.
* Identical pushes that wait at the same time are one task: handling one twice
  in a row has the effect of handling it once.
* `CancelOrder` is called by one caller at a time and not for an order already
  canceled, which bounds its repetition.
* The check of a push against `HasFilled` and the publication that follows are
  one step; two pushes handled in that window would both publish, and the
  deduplicator drops the second.
* Left out: failures that only a wrong configuration causes (unknown
  exchange), notifications, pre-signing, connection pre-warming, Shutdown, the
  one-hour expiry of aggregates, the 24-hour expiry of deduplication keys.
* All requests of an instance trade one symbol on one account. The runs have
  one request: two complete orders exceed six million states. The proofs are
  for any number of requests.

## 3. Runs

Deadlock is not checked: a program whose orders are all done rests, and so does
a book whose exchange makes no more changes.

| run | instance | distinct states | shows |
|---|---|---|---|
| `om_calls` | taker with TP/SL and trailing stop, maker with both timeouts; all API calls, failing writes, ambiguous submission, expiring watch | 626,378 | `AtMostOneSubmission`, `CompletedOnce`, and `RecordedFillIsReal`: a row that reports a fill belongs to an order that was dealt |
| `om_orders` | three kinds of taker, two makers, two closing orders; every fault but the expiry of the watch, redispatch, trailing stop | 1,211,650 | `FilledIsGuarded`, `NoSubmitAfterEnd`, and `KeepsPromise`: the pipeline implements `OrderPromise` |
| `om_live` | a taker and a maker under `FairSpec` | 127,683 | `TimedOrderEnds`, `UnfilledMakerEnds`, `CompletedIsSaved` |
| `trade` | two requests on two connections that break, authenticate and are closed; or a taker with lost pushes, expiring watch, failing saves and timers that overtake messages | 555,386 | of the socket `ReadyIsAuthenticated`, `NoSendOnClosed`, `DropWakes`; of the order `WatchedPosition`, `OutcomeCompletesUnfilled` |
| `ob_sync` | every configuration of the book, five versions, inbox of two, one caller; lost and repeated deltas, failing REST calls | 5,860,053 | `AwaitsOneAnswer`, `OnlyMissedAreMissing`, `VersionNeverFallsBack`, `CommitsBridge` |
| `ob_live` | a strict book without commits, two callers, lost deltas, failing snapshots, contexts that end, under `FairSpec` | 233,507 | `FetchEnds`, `CallsReturn` |
| `infrastructure` | two flows on three topics, two per client, one loss, one context that may end; or a skewed clock with a sleeping order; or overlapping combat windows | 138,232 | `CapacityKept`, `RoutedIsStreamed`, `CallsReturn`, `StreamsResume`; `OffsetIsClose`, `NotEarly`, `Fires`; `CollectorOff`, `CollectorReturns` |
| `strategies` | two accounts on one symbol over a settlement, both watched by the configured scanner and one by its own schedule scanner too, with two ticks each; or four ticks of dilution with one slip; or three books of two prices within two seconds, one rotation, one failing save | 260,050 | `OneCandidate`, `TimersKept`, `EachEnds`; `ExposureBounded`; `EndsInItsRow` |
| `bailout` | every account of the 18 adapters but the unguarded ones, both sides, an entry of two lots, one failing call | 636,181 | `OutcomeNotOverstated`, `BailedOutIsFlat`, `EntryOpensItsLeg`, `ClosesNeverOpen`, `ExitsFitTheirLeg`, `BailoutEmpties` |

The order half of `trade` leaves out the faults under which its properties are
false: with a failing query (`rest_read`) see below, with failing writes the
bailout gives up with the position open (`BailoutFails`), and with `snapshot` a
repeated push of no position may be handled after the fill and end the watch.

Why the bounds are enough, where section 2 does not say: an entry of two lots
is dealt, cut after a part and filled; three attempts of the bailout let two
closes be on their way while a third is computed; two connections are a loss
and a reconnect, and a waiter of the first meets the second; three topics with
two per client need a second client; combat windows in 3 to 8 with lead and
trailing of 2 touch, overlap and are disjoint; two targets that share a stream
and one settlement let two candidates wait in the same topic, and a target in
the scope of two scanners is seen by both before either triggers it; two rates
tell a rate that is read anew from the one of the scan, the sign that turns
opening sides around is left to the proof of `IntentIsVetted`; three books are
the birth, the maturity and the end of a wall, in any order, and two of them
fall into one second.

### Where the code does not do what is written

Each of these runs is meant to be violated; TLC prints the steps.

| run | what happens |
|---|---|
| `find_book_gap` | a lagging REST server answers with a snapshot older than the first staged delta; `replayStagedBuffer` applies what it has and the book is READY with a hole |
| `find_inverted` | BingX, Gate.io and Toobit close a one-way position without the reduce-only flag: when two closes of the bailout are on their way, the second opens the opposite position |
| `find_cut_order` | an IOC order that the exchange cancels after a part of it was dealt (Binance here, most adapters alike) is read as canceled and published as `canceled_no_fill`; the order completes, its timer and its watch end, the position stays (`EndedUnfilled`) |

Changing constants shows more, which no run records. The definitions named
here are in the modules.

Of the order manager:

* with `rest_read`, `GetOpenPositions` may fail at the deadline: `HoldVol`
  stays zero, the watch ends and the order completes with the position open;
  an order that could not be read completes as `unknown` although it was filled
  (`WatchedPosition`);
* the outcome watcher may see the fill of a maker first; the push is then
  dropped because `HasFilled` holds, `order_filled` is never published and the
  hold watchdog never starts (`HoldMaker`);
* with `cancel`, `CancelOrder` may lose against the fill: its error is only
  logged, pushes are ignored from then on and the position stays
  (`CanceledHoldsNothing`); an order canceled before its fire time is still
  submitted (`NoSubmitAfterEnd`);
* a maker with both timeouts (`MakerWithBothTimeouts`) gets no hold watchdog,
  because the running cancel timer occupies the map entry (`FilledIsGuarded`);
* a maker whose TP/SL was dispatched (`MakerWithTPSL`) is in a state
  `isCancelableRestingState` does not know, so that its cancel timer does
  nothing (`UnfilledMakerEnds`);
* with `partial_cancel`, an IOC order canceled after a partial fill completes
  as `canceled_no_fill` here as in `find_cut_order` (`OutcomeCompletesUnfilled`);
* with `cancelOpen`, the quoting cycle stops the hold watchdog of a filled
  taker (`WatchedPosition`);
* the event `order_canceled` has no subscription, so a canceled request gets no
  completion callback and no row; the remainder of a partly filled maker keeps
  resting when the order completes on the close of what was filled.

Of the order book:

* a delta between `RemoveSymbol` and `UnsubscribeDepth` creates a new worker,
  which nobody removes; its book stays READY and no longer changes
  (`RotatedOutIsRemoved` with two workers);
* an `InitializeSymbol` that arrives while commits are fetched is not told of
  their success and waits for the next snapshot or its context (`CallsReturn`
  with `OnlyCommits`);
* the clients of MEXC and KuCoin answer `GetDepthCommits` with one record that
  carries only its last version (`commits = "merged"`). A fresh answer is then
  never the next version, `applyCommits` refuses it and every recovery falls
  back to a snapshot (`CommitsBridge`, were it stated for `"merged"`);
* `Flush` waits for ever when the worker is removed while the flush is in its
  inbox.

Of the rest:

* `PlaceTPSL` of Aster takes every side but `SideCloseShort` for a long position;
  it is called with the opening side (tpsl_types.go:9), so a short gets its exits
  on the long leg (`ExitTakesItsLeg` with the accounts `Aster`);
* two flows that subscribe and unsubscribe the same topic at the same time
  may leave a flow that joined without a route (`SharedIsRouted`), since
  `ws.go` calls the pool outside its lock;
* a candidate may sleep behind another one of the same topic and start its
  timer late (`OwnTimer`); with a shared stream the first candidate that ends
  gives up the ticker stream of the second;
* a wall that moves to another price within the second of its birth keeps its
  name, and so do a bid and an ask wall of one second: they share one journal,
  one cooldown and one row, and the end of the first clears the events of the
  second (`MovedIsRenamed`; wall_detector_test.go:905 moves it a second later).
  `EndsInItsRow` is therefore stated for names of one wall;
* an event that waits behind the judges, who may take fifteen seconds, is
  handled against the wall its side has by then: the new wall is judged by the
  journal of the old one, and its own cooldown starts (`JudgedByItsOwn`).

### Fairness

`FairSpec` asks weak fairness of every handler, callback and timer: the Go
scheduler runs every goroutine, REST calls return (they carry timeouts) and
`AfterFunc` timers fire. It asks nothing of the exchange (no fill, no push
need come), of the strategies, or of faults: a read or a write may fail every
time. So `TimedOrderEnds` holds although no push arrives and every query fails.

In `OrderBookSync` the goroutines that wait for room in an inbox (`SendReply`,
`SendTask`) are strongly fair: Go hands the room that a receive makes to the
senders that wait, in their order, before a non-blocking send can take it. The
stream, the callers and the two-second pause (`Cool`) are not fair.

In `Bailout` the order manager, the end of an IOC order and the execution of an
accepted close are fair; no exit need trigger and no call need succeed, but
`MaxFaults` bounds how many fail. In `WsTrade` the connect loop, the closer and every caller are
fair; neither the exchange nor the network is. In `WsPool` callers and connect
loops are fair and at most `MaxLosses` connections break, so `StreamsResume`
says what happens once they stop breaking. `TimeSync` and `CombatMode` let time
pass and timers fire. In `Reversion` time passes and the bus hands a free topic
its next message; `Dilution` promises nothing that needs fairness. In
`WallDetector` the handler of the events is fair, as the judges and the database
have timeouts; neither the scan nor the depth stream is.

## 4. Proofs

`OrderManagerProofs` proves, for every set of requests, every set of intents,
every fault and API call and any number of attempts:

* `Invariant`: `Spec => []IInv`;
* `TypeCorrect`: `Spec => []TypeOK`;
* `SubmittedOnce`: `Spec => []AtMostOneSubmission`;
* `CompletedOnlyOnce`: `Spec => []CompletedOnce`.

The assumptions are those on the constants, named in `OrderManager`
(`IntentsAssumption`, `TriesAssumption`, `SwitchAssumption`).

`AtMostOneSubmission` is not inductive: nothing in it says that the message
that leads to `CreateOrder` cannot come back. `IInv` adds it. `Single` says of
each counted handler (`Execute`, `Complete`, `SaveTrade`) that it has run at most
once, that a message of it exists only if its topic is in the log, that there is
at most one such message, and none once it has run. `PipeStep` describes what
any action may do to the pipeline: the log grows, and a new message of a
counted handler exists only if its topic entered the log in this step. It is
proved once for recording and publishing (`EmitStep`), for going on
(`ContinueTask`) and for adding tasks (`AddStep`). `SingleKept` and
`SingleCounts` then carry `Single` over a step in which the handler does not or
does run, and each action has a lemma of its own. `TaskOK` and `EventOK`
carry what types need: a poll holds a view of the order, a completion an
outcome. `BookOK` says that a request not submitted has no order and that a
live order is not dealt in full; without it `deal` could leave its type.

`OrderBookSyncProofs` proves `AwaitsOneAnswer` (`OneAnswer`) for every set of
configurations, any number of workers, callers and changes, any capacity of the
inbox and the staging buffer, and all faults. `Pending` says where the one
answer is, asked for, held by the fetching goroutine or in the inbox, and
`Quiet` that there is none. The invariant leaves the book, the staging
buffer and the waiters open (`Shaped`), so that what a handler does to them
need not be computed: most steps are `Alike` one that was dealt with before.

The same module proves what the handlers do to the book, for the same constants:

* `BookInvariant`: `Spec => []SyncInv`;
* `OnlyMissed` (`OnlyMissedAreMissing`) and `NoFall` (`VersionNeverFallsBack`),
  under the hypothesis `"lag" \notin Faults`: every REST answer shows the newest
  version the exchange has when it answers. The code relies on it, and without
  it both fail: `find_book_gap` is a run in which such an answer leaves a hole,
  and an old snapshot sets the book back;
* `CommitsAlwaysBridge` (`CommitsBridge`), without hypothesis.

`SyncInv` is what the first two need. `BookKept` says of every worker that its book is in
version order and that what is staged and queued is well formed; the rest is about the
running worker of an incremental book. Its centre is `Answerable`: an answer
that is pending shows a version not behind the book, and every change after that
version that the stream has put out is `Accounted`, that is staged, queued ahead
of whatever comes after it, or counted as missed (`Held`, `Known`). So when the answer is handled the
replay finds either all of them or a gap. `Bounded` keeps what is staged and
queued behind the stream and the book behind the exchange, `Bridging` ties
commits to `RECOVERING`, and `Whole` says of a book that is ready or bridging a
gap that it lacks only what was missed. TLC checked `SyncInv` as an invariant of the
instance of `ob_sync` before it was proved. With four versions that run had let
pass a `missed` that forgot its holes when commits were asked for; the proof of
`Whole` failed there, and five versions show the counterexample.

What a replay does to the book is a fold over the staged deltas, and so are
the commits and the part of a book a delta does not cover: recursive functions
(`ReplayStaged`, `ApplyCommits`, `Uncovered`). The library's induction theorems
take a predicate as parameter; `Counting` states induction for a set instead
(a set of naturals with 0 and all successors holds all of them) and follows
from the pigeonhole theorem. With it `UncoveredOK`, `ApplyDeltaOK`, `ReplayOK`,
`CommitOK` and `ApplyCommitsOK` say, for lists of any length, what the result
keeps of the order, the version and the changes of the book. Each handler then
has a lemma that its new worker `Follows` the old one.

`BailoutProofs`, for every set of accounts over the 18 adapters, every volume
and any number of attempts and failures, under the hypothesis `Guarded`: the one-way accounts of
BingX, Gate.io and Toobit, whose closes may open (`find_inverted`), are not
among them.

* `PublishedNotOverstated`, `SuccessIsFlat`, `DealtLotsOpen`, `ClosesOnlyTake` and
  `ExitsFit` prove the five safety properties of the run.
* The lemmas on the adapters come first: a row reads back as the position it
  shows (`ReadsBack`), a state read is true of the phase (`StateOfPhase`), an
  entry is on its leg and may not reduce (`EntryShape`), every close and exit
  `Shrinks` (`HedgeClose`, `NetClose`, `ExitShrinks`). Then what such orders do to
  the legs (`ShrinkingLegs`, `EntryOpens`, `ExitTakes`).
* The properties are not inductive. `PhaseOK` ties the phase to the lots dealt
  and says that nothing is dealt once the watcher is through, which keeps a flat
  account flat; `ViewOK` that an old reading of the order stays true; `ClosesOK`
  that every close on its way shrinks; `LegsOK` that the request's leg holds at
  most what was dealt, so that an exit of the entry's volume empties it, and
  that a one-way account holds nothing else.

`OrderLifecycleProofs` proves, from the same invariant:

* `LedgerKept`: the state of an aggregate is that of a recorded event, none of
  its log ranks above it, and a message is always that of a recorded event.
  `Moves` is the form every action is brought to, with the topics it may record;
* `NeverSubmittedAfterEnd`: `NoSubmitAfterEnd`. Neither the topic of a message nor the
  state tells alone that an order may be sent. `EarlyInv` does: while a message of the
  pipeline waits, it is the only work of its request, no timer is armed, and
  nothing of a later stage is recorded;
* `ImplementsPromise`: `KeepsPromise`, the refinement of `OrderPromise`. `RecordedDone`
  ties a trade record to a completion; `PromiseStep` maps each action to a step of
  the promise or a stutter.

Refinement and `NoSubmitAfterEnd` hold under two hypotheses. `"cancel" \notin Api`: `CancelOrder` ends a
request that is still submitted (section 3). `Alone`: the request has the symbol to
itself, or all requests close. Requests of one symbol hear each other's pushes, so
the fill caused by one order may complete another before that is sent.

Four more theorems of that module are about what the racing handlers leave
behind. Each has the hypotheses without which TLC finds it violated, and no other:

| theorem | property | hypotheses, and what breaks without them |
|---|---|---|
| `FilledStaysGuarded` | `FilledIsGuarded` | `OneTimeoutEach`: the cancel timer of a maker with both timeouts keeps the close timer from being stored; no cancel calls: `CancelOrder` and `CancelOpenOrders` stop the timer |
| `OutcomeOnlyOfUnfilled` | `OutcomeCompletesUnfilled` | `Uncut`: no query of an order fails (the outcome would be "unknown") and none ends dealt in part, be it by the exchange, the unfilled cancel timeout or a call |
| `RowsAreReal` | `RecordedFillIsReal` | `Sole`: one request, which opens (orders on one symbol see each other's position, a closing one finds that of others); no query fails |
| `PositionIsWatched` | `WatchedPosition` | `TimedTaker`: one taker order that opens and has a close timeout; `Answering`: of the faults only lost pushes, a rejected order, an expired watch and a failing database, of the calls no cancel |

* `WatchInv` (for the first): only makers have a cancel timer and the map holds one
  that runs (`TimerOK`); the deadline is handled once, so that whatever timer fires
  later publishes to nobody (`DeadlineOnce`), and from its event on somebody works
  on it until the order ends (`DeadlineWorked`); that carries `FillGuarded` over the
  moment the timer has fired.
* `CutInv`: an order that was canceled was not dealt, and one that is resolved as
  canceled was canceled (`CutOK`). The watcher's answer may be old when its
  message is handled; it is true of an order that has ended.
* `RealInv`: an order that was not dealt has no position, and nothing on the bus
  tells of a deal (`Unreal`), neither an event (`Claims`) nor work that waits (`Tells`).
* `HeldInv`: an order is not submitted, or its position is closed for good
  (`Over`), or nobody takes it for closed and the chain from the reply of the exchange
  over the timer to the deadline is not broken (`Held`). `EarlyInv` says that the
  submission finds nothing else under way, `WatchInv` closes the chain's end.
  No snapshots: one of the empty position from before the submission,
  handled after the fill, completes the order and stops its timer.

`InfrastructureProofs` is about three parts.

* The pool, for any flows, topics, limits, calls, losses and cancellations:
  `CapacityIsKept` and `RoutedTopicsStream`. `JoinedOK` says that flows join only
  what they follow, `RoutesOK` that topics are routed to clients that were made and a
  client not made has no connection, `UnsentOK` that who has yet to tell the exchange
  of an unsubscription has given up the route, `StreamedOK` that a routed topic on a
  live connection is streamed, about to be replayed or about to be asked for.
  `ClientIsFound` shows, by a pigeonhole argument over the counts, that the bound on
  the clients (`Slots`) is never met as long as contexts last.
* `SetInduction` states induction over the naturals as a lemma about sets, from
  the bijections of `FiniteSetTheorems`; it yields the least element
  of a set of clients (`MinIsIn`), which `Available` picks.
* The clock: `OffsetStaysClose` and `NeverEarly` for any skew, error, lead and target.
  The invariant adds `WaitOK`, the instant an order waits for, and the rounding lemma
  bounds what smoothing and the cut of a millisecond do.
* The combat mode: `CollectorStaysOff` and `OffOnlyInWindow` for any fire times and
  any lead and trailing durations. `CoversEntered` says that the window ends behind
  every one entered, `LeftIsOver` that a mode that was left had nothing to cover.

`TradeProofs` proves `NeverSendsOnClosed`, `WaitersAreKnown`,
`NothingIsLeft` and `ReadyMeansSession` for any requests and connections.
`ChannelsOK` says where the channel of a request in each step of its call is;
`SessionOK` that an authenticated flag belongs to the connection that is up.

`StrategiesProofs` proves of the reversion `TriggeredOnce`, `NeverAheadOfTimer` and
`IntentIsVetted` for any targets, scanners and rates and any number of
settlements. `Remembered` says that a target remembers the last settlement
it was triggered for; `FlowOK` what is known of a candidate at each topic, and
`Becomes` is the form every handler's step is brought to. Of the dilution it proves
`ExposureIsBounded` for any number of ticks and slips: what is held is bounded
only together with what rests late (`Late`) and what the next cancel takes away
(`Due`), which `ExposureOK` weighs against the slips.

`WallDetectorProofs` proves `RowHoldsLife`, `Spec => []RecordIsWhole`, for any
sides, prices, durations and number of books, rotations and failing saves. No
run checks it: it is the same question as `EndsInItsRow` without the
liveness. A row is written from what the journal held when the event was taken,
so the invariant says where a wall stands: `OpenOK` that the journal of a wall
on the watch is complete up to its last event, also while a scan holds a wall
the rotation has removed; `EndOK` that the end of a wall, waiting or being
handled, is the last of its journal and waits only once; `RefsOK` that what is
kept under a name is of walls of that name. All but the last are about walls
that share their name with no other (`One`): a second wall of the same second
appends to the journal of the first.

The assumptions on the constants of a part are hypotheses of its theorems;
`WsAssumption`, `InfrastructureAssumption` and `StrategiesAssumption` state them of the
compositions, where TLC evaluates them for the runs' values.

Only model-checked, because liveness under fairness is beyond the prover:
`TimedOrderEnds`, `UnfilledMakerEnds`, `CompletedIsSaved`, `FetchEnds`,
`CallsReturn`, `StreamsResume`, `Fires`, `CollectorReturns`, `EachEnds`, `DropWakes`,
`EndsInItsRow` and `BailoutEmpties`. Every invariant and every action property
of a passing run is stated by a theorem.

`TypeOK` is part of the proved invariants of `OrderManager`,
`WsTrade`, `TimeSync`, `CombatMode`, `Reversion` and `WallDetector`, and `Typed` of `Bailout`.

## 5. Not modelled, and why

`PROJECT.json` lists every component with its status.

* The PnL tracker: arithmetic on floats. Its callbacks are serial per
  subscription. The order manager takes its verdict as a free choice.
* Allocator, safety, pricing, leverage and TP/SL rules: pure float arithmetic
  without control; the wall judges: scores and a language model; the filters of
  the wall detector, the entry price and the history of pulls.
* Of the adapters: symbols, precision, signatures, rate limits, market data and
  the parsing of streams. The pushes of positions are not filtered by leg, and the
  adapters differ in which row they take; `OrderManager` takes a push as the
  position of its symbol. Of depth streams only what MEXC, KuCoin and Toobit fill in
  is reflected in `OrderBookSync`.
* Of the order manager: the one-hour expiry of aggregates, the head-of-line
  blocking of a topic by a sleeping handler of another request (an instance of
  two requests is out of TLC's reach: two complete orders exceed six million
  states), Shutdown, notifications, pre-signing.
* Of the book: price levels and the best-price cache, readers.
* Of the WebSocket layer: heartbeats, the private client of the pool,
  `Pool.Close`. Of the time synchronisation: the latency statistics.
* Rate limiter, ticker, HTTP pool, engine, runner, obfuscator, price track job,
  server, notifier, configuration, persistence of rows, tools: wiring, I/O or
  state too small to hold a property.
