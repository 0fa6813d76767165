# A TLA+ model of the Aureon Arvion trading agent

The program (`src/`) trades an anchor breakout on Indian futures. At the anchor time it takes
the open of the five-minute bar, puts a buy stop above it and a sell stop below it, lets the
first one that is crossed open a position and cancels the other, trails the position's stop
on closed bars, and squares everything off before the close. This directory models the parts
that decide about orders, positions and what is kept on disk, and the two threads that feed them,
checks them with TLC on small instances, and proves with TLAPS, for every instance, their safety and
three refinements: the per-tick orchestrator implements an abstract bracket of two orders, the
placement of orders an abstract journal, and the Telegram poller an abstract queue of commands.

## 1. Inventory

| Component (source) | State | Operations | What makes it correct |
|---|---|---|---|
| Orchestrator (`engine/orchestrator.py`) | rolling bars, OCO pairs, positions, day counters, square-off flags, pause flag; the pairs also on disk | `on_tick`: close bar, roll bar, capture anchor, fills, place pair, sweep, square-off; restart; pause | no untracked order, one exposure per symbol, book = positions, disk = pairs, flat at the end of the day; one leg of a pair cancels the other |
| PaperBroker (`brokers/paper/paper_broker.py`) | orders and positions, in memory | place, cancel, tick, modify, force close | an order fills once, only when open and crossed |
| AnchorEngine (`engine/anchor_engine.py`) | today's anchors, a file with one day | roll day and reload, capture | an anchor never changes within its day, restart or not |
| StrategyRunner, levels (`engine/strategy_runner.py`, `strategy/levels.py`) | none of its own | levels, entry, exit, trailing | losses bounded, locks kept, the stop only moves towards profit |
| GuardRails, PositionSizer (`risk/`) | none | trade count, daily loss, lots | the cap and the risk budget |
| ExecutionEngine (`engine/execution_engine.py`) | positions, closed trades, day counters, file | `on_bar` | counters are today's trades, the file would let a restart recover |
| BacktestEngine, DrawdownTracker (`backtest/backtest_engine.py`, `engine/metrics.py`) | the position of a session; trades; the equity | the loop over a session's bars; the walk of the summary over the trades | the same trades as PAPER; the drawdown reported is the one there was |
| DhanBroker, DhanClient, OrderIntentStore (`brokers/dhan/`) | order intents on disk | place with intent, retry, reconcile | an order is traceable after a crash, and never placed again once acknowledged |
| TelegramPoller (`core/telegram_polling.py`) | update offset, pause flag | poll, commands | a command runs once |
| MarketFeed (`brokers/dhan/market_feed.py`, started by `engine/live_runner.py`) | socket, stop event, back-off index, list of instruments, last ticks | connect, close, reconnect loop, callbacks | a closed feed ends, an open one comes back with the right list |
| the rest | | audit, cost model, HTTP API, historical download, CLI, configuration, logging | reports and start-up; no decision reads them |

How they interact. The feed's thread calls `on_tick(symbol, ltp)`, and one tick runs to its end
before the next. The Telegram thread writes the orchestrator's `paused` flag in between.
`on_tick` calls the anchor engine, the runner, the guard rails and the sizer as functions and
the broker as an object; `StateStore` replaces a JSON file atomically. A restart keeps the files
and loses the rest, which under PAPER includes the broker's orders. `BacktestEngine` and
`ExecutionEngine` both drive `StrategyRunner` with bars. `DhanBroker` stands where `PaperBroker`
does under LIVE, which `run_dhan.py` refuses to start at present.

What is hard: a restart between two methods of a tick; a pause at any moment; two copies of a
position; fills computed before peers are cancelled; clocks that jump over a slot; state that
lives per process where the rule is per day; answers of the Dhan server that are lost; a socket that is
replaced while another thread closes it. Every such place is listed with its line under `hazards` in
`PROJECT.json`.

## 2. Modules

| Module | Models | Used by |
|---|---|---|
| `Dicts` | Python dicts as functions with a changing domain | all |
| `Levels` | rounding to the tick, entry, stop and target of both legs | `StrategyRunner` |
| `StrategyRunner` | entry, exit, trailing and result as operators on a position record | `Orchestrator`, both bar engines |
| `PositionSizer` | lots under the risk budget | `Orchestrator` |
| `PaperBroker` | the broker's operations as operators on its orders and book | `Orchestrator` |
| `AnchorEngine` | day roll, reload, purge and capture as operators | `Orchestrator` |
| `Orchestrator` | the process: clock, tick, its methods, restart, pause | |
| `OcoBracket` | abstract specification: what the agent promises about the account | |
| `OrchestratorRefinement` | the refinement mapping from `Orchestrator` to `OcoBracket` | |
| `Drawdown` | `DrawdownTracker`, and the definition its result has to meet | `BacktestEngine` |
| `ExecutionEngine`, `BacktestEngine` | `on_bar`; the session loop and the equity | `BarReplay` |
| `BarReplay` | both engines on one stream of bars | |
| `OrderIntents` | `_place_with_intent`, the intent file, retries, reconciliation, the server | |
| `OrderJournal` | abstract specification: what the disk and the server may say of an order | `OrderIntents` |
| `TelegramPolling` | the poll loop, its offset, dispatch, stop and restart; `getUpdates` as external | |
| `CommandQueue` | abstract specification: what an operator's commands are promised | `TelegramPolling` |
| `MarketFeed` | `connect`, `close`, the reconnect loop of each thread, the callbacks; the websocket library as external | |
| `PaperBrokerProofs`, `StrategyRunnerProofs` | lemmas about operators | the next |
| `OrchestratorProofs`, `OrchestratorRefinementProofs`, `BarReplayProofs`, `OrderIntentsProofs`, `TelegramPollingProofs`, `MarketFeedProofs` | theorems | |
| `MC*` | instances for TLC | |

`Orchestrator` in detail. `pc` names the method of `on_tick` that runs next, `tick` the symbol
and price in hand. The methods are the actions `OnTick` (which includes `_maybe_close_bar`),
`UpdateRollingBar`, `MaybeCaptureAnchor`, `HandlePaperFills`, `MaybePlaceOcoPair`,
`PreSquareoffSweep` and `SquareOffAtClose`. A method writes at most one file, and nothing that
survives a crash besides, so that a restart *between* methods (`Restart`) covers a crash inside
one: the rest of a method's effect is lost either way. `now` is read once per tick, so
`AdvanceClock` waits for the tick to end; it moves by one slot, and ticks need not come in every
slot, so a slot may pass without a tick. The process's memory is the tuple of the source's
attributes; `issued` and `crashes` are history and no guard of the code reads `issued`.

`OcoBracket` is what that amounts to for the holder of the account. A symbol is flat, has two
opposite stop orders at rest (`Place`), or holds a position that starts with its stop behind and its
target ahead (`Fill`: one leg fills and the other is gone in the same step). The stop moves towards
profit only (`Trail`); a process places once a symbol and day; `WithdrawAll`, `Close` and `NewDay` end
the day; `Lose` is the death of the process, and of its paper account with it. `OrchestratorRefinement`
maps `resting` to the open orders at the broker, `held` to the broker's book, `filled` to the ids of
filled orders. The pairs, the files, the clock, the methods of a tick and the pause flag are gone:
every method is one of these steps or none.

`BarReplay` feeds each bar to `OnBar` and `SessionBar` together. `closed` is a set of trades keyed
by symbol, day and bar, `counters` the day's counters, `file` what `_persist` wrote last. `apart` is
history: the symbols for which the two engines may differ from the start of a session, because PAPER
carried a position over or its guard rails turned the symbol away before its first trade. `btEquity` is the
tracker of `_summarize`: the code walks the trades after the last session, the model records each as
it closes, in the same order.

`OrderIntents` splits a placement at its two waits: the request (`post`) and the write of the
answer (`ack`). The server may accept a request and answer with an id, without an id, with a 5xx
that is retried, or not at all; or not accept it. A pass of the reconciler is the call `reconcile`, which
goes through what it read as open (`todo`) one record at a time, while the server's orders move: it
refreshes the record (`Reconcile`) or puts it on the operator's list `out` (`HandOver`: a null id, or
`DhanHttpError`). Any other exception ends the pass and loses the list (`ReconcileRaises`).
`Crash` may come between any two steps of either.
`OrderJournal` is what is left of that without calls, attempts and answers: an intent is noted
(`Note`), the server accepts orders of noted intents as long as none is named (`Accept`), the journal
names one order of the intent and never another (`Name`), takes over a final status and keeps it
(`Settle`), and the server moves its orders on (`Move`). The mapping reads `noted`, `named` and `final`
off the intent file (all records, those with an order id, those with a final status) and `server` off the
orders with their status in the file's words. That one intent may get two orders is part of the
promise: the code makes no stronger one.

`TelegramPolling` keeps what Telegram does as `sent` and `confirmed`: an update is served until a
request carries an offset beyond it. `PollAnswered` fetches a batch, `DropUpdate` and `ExecuteUpdate`
handle its head; the offset advances first, whoever sent the update, and a provider or a `pause_setter`
that raises ends the batch. The command that raised has had its turn: it is in `log`, as its offset is
taken, though it gets no answer. `paused` is the poller's `state["paused"]`, which is written before
`pause_setter` is called. `stopped` is looked at between batches. `Restart` puts the offset, which is kept in
memory, back to 0. `log`, `base` (what was confirmed when the process began) and `crashes` are history.
`CommandQueue` is the same without batches and requests: a `queue` of updates, a `cursor` that goes
through it one by one, executing a command (`Execute`) or passing over a stranger's (`PassOver`), and
a point behind the cursor up to which the queue has been forgotten (`Forget`); a new process puts the
cursor back to that point (`TakeOver`). `sent`, the offset's position, `confirmed` and the ids of
`log` are mapped to the queue, the cursor, the forgotten part and what was done.

`MarketFeed` gives each call of `connect()` a thread of its own, as the code does, whether or not the
thread of an earlier call has ended. `pc` is where a thread is in `_run_loop`; `close()` is two actions,
setting the stop event and closing `self.ws`, between which the threads go on. Closing an app whose
`run_forever` has not begun does nothing, which is how the library behaves. `asked`, `missed` and
`connects` are history.

Abstractions.
- Prices are whole paise; rounding to the tick is modelled, binary fractions are not.
- The high and low of a rolling bar are never read and left out, as are timestamps kept for
  display, `filled_side`, the intents of paper orders and `levels.anchor`. A symbol and its security id are one.
- A file of anchors holds one date, as `_persist` leaves it.
- Rejections of `ExecutionEngine` are counted, not listed.
- What the cost model charges a trade is one number, `RoundTripCost`.
- Nothing in `src/` drives `on_tick` or `on_bar` but the tests (`run_dhan.py` says so), so quotes and
  bars are arbitrary members of the constants `Prices` and `Bar`.
- The orchestrator has its sizer, which `run_dhan.py` always attaches; the branch of `_size_for` without one
  (one lot) is left out.
- One caller of `DhanBroker` at a time; a request that the client gave up on does not arrive later.
- One owner of the feed: `connect()` does not come in the middle of `close()`. Packets are what they
  decode to.

## 3. Runs

Passing runs:

| Run | Instance | What it shows |
|---|---|---|
| `session` | 2 symbols (lots 1 and 2), 2 prices that cross both legs, 4 slots with the anchor, cut-off, sweep and close in different slots, 1 restart, fairness | no orphan order, no double exposure, disk = pairs, pairs live, flat after square-off, every fill accounted for; the day ends flat, also in a process that was restarted |
| `trailing` | 1 symbol in lots of 2, sized for 3 points where the stop is 4 before rounding, 2 days, 4 off-tick prices so that the stop locks twice, bars of 2 slots, a pre-open slot, a capture window of 2 slots, 1 restart | stops ratchet, trail behind the closed bar and do so in both copies of a position; anchors survive restart and day roll, and a pair placed on either day hangs off that day's anchor; a stop that is no further than the distance sized for risks no more than the budget; placing, filling, trailing, withdrawing, closing, the night and the death of a process are the steps of `OcoBracket` |
| `bars` | 2 symbols, 2 sessions of 4 bars (of the second symbol: 1), all bars over 6 prices around an off-tick anchor (both entries, the stop, two locks and a step back after the first, the target of the short, bars that span stop and target), a cap of 2 trades, a loss limit that one lost trade reaches, square-off at the last bar | the two engines agree up to the first exit; bounded loss, kept locks, a truthful file, truthful counters and drawdown, a bounded overshoot of the cap |
| `intents` | 2 intents, 2 attempts, 3 accepted orders, 1 restart | the intent is on disk before the order exists, lost answers surface, final states are true (of a pass that is cut off, too), an acknowledged order is never posted again; all of it is an `OrderJournal` |
| `feed` | 2 calls of `connect()` with different lists, any number of `close()`, 3 delays, fairness | after `close()` no connection is up but those it could not reach; a closed feed ends all its threads; an open one comes back with the latest list |
| `commands` | 3 updates of 2 senders, 1 restart, fairness | no command is lost or run out of order by a process, the pause flag follows the latest command, every command is executed unless the poller is stopped; all of it is a `CommandQueue` |

The bounds are the smallest at which each interesting thing happens and happens twice where
order matters: both legs can be crossed by consecutive ticks, a slot can be skipped, a restart can
fall between any two methods, the stop can lock more than once, one more order than
intents can be accepted, a second thread of the feed can meet the first. What a second restart adds in
`intents` and `commands` is covered by the theorems, which hold for any number of them. In `bars` the sessions are
uneven so that one symbol's last trade falls before the other's entry: only then does a guard rail turn
an entry away that the backtest takes. Deadlock is checked except in `bars`, `intents`, `parity` and `first_trade_peak`,
where the bars run out and every intent may be placed and final, in `commands` and
`kill_replayed`, where a stopped poller does nothing more, and in `feed`, where a closed one does nothing
more.

Fairness. `session`: `WF_vars(Handle)`: the feed's thread finishes a tick that it began.
`SF_vars(AdvanceClock)` and `SF_vars(TickOf(s))`: time passes and each symbol keeps being quoted,
however busy the handler is. The last two are assumptions on the market and not on the code; the
property is false without them, since a symbol is squared off by its own ticks only. `commands`:
`WF_vars(DropUpdate \/ ExecuteUpdate)` says that the thread goes through its batch, and
`WF_vars(PollAnswered)` that not every request to Telegram fails for ever; the loop in the code retries
without end. Sending, stopping and restarting need no fairness. `feed`: `WF_vars(Step(t))` and
`WF_vars(CloseEnds)` say that threads run and `close()` returns, which the operating system provides.
`SF_vars(OnOpen(t))` says that a thread that tries again and again gets a connection once, and
`WF_vars(Drops(t))` that no connection lasts for ever; both are assumptions on the network. The second
carries `ClosedFeedEnds`: a connection that `close()` could not reach ends with its network only.

Runs that end in a violation: each checks one sentence of a doc or a test against what the code does.

| Run | Sentence | What happens |
|---|---|---|
| `reentry_after_restart` | a restart does not double-issue orders (`tests/test_orchestrator.py`) | positions are not reloaded: after a fill and a restart a second pair is placed |
| `stop_not_executed` | PAPER uses `StrategyRunner` for TP/SL (`engine/strategy_runner.py`) | nothing in the PAPER tick compares a price with a position's stop |
| `next_day` | square-off closes any open position (`engine/orchestrator.py`) | per-day flags live as long as the process |
| `parity` | identical trade-by-trade results (`README.md`) | PAPER enters again after an exit, the backtest does not |
| `first_trade_peak` | the first trade establishes the initial peak (`engine/metrics.py`) | the peak starts at an equity of 0: a losing first trade is reported as a drawdown, as `tests/test_drawdown.py` has it |
| `kill_replayed` | the offset keeps a restart from re-executing `/kill` (`core/telegram_polling.py`) | the offset is in memory and acknowledged by the next poll only: a restart in between replays the batch |

Two more differences have no run. An intent without an order id is posted again after a restart: the
docs leave that to the operator, and the runs bound it (the intent is on file, and a pass of the reconciler that
returns reports it). `brokers/dhan/order_intents.py` lists five statuses of an intent in two comments (lines 27 and 44), while
`reconcile_pending_intents` also writes PARTIALLY_FILLED and UNKNOWN; `TypeOK` of `OrderIntents` states the
seven. `DrawdownIsWorst` counts the equity of 0 before the first trade among its moments, as the code and its test do.

Limits of properties that a reader might take for more. `PairUsesTodaysAnchor` speaks of pairs placed today: a pair that
nothing swept (the process was down) is reloaded by the process of the next day with the levels of yesterday's anchor, and
blocks its symbol until the sweep. `RiskWithinBudget` leaves open a stop further than the distance sized
for. `LostAckSurfaced` exempts a record with the empty id, which is refreshed as PENDING and reported to nobody.
`FlatAfterSquareOff` is about the first day of a process; the second is `next_day`'s. The
trade cap of the orchestrator has no property: trades are counted at square-off, after the last entry of
the day, so within a day the cap blocks nothing (see `hazards`).

## 4. Proofs

Every theorem holds for any values of the constants that satisfy the named assumptions of the modules.

**The orchestrator.** `OrchestratorProofs` proves `Safe`: `TypeOK`, `RestingOrdersArePaired`,
`ExposedOnce`, `DiskMirrorsPairs`, `BookMirrorsBroker` and `DayOrderKept`; and hence `FlatAfterSquareOff`.
`Safe` is inductive as a whole. A fill can only come from a resting order, so from a
leg of the tick's pair (`FillsAreLegs`, by `RestingOrdersArePaired`); while there is a pair there is
no position (`ExposedOnce`), hence the broker's book had no entry for the symbol
(`BookMirrorsBroker`), the fill creates it at the leg's trigger, and `modify_sl` and `modify_tp`
complete the copy. Restart needs `DiskMirrorsPairs`: the reloaded pairs are those of before, the
orders are gone. `FlatAfterSquareOff` is not inductive: that a squared-off symbol gets no new pair
follows from the order of the day, that the sweep has run before anything is squared off and
that nothing is placed after it. `DayOrderKept` says so, and `DayOrderAssumption` (the cut-off for new
trades is not after the sweep) is what it needs of the configuration. `PaperBrokerProofs` and
`StrategyRunnerProofs` hold the lemmas about the operators: what placing, cancelling and filling
do to the orders, what rounding to the nearest tick may move, what trailing does to a stop.

**The bracket.** `OrchestratorRefinementProofs` proves `Spec => ImplementsOcoBracket`: the initial states
map to initial states, and every method, restart, pause and move of the clock maps to a step of
`OcoBracket` or to a stutter. `Safe` is not enough for that; `Bracketed` adds
- `LevelsOnAnchor`: a tracked pair's levels are those of some anchor. Hence the long trigger lies above
  the short one, so a quote crosses one leg at most (`OneFill`), and a filled leg's stop lies behind it
  and its target ahead. `LegsApartAssumption`, `2 * TriggerDist > TickSize`, is what rounding to the
  tick needs: with less, both triggers may round to one price, and a single quote would fill both
  legs;
- `StopsBought`: a position's stop is its first one or the one that its lock step has bought, so that a
  higher lock step is a better stop (`StopsRatchet`, `StopsTrail`);
- `PlacedOnce`: a process that has placed for a symbol has its pair or position still, or it is too
  late to place (`OnePair`);
- `LegsShareSymbol`: the peer that a fill cancels is an order of the same symbol, also after a
  restart, when the ids of reloaded pairs name the orders of others.

The same module proves the rest of the `session` and `trailing` properties. `AnchorsStay` and
`PairsFollowAnchors` rest on `AnchorsInStep`: the anchors in memory are those of the file, or the process
has not looked at the file yet and will reload it on its first call of the day. On a later day the pair has to be told
from yesterday's: a tick's capture method rolls the engine before the tick can place (`RolledInTick`), so
the anchor under a pair that was placed today (`OnTodaysAnchor`) is of today in memory and on file. `LivePairs` follows from both legs
of a pair resting *for its symbol* while no restart has happened: then no fill, cancel or sweep of another
symbol can touch them. `AllFillsAccounted` adds up, step by step: a fill (one, by `OneFill`) adds one
position, a square-off turns one position into one counted trade.

`RiskIsBudgeted` relates the sizer to the stop. The quantity is computed from the symbol's own distance
(`meta.sl_dist or config.sl_dist`), the stop from the one `SlDist` of the strategy, rounded to the tick, and
they meet only in the position, several ticks later. `Sized` follows the quantity from the sizer through
the pair and the fill, and bounds the points at risk by the stop distance and half a tick, since trailing
only lowers them (`StopsRatchet`). Whole lots times the risk of a lot are within the budget
(`SizeFacts`), so the position is, as long as the stop is no further than the distance it was sized
for. Where it is further (a symbol with a tighter `sl_dist` than the strategy's, or a stop rounded away)
the code gives no such bound, and the property claims none. `SizerAssumption` says nothing but that
the settings are integers: a budget, lot or money per point that is not positive yields no order.

TLC checks the refinement in `trailing`, with one symbol, whose two days hold every step of the bracket;
the theorem is for all symbols.

**The bar engines.** `BarReplayProofs` rests on one invariant, `Sane`: every open position of either engine
is `Sound`: its stop and lock step are bought by its best close, the best close lies before the target
(a bar beyond it would have closed the position), and until the first lock the stop is behind the entry
by no more than the stop distance and half a tick. `LossBounded`, `LockedProfitKept`, `LockIsCurrent` and
`FileIsRecoverable` follow. `StopApartAssumption`, `2 * SlDist > TickSize`, is needed for the last: if the
stop could round onto the entry, locking break-even would move the index and not the stop, and the
file is written only when the stop moves. `TradesCounted` (each trade has its own symbol, day and bar, so that
`day_trades` is a cardinality) gives `CapIsOvershotByLess`. `SessionsAgree` proves the parity of
both engines up to the first exit, by a simulation symbol by symbol: equal positions and no trade yet,
or the same single first trade; `SameQuantityAssumption` says that the driver gives both the same quantity.
`DrawdownIsTrue`: the tracker keeps the peak as the highest equity, so that the fall from the peak is the
worst fall that ends now. `CountersAreTrue`: `day_trades` and `day_pnl` are the count and the sum of
today's trades, over day rolls, carried positions and rejected bars. The sum is a recursive function on the
subsets of a finite set. That it exists (`SumExists`), and that any element may be taken out of it
first (`SumRemove`), is shown without the library's induction theorems: the subsets for which it fails
have a smallest one under strict inclusion, which is well-founded, and that one leads to a contradiction. A
closing bar then adds one trade to today's, and the first bar of a day finds none of today's.

**The feed.** `MarketFeedProofs` proves `TypeOK` and `CloseReachesTheRest`. The strengthening: while the
stop event is set, a thread between its stop test and `run_forever` is one that the last `close()`
found there, since no thread passes the test any more.

**Order intents.** `OrderIntentsProofs` proves `TypeOK`, `WriteAhead`, `TerminalIsTrue`, `LostAckSurfaced`
and `NoRepostAfterAck`. The invariant follows a call to the file and to the server: while a request is out
its intent is on disk (`CallOnFile`); an answer in hand is one the server gave (`AckIsReal`), so an id on
disk is that of an order of this intent (`NamedIsReal`); a record still without an id is PENDING
(`UnansweredIsPending`), which is what lets the reconciler find it; and a pass under way has every record
with a null id before it or in its list, while what is before it stays open (`PassUnderWay`), hence `LostAckSurfaced`. `IntentsAreAJournal` proves `Spec => ImplementsOrderJournal` from
the same invariant, one lemma per action: a request on its way is `Accept` because its intent is on file
without an id, an answer written down is `Name` because it is the server's, a reconciled status is `Settle`
because `TerminalIsTrue`; everything else does not show.

**Commands.** `TelegramPollingProofs` proves `TypeOK`, `AckedIsExecuted`, `ExecutedInOrder` and
`PauseFollowsOrder`. The batch in hand is the run of ids that starts right after what the process has handled
(`BatchInSequence`, `OffsetKept`), the log of a process ends at its offset (`LogUpToOffset`), and what the
next request may acknowledge is executed (`ExecutedUpToOffset`, the strengthening of `AckedIsExecuted`).
`LatestIsASwitch` names the latest pause or resume, so that a further update either replaces it or
leaves it. `PollerIsAQueue` proves `Spec => ImplementsCommandQueue`: the head of the batch is the update after
the cursor (`BatchInSequence`), so handling it is `Execute` or `PassOver`; a request forgets what its
offset says and no more; a restart is `TakeOver`. The poll itself does not show.

Only model-checked: the liveness properties `EndOfDayFlat`, `FeedReconnects`, `ClosedFeedEnds` and
`CommandsAreExecuted`. Liveness under fairness is out of the prover's reach, together with `ENABLED` and
induction over data in general; every other property of the passing runs is a theorem.

## 5. Not modelled

With reasons, under `components` in `PROJECT.json`. In short: reporting (audit, costs, API), historical download,
start-up and configuration, and logging hold no state that a decision reads. The LIVE branches of the
orchestrator are unreachable while `run_dhan.py` refuses LIVE, and so are `DhanBroker`'s reads, `cancel_order`,
`modify_*` and `close_position`, which only those branches would call; the undated square-off intent is
listed as a hazard. The M1 replay of the backtest (`replay_intra_bar`) applies `evaluate_exit` to the
minutes of a bar: the exit rules are those of `BarReplay`, but a path of minutes under each bar
multiplies the instances beyond what a run finishes, so that the window's alignment is a hazard without a
property. A disk that refuses a write, in the middle of a tick, is outside the fault model: crashes,
restarts, pauses and lost messages are inside.
