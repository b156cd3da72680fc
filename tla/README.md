# Verification of trading-os

This directory holds TLA+ models of trading-os: how an order is decided, sent and
accounted for, what limits it, who can stop it, how a position is protected until
it is closed, and what runs around that: feeds and clock, the supervisor and the
end-of-day evidence, the cockpit and its research runs. TLC checks the models on
small instances; TLAPS proves every safety property and every refinement that a passing
run checks, for all values of the constants. What stays with TLC is liveness. Paths
below are relative to the repository root, `src/` is its Python package; of a file
named without a directory there is only one.

```
tlc  -config MCOrderRouter.cfg MCOrderRouter.tla     # a run
tlapm OrderRouter_proofs.tla                         # the proofs of a module
```

## 1. Inventory

trading-os is one asyncio process. Workers (strategy loop, tick feed, quote
feed, end-of-day gate, VaR, ...) are coroutines under a supervisor; Redis holds
flags and caches; brokers are reached by HTTP (`mt5_service` on the Windows box,
an OpenAlgo server for India). `scripts/run_paper.py` wires the same modules
against an in-process broker, `PaperBroker` behind `paper_server`, through
httpx's ASGI transport: there a "call" never suspends, so that nothing comes
between a request and its answer. A live entry point that assembles the desk is
not in the repository (`src/app.py` ends after the gate; "assembled on the VPS").

| Component | State | Operations | Correct means |
|---|---|---|---|
| `core/order_state_machine.py` | one `OrderRecord` per attempt: state, filled quantity, broker id, history | create, mark_sent, on_ack, on_fill, on_reject, on_cancel, on_timeout, reconcile_unknown (awaits), retry_as_new | books and state agree under late and repeated calls; only edges of `_LEGAL`; a retry starts from a confirmed absence |
| `core/order_router.py` with `connection_manager.py`, `broker_payloads.py` | the records above; httpx clients | route_order: halt check, pause, VaR, signal, session, guards, sizing, margin, then POST, timeout, lookup | what is booked was executed, exactly once; every call returns; nothing goes out once stopped |
| `core/kill_switch.py` | Redis `TRADING_HALTED`, sentinel file | kill_all, is_halted, unlock, auto-triggers | fail-closed; goes on past failures; reports all of them |
| `intel/anomaly_guard.py`, `runtime.py` | Redis `PAUSE_ENTRIES` with a TTL, last shock per symbol | process_tick, safe start, resume_entries | a shock or a live boot keeps entries out for as long as it should |
| `exits/exit_manager.py`, `exits/adapters/*` | `ManagedPosition`: state, stop, stop id, extreme, rungs taken, remaining, lock, bars without progress | attach, on_bar (ratchets, partials, lock, trail, time stop), manual exit, force_stop_change | what is held is covered by one stop that never loosens; no rung twice; no oversell; what goes nowhere is sold |
| `core/paper_broker.py`, `ops/paper_server.py` | positions, resting orders, cash | place, modify, cancel, close, on_tick; on the mt5 leg it picks the side of stops and closes itself | stops follow the position |
| `mt5_service/*` | registry of orders, in memory | order, lookup, stop, close, ticks | lookups tell the truth about orders |
| `ops/strategy_engine.py`, `strategies/signals.py` | sleeves with a ledger, whom each symbol belongs to, bars seen | on_tick, _evaluate_symbol, _enter, record_exit, set_enabled; thirteen signals over daily bars | one entry per new bar, its exit credited to its sleeve; no signal knows the day it trades |
| `core/guard_stack.py`, `budget_manager.py`, `ops/session_guard.py`, `ops/prop_rules.py`, `risk/portfolio_heat.py` | budget baseline, session start and latch, the firm's day, peak and breach | the guard of each entry; marks, flows, day rolls | limits hold at their boundary over marks, flows and day rolls; what was refused stays so |
| `core/position_sizer.py`, `margin_checker.py`, `order_slicer.py`, `transaction_cost_model.py` | none | the size of an entry, its margin, its slices, its cost | a size keeps to every limit at once |
| `src/app.py` | tasks, restart counts, heartbeat keys | start workers, restart, alert, shutdown; live gate | a dead worker is restarted, or given up on the record; no live trading without evidence |
| `ops/persistence.py`, `eod_worker.py`, `eod_reconciler.py`, `paper_report.py` | append-only logs with a hash chain; `gate_state.json` | append, verify, run_eod, advance_gate | a crash breaks no chain silently; the gate counts what happened |
| `ops/live_feeds.py`, `quote_feed.py` | last prices, candles, daily bars, strikes, rotation | tick_once: load, ask, strike, degrade, probe, recover | prices and candles of one source; a day is one edge; no symbol starves; a recovered provider is used |
| `ops/market_clock.py` | none | is_open, next_open, next_close, status | what it announces is what it enforces |
| `ops/cockpit_gateway.py`, `broker_settings.py` | audit log, settings overlay | kill, unlock, pause, resume, approve, close, order, toggle, save, test, run | an answer says what was done, or that it was declined, and the log too; an acknowledged setting stays |
| `ops/research_lab.py`, `scripts/research_replay.py`, `scripts/paper_replay_real.py` | run directories, the child process; the replayed stack | start, _reap, runs; the days of a replay | a shown result is one; a replay trades as the desk would |
| `scripts/run_paper.py` | wiring, callbacks | feed loop, manual tickets, pause, close | a button does what it says |
| learning, intelligence adapters, portfolio construction, risk reports | files and caches | offline or read-only computations | numerical, unit-tested |

**Interactions.** The feed loop gives each tick to the broker and each candle to
`on_bar`, then calls the strategy engine, which awaits `route_order`; a fill makes
it call `ExitManager.attach`, an exit calls back `record_exit`. The router drives
the state machine, asks the kill switch, the pause key, the clock and the guards,
and posts to a broker. The gateway's handlers enter and exit beside the engine.
The kill switch talks to the brokers directly, behind the router's and the exit
manager's backs. The guard, the safe start and the router share one Redis key. The
supervisor runs the end-of-day job, whose file the next live boot reads.

**Hard behaviours.** Every await is a place where another coroutine, the market or the
broker moves on: the answer of a lookup is applied to a record that has changed since; the
halt flag is read a dozen awaits before the order goes out; a stop triggers while it is
being replaced, or on a ticket's own tick; a ticket enters a symbol between a sleeve's check
and its fill; a guard decides on an equity it was answered a while ago. Calls time out after
they took effect. Redis goes away, or restarts empty. A process dies between two writes of
one file. `PROJECT.json` lists each such hazard with its line and the property that watches
it, or why none does.

## 2. Modules

| Module | Models | Composition |
|---|---|---|
| `OrderLifecycle` | what the rest of the system relies on: per order, a quantity that only grows, a verdict that stays | abstract specification |
| `OrderStateMachine` | `OrderStateMachine`, one action per method, `reconcile_unknown` split at its await | implements `OrderLifecycle` |
| `OrderRouter` | `_dispatch`, `_broker_lookup`, a caller that asks until it holds the symbol, and three kinds of brokers behind a link | extends `OrderStateMachine`, implements `OrderLifecycle` |
| `KillSwitch` | `kill_all`, `is_halted`, `unlock` against `route_order` and brokers, over a Redis that fails | composes kill switch, router and brokers |
| `EntryPause` | the pause key and all who write and read it | composes guard, runtime, cockpit and router |
| `ExitManager` | one position from attach to exit, engine, adapter, broker and market | composes exit manager, adapters, paper server, tick worker, supervisor |
| `DurableLog` | what a log promises its readers: it grows, or it is refused for good | abstract specification |
| `AuditLog` | `JsonlAuditLog`: one file, the processes that build and append to it | implements `DurableLog` |
| `PortfolioGuards` | the guard of an entry: budget, session, prop-firm and heat layers over one account | composes the five guards, fills and marks |
| `Formulas` | sizes, margin, slices | pure; checked beside `PortfolioGuards` |
| `Desk` | who enters and exits which symbol, and who is credited | composes strategy engine, feed loop, tickets, the book and the paper broker |
| `Signals` | indicators, signals, regime; what the engine and a replay decide | pure; checked beside `Desk`, used by `Replay` |
| `PaperBroker` | the broker's cash, average price, resting stops and equity, as a function of its calls | pure; checked beside `Desk` |
| `Supervisor` | `WorkerSupervisor`: the tasks, the monitor, shutdown | |
| `EvidenceGate` | `run_eod`, `advance_gate`, the live gate and the ramp over `gate_state.json` | |
| `Operations` | the end-of-day job as one of the supervised workers, process death and boot | composes `Supervisor` and `EvidenceGate` |
| `LiveFeed` | the round-robin and the batched live feeds over the replay feed | composes feed, fallback, provider and clock |
| `MarketClock` | sessions, next open, next close | pure; checked beside `LiveFeed` |
| `ResearchLab` | runs, their directories, processes and `_reap` tasks | |
| `Cockpit` | the gateway's control handlers, the settings overlay, the audit rows | extends `ResearchLab` |
| `Replay` | a replay's days: open, decision, entry, ticks, evening | extends `Signals` |
| `OrderRouter_proofs`, `KillSwitch_proofs`, `EntryPause_proofs`, `ExitManager_proofs`, `AuditLog_proofs` | theorems about the module they are named for, the first about `OrderStateMachine` too | each extends its module |
| `Desk_proofs` | theorems about `Desk`, `Signals`, `PaperBroker` | extends `MCDesk` |
| `PortfolioGuards_proofs` | theorems about `PortfolioGuards`, `Formulas` | extends `MCPortfolioGuards` |
| `Operations_proofs` | theorems about `Operations` with its two parts, `LiveFeed`, `MarketClock`, `Cockpit` with `ResearchLab` | extends `Operations`, `MCLiveFeed`, `Cockpit` |
| `MC*` | instances for TLC | |

An action is everything that runs from one await to the next. Prices, wording,
ids and logs are left out where no property depends on them. `PROJECT.json` maps
each definition to the lines it stands for. A type invariant is called
`...TypeOK`, or `...Shape` where only the proofs need it (`Cockpit`, `ResearchLab`); they
are theorems. The three proof modules that
extend an MC module do so to state the property of a run itself, which the run asks
over its own grid: the theorem proper is about any input and the run's is an instance.

**OrderStateMachine.** `state`, `filled`, `brokerId`, `retryOf` are the fields of
the records; `looking` says whose `reconcile_unknown` is awaiting. A method that
raises after it assigned something keeps what it assigned (`on_fill` assigns
`filled_qty` before the transition that may raise). Quantities are whole units,
the code compares floats with 1e-9. `LifecycleSpec` is the refinement
`OrderLifecycle` by the mapping of states to verdicts.

**OrderRouter.** `pc` is where a `route_order` call stands, `request`, `executed`,
`registry`, `reply` are the link and the broker: `executed` is the truth that no
one in the process can see. The MT5 service registers an order only after its
terminal has answered and forgets all of them when it restarts; an OpenAlgo
server answers without a fill and never learns our id (external: modelled from
the payloads and parsing in `src/`); the paper server is in-process, so that its
calls are neither lost nor delayed. The caller is the strategy engine's: it asks
again for a symbol whenever it holds no position in it. The checks before the
dispatch can only refuse, and are modelled as such in the two modules below.

**KillSwitch.** Each entry walks `idle -> sentinel -> checks -> dispatched`, each
kill `idle -> sentinel -> fetchOrders -> cancelling -> closing -> ... -> done`
over the legs in order, any call to a broker failing with or without effect.
`sealed`, `late` and `caught` are ghosts. `check_auto_triggers`, the cockpit and
the operator's script are all callers of `kill_all`.

**EntryPause.** One key, written by the guard's SETEX, by the live boot and by
resume; the cockpit's pause of the paper wiring writes another key. How a shock
is recognised is left open: any tick may be one. A paper Redis is a dict of the
process and ends with it; a live one keeps its keys.

**ExitManager.** `pos` is the `ManagedPosition`, `pc` the call its coroutine awaits,
`held` and `resting` the broker's side. `OnBar` is `on_bar` up to its next await,
in its order: flatten, stop hit, extremes, time stop, breakeven and first partial,
second partial, profit lock, trail; each answer goes on from there. Three venues:
the two paper adapters, where a call is answered at once and the feed loop gives
`on_bar` the whole current candle on every poll, and a remote OpenAlgo server,
where the market moves during every call and calls fail. A long position only: a
short is its mirror image. A call that fails has had its effect by then or never
has it (an effect that arrives after the failure was seen is not modelled here;
it is in `OrderRouter`). On a paper venue an exception ends the feed loop for good,
since `run_paper.py` starts it under no supervisor; a remote worker is restarted
`MaxRestarts` times (`app.py:121-134`).

**AuditLog.** `file` is what is on the disk, line by line, `rows` each process's
`_rows`. A build is `_load`, which refuses a line that does not parse or does not
chain. An append ends, or is cut: nothing, a piece, or all of the row is in the file,
with or without its newline, and its process dies or, since the callers only log
the error, goes on. Hashes do not collide, so that a row is known by a number. What
fsync promises is taken as given, for the file and for its directory entry, which
the code does not sync.

**PortfolioGuards.** `check` is where each symbol's entry stands: asked, answered
with an equity, admitted, open. `Decide` is the whole guard: a layer that refuses
ends it, and the layers behind it neither look nor latch. Money is whole units and
percentages are multiplied out, so that a comparison at a boundary is exact, as the
code's is up to rounding. The operator's session and the firm's day roll half a
day apart. `traded`, `crossed`, `peak`, `last` are ghosts: what the guards should
know, kept without their latches. `Formulas` computes sizes on whole lots.

**Desk.** `pos` is the book, `held` what the broker holds of a symbol, net, and `orphans`
the stops nobody owns, by the side of the lot they close; of the position's own stop `pos`
keeps the same, 0 when it no longer rests. A lot is one unit, long or short, each symbol is
on one leg. On the mt5 leg neither a stop nor a close says a direction, the server takes it
from the net position (`Closes`, `paper_server.py:90-104`, `:128-134`); on the india leg the
book says it. `Enter` is attach over what was there: `positions.pop` first, so that a second
entry leaves the first lot and its stop behind. `PhantomStop` is `on_bar` finding the stop
in a candle from before the entry, `WrongStopFires` a stop that faces the other side, where
`on_bar` sees none hit. An exit of our own sells (`MarketOut`), or is a buy for which the
cash is not there: the mt5 leg says so in a 200 that nobody reads (`Overlooked`), the india
leg answers 400, and `_exit` raises before `on_exit` (`ExitRaises`): out of the feed loop,
which is then over (`Dead`), or as the operator's 500. A ticket gives the broker a tick of
its own (`Primes`, `run_paper.py:322`), on which resting stops may fire. On the paper venue
the handlers run to their end but for `asyncio.gather` in `route_order`; before and after it
are different actions, for the engine and for a ticket. `late`, `lost`, `opener`, `parted`,
`astray` and `stale` are ghosts. `Signals` says what a sleeve may want, on bars of whole
prices, with the lengths of the windows as constants (the code's 20, 50, 21, 63, 2, 4 and 14
are the values of the source).

**PaperBroker.** A broker is a value and a call maps it to the next: a tick, a market
order, a stop that rests, is moved or withdrawn. What the engine above sees of it
is in the modules that race with it; here is its money. Slippage and costs are a
constant per unit, prices whole, an average price a fraction. `flipped` is a ghost.

**Supervisor, EvidenceGate, Operations.** The monitor's sleep, its heartbeat per
worker and its alert are its three awaits; shutdown may begin at each. A supervisor is
built with an `alert_fn` or without (`wired`); `build_runtime` passes on what
it is given, None by default, and `run_paper.py` gives none.
A worker given up is in `events` first, then, if `wired`, alerted or the alert
raises, and only then forgotten: `notice` says how far that went. A run of
the end of the day is `reconcile`, `advance_gate`, in live mode a second write of
the same file, then the report; it is left at any of them when its task fails or
is cancelled, or its process dies, and a write that is cut leaves a file that does
not parse. `history` is the file's own list of runs; acknowledgements are set by a
human. The loop that calls `run_eod` is not in the repository (`DEPLOY.md:68`,
`README.md:81` name it): `Operations` takes it as any worker.

**LiveFeed.** A price is the candle bucket it is booked in, a daily bar its date.
`tick_once` is an action up to its request, another for each answer: an error, no price, a
price, a probe. `weather` is what the provider does; it changes at any time. Of
`run_paper.py`'s chain OpenAlgo → Yahoo → replay (`:132-140`) it is one link, with the
replay for whatever is below. `MarketClock` counts slots from a Monday, local time is a
shift.

**Cockpit, ResearchLab.** A handler screens its request, calls its provider, audits and
answers; it may wait before its provider acts, and for a run until its process is created.
What the providers do is the matter of the modules above; here a deed happens, is declined,
or raises with or without having happened (`Reports`, `Raises`): a ticket that the router
turns down and a broker test that fails are 200s whose body and row say so
(`cockpit_gateway.py:287-297`, `:413-419`). A close that returns says nothing of what the
mt5 leg did. `answer` is what the last step told the operator. `overlay` is what the
settings file reads as; a save truncates it before it writes, and one that is cut leaves
none of it or a part (`Torn`). `ResearchLab` keeps `_proc`, the `_reap` task of each
process, and the one thing they share, the reader of the child's output.

**Replay.** The two replays differ in their decision (`Script`); both let the
broker see the open, decide, route, play four windows of ticks and advance the
gate. It uses the very definitions of `Signals` the engine uses, with other
indices.

## 3. Runs

| Run | Instance | Shows |
|---|---|---|
| `osm` | 2 attempts of 3 units, 1 broker id | `BooksAgree` and the refinement `LifecycleSpec`, under every order of calls, late, repeated and stale ones included |
| `router` | 2 orders for one symbol, each kind of broker | `SettledBooksExact`: FILLED and PARTIAL are exact (that nothing is booked beyond what was executed, `BooksWithinTruth`, is proved); `BookedOnce`: one booked order per symbol; `LifecycleSpec`; `RouteReturns`: every dispatch ends |
| `kill` | 2 entries, 1 kill, 1 unlock, 2 legs, Redis that restarts empty | `LateEntryRefused`, `KillAccounts`, `KillCompletes` |
| `pause` | 2 symbols, 2 entries, cool-off 2, time to 5 | `ShockHolds`, `SafeStartHolds` |
| `exits` | one position of 2 or 4 lots on each venue, 5 prices, 2 trails, up to 2 failures, 1 restart | `StopNeverLoosens`, `PartialOnce`, `Protected`, `NeverOversold`, `CleanExit`, `FreesCapital` |
| `audit` | 2 processes, 5 appends | `NothingSilentlyLost` and the refinement `LogSpec` |
| `guards` | 2 symbols, 4 values of the account, a withdrawal, 3 half days | `HeatBounded`: open risk and what is on its way stay under the cap, but for entries that passed together; `BudgetIsTradingOnly`; `RefusalsHold`: a line once met admits nothing more; `RoomBeforeLine`: the firm's line is never the first one met; `SizesKeepLimits`, over a grid of entries |
| `desk` | 2 symbols, one of each leg, 2 sleeves, 2 entries and one on its way | `LotsCovered`: every lot has its stop and every stop its lot, what the book forgot included, up to three things that put a symbol astray; `LedgerBalances`: each entry is closed, claimed or lost with an exit that raised; `CreditedToOpener`; `SignalsDoNotLookAhead`, over all histories of 5 bars of 5 shapes; `EquityIsTrue`, after all sequences of 4 broker calls |
| `operations` | 2 workers, one restart each, with and without an `alert_fn`, 5 runs of the day's end | `GateIsHistory`, `LiveEarned`; `DeathNoticed`: restarted, or given up in the events and, where one is wired, with an alert |
| `feeds` | 3 symbols, 2 strikes, 3 candle buckets over 2 days; 8 slots a day for 2 weeks | `TicksMeetTheirCandles`, `OneEdgePerDay`, `NobodyOvertakes`, `Recovers`; `ClockKeepsItsWord` at every slot |
| `cockpit` | 2 handlers, 2 settings, 2 starts within 2 seconds, 2 deeds at a time less the starts made | `AnswersAreTrue`: body, row and deed agree, and no save loses another's setting; `DoneIsTrue`; `RunSettled` |
| `replay_lookahead` | a channel breakout on 6 bars of 4 shapes | refutes `DecidedAtTheOpen`, see Divergences |

Pure definitions (`Formulas`, `Signals`, `PaperBroker`, `MarketClock`) are checked beside a
state machine they belong to: what is asked of them does not depend on the state and is
evaluated in the initial ones, over the whole grid the MC module defines.

**Bounds.** `Orders` is finite and each order is used once, so that counters need no cap:
two attempts suffice for a retry and for a second order that meets the first one; orders of
different symbols do not share state. Three units give two partial fills and a completing
one. Two legs make the kill go on past a failing one; two entries let one rest, or be held,
while the other is being checked. `MaxTime` 5 with `Cooloff` 2 lets two cool-offs overlap
and a third begin. The prices of `ExitManager` are the least that tell its thresholds apart
and gaps over any of them happen; four lots carve one per partial and two lots none; both
trails and `MinStep` 2 make a ratchet too small to be made. `MaxFailures` 2 lets a call fail
again after the worker was restarted; with `MaxRestarts` 1 it is then given up. Two
processes fork a chain; five appends put acknowledged rows before, on and after a torn line.
In `kill` one entry is put on the first leg, since nothing tells the entries apart.

`guards`: each value of the account lies beyond another line, reached in one move or in
several; half days 0, 1 and 2 roll the firm's day and the operator's once each, at different
times; two symbols let two checks pass before either position counts. `desk`: two entries,
and a third that was on its way, put a second and a third lot over the first, of either
side, by sleeve and ticket in either order, and let a sleeve trade after another's exit; one
symbol of each leg is all that tells the legs apart; the windows are cut to one to three
bars so that on five every signal fires; four calls of the broker open, add to, partly
close, turn and reopen a position, and a stop is moved and met by a gap. `operations`: three
clean days, the last two in a row, open the gate, also over a dirty one, one live day ends
the ramp, five runs leave room to fall back; one restart reaches the giving up. `feeds`:
three symbols tell rotation from alternation, two strikes a failure from a degradation,
three buckets hold a closed market between two open ones and a day roll. `cockpit`: two
requests are the least that overlap, at one await each, two settings the least of which one
can be lost; deeds and runs share nothing, so that each start takes a deed's place.
Bounds of the models are marked in their CONSTANTS.

**Deadlock.** `osm`, `guards`, `desk`, `feeds` and `cockpit` are checked
for deadlock. The others say CHECK_DEADLOCK FALSE: orders and calls are used once,
clocks and runs stop at their bound, a closed position has nothing left to do on a remote
venue, a damaged log cannot be built again and a replay ends, so that a finite
instance comes to rest.

**Fairness.**
- `OrderRouter`: weak fairness of each call's own answer, timeout and lookup failure. Every
  request of `ConnectionManager` has a timeout of 5 seconds, and the paper broker
  (`PaperExecute`) answers in the process. None for remote brokers: an execution may never
  come.
- `KillSwitch`: weak fairness of each kill's next step. Each await of `kill_all`
  ends with an answer or an exception. None for routes, Redis, unlock.
- `ExitManager`: weak fairness of the awaited call, of the supervisor's restart of a remote
  worker (`app.py:117-134`), which is enabled `MaxRestarts` times and never on paper, and of
  the market's ticks, without which no bar comes. It does not assume which prices
  come. `FreesCapital` is about what the broker holds. It relies on prices being bounded, so
  that new extremes end, and it ends where a person has to act: the worker is given up, the
  exit order itself has failed, or the lot was taken for stopped out (see Divergences).
- `Operations`: weak fairness of the monitor's steps and of a cancelled task's end:
  the event loop resumes what is ready, and the alert and the heartbeat catch what
  they call. None for a loop's end, for death or for boot.
- `LiveFeed`: weak fairness of the loop's next tick (`run_paper.py:242-252` runs for
  ever), of the answer (every client has a timeout), of the gap and the clock. None
  for the provider: `Recovers` assumes in its own premise that it answers for good.
- `Cockpit`: weak fairness of the creation of a process under way, and of a
  replay and its `_reap`: a replay goes once over a recording. None for requests, deeds and
  restarts.
- `EntryPause`, `AuditLog`, `PortfolioGuards`, `Desk`, `Replay`: none, they have only safety
  properties.

## 4. Proofs

Every model has theorems but `Replay`, whose run refutes its property; of `DurableLog` and
`OrderLifecycle` it is proved that others implement them. A theorem of the form `Spec =>
[]Inv` rests on an inductive invariant `...IInv`, which TLC checked first, a lemma for each
action (`...Keeps`) and one that puts them together (`Step...IInv`). None of the properties
below is inductive alone.

**Orders.** The first part of `OrderRouter_proofs` proves, for any set of orders and
quantities, that

- `Spec => []IInv`, `IInv == TypeOK /\ LookedUpExist /\ BooksAgree /\ RetryFromAbsence`.
  `LookedUpExist` (only a created order is looked up) is what makes the tail of
  `reconcile_unknown`, which looks at nothing before it writes, type correct.
- Every step changes an order in one of two ways (`Effect`): keep the books and take
  an edge that books nothing, or book more and take the edge for that. `StepEffect`
  shows it action by action; `LegalSteps`, `BooksAgree` and the refinement follow from
  it (`BooksAlwaysAgree`, `RetriesOnlyAbsence`, `StepsAreLegal`, `ImplementsLifecycle`).

Its second part proves `RouterSpec => []RouterIInv`, with
`RouterIInv == RouterTypeOK /\ Stages /\ BrokerTruth /\ Bookings /\ OneAtATime`:

- `Stages`: what the record is at each stage of a route;
- `BrokerTruth`: an answer on its way, or in the registry, tells exactly what a
  settled execution executed; that is why booking it is right whenever it comes;
- `Bookings`: what is booked is executed, settled and accepted;
- `OneAtATime`: of the orders of a symbol at most one is being routed or booked.

`BooksWithinTruth` needs `BrokerTruth` for the answer that is adopted, `BookedOnce`
needs `OneAtATime` and `Bookings` (a symbol is claimed by an accepted fill). The steps
are split into those of the brokers, which leave the process alone, and those of the
caller. From it follow `NothingBookedUnexecuted`, `SettledIsExact`,
`BookedOnceAlways` and, since every router step is a state-machine step or a
stutter of the abstract verdict, `RouterImplementsLifecycle`.

**Stops.** `KillSwitch_proofs` proves `KillSpec => []KillIInv` for any number of entries,
kills, unlocks and legs. Two arguments meet in it. For `LateEntryRefused`:
`Sealing` says that the sentinel file outlives the seal and the seal the late
entries, so that the second half of `is_halted` still finds the file however
Redis answered the first. For `KillAccounts`: `Accounts` says of everything a kill
found that it is explained or still ahead of the kill (`Ahead`): on a leg to come,
or on the current leg and on the list it works on, or open but certain to be
listed as a position. The obligations follow the kill from fetch to fetch
(`FetchKeeps`, `WorkKeeps`, `NextLegKeeps`) while the brokers and other kills
move its orders (`OthersKeep`). Leaving the last leg, nothing is ahead.

`EntryPause_proofs` proves `PauseSpec => []PauseIInv` for any cool-off and clock.
`KeyCovers` is the strengthening: the key expires no earlier than any cool-off that
is not over, and never while the boot's pause stands. It fails for the operator's
pause, see Divergences.

**Exits.** `ExitManager_proofs` proves `ExitSpec => []ExitIInv` for every entry, quantity,
threshold, trail, venue and number of failures. `Stations` says at which await the
coroutine may stand in which state of the position; `Carving`, what the rungs taken
have left of it and that none was asked for twice (`PartialOnce`); `BookLeads`, that
the trigger at the broker is never above the stop of the book, which is what a
retried ratchet may rely on (`StopNeverLoosens`); `Cover`, for every call awaited,
what the broker holds and has resting, as long as no call has failed
(`Protected`, `CleanExit`). `PaperCover` says the same of the paper venues whatever
happens, since there a call cannot fail but by finding no stop; `NeverOversold` speaks of
these venues only. A bar is
followed down its order of checks (`Ready` is a position on its way through the
engine), and each answer goes on from there with the same lemmas.

**Audit log.** `AuditLog_proofs` proves `AuditSpec => []LogIInv` for any processes and
appends, and the refinement of `DurableLog`. A row is chained to the last one its
process knows, and rows that load are in the order of their trying (`InOrder`): a
process whose new row still fits knows the whole file (`KnowsAll`), and the row of any
other damages it for good. Hence what is acknowledged is within what loads
(`AckedWithin`), what is shown begins it (`ShownBegins`) and, as long as no append
was cut, is all of it (`CalmIsComplete`).

**Desk, signals, the broker's money.** `Desk_proofs` proves `DeskSpec => []DeskIInv` for any
universe, legs, registry and number of entries, in four parts. `LotsHold`: on a symbol that
is not astray each lot has its stop, the position's own stop faces its side, and on the mt5
leg all lots are of one side; that is why there the net position tells the side of each of
them, and an entry against it is what ends the argument. `CreditsHold`: a claim that is not
stale lasts no longer than a position, and where no entry was booked over one, names its
opener. `ActorsHold`: a sleeve awaits its route only on an unclaimed symbol or one with a
stale claim, although the operator may enter it meanwhile, and there is room for the entries
on their way. `LedgerHolds` balances because a claim made or dropped changes the number of
claims by one, a lemma about cardinalities, and because a claim that is overwritten was
stale, its exit counted as lost. `SignalsLookBack` says that each of the thirteen signals
takes the same direction on any two histories that agree before the current bar, for any
windows and thresholds: every indicator is a fold or a CHOOSE over windows that end before
it, so that the proof is one of congruence, indicator by indicator. `EngineLooksBack` adds
the regime and the range, as the engine computes them; a replay's are computed otherwise,
see Divergences. `EquityIsAlwaysTrue` says, of any finite sequence of calls of a broker,
what `EquityIsTrue` says of four of them. Its invariant is `Money`: after each call, cash
and position are what the fills are worth *at every price* (`Tallied`), and a position that
is closed, or short without having been turned, has average zero (`Nought`). That a fold
keeps it is shown by taking the greatest position off a set of positions (`Positions`),
since `FoldLeft` is defined that way.

**Guards, sizes.** `PortfolioGuards_proofs` proves `GuardSpec => []GuardIInv` for any
symbols, percentages, values of the account and flows. `Latched`: a line met is latched
or is no concern of the mode; `Accounted`: the account is the baseline, the flows and the
trading; `OnePlace`: the risk of an entry is counted once on its way from check to
position; `RoomLeft`: at the highest mark since the last admission our own lines keep
back what they should. `HeatBounded` is about sums over a set that entries join and
leave; the sums are followed by induction over sets (`FS_StrictSubsetOrderingWellFounded`).
`SizesAlwaysKeepLimits` is about any limits and any entry. A size is rounded down more
than once and each limit is a product with a percentage: the lemmas say what rounding
down keeps, and the denominators are cancelled last. `SlicesAlwaysAddUp`: all slices but
the last are equal, and the last is what is left.

**Around the loop.** `Operations_proofs` has four parts. `OpsIInv == SupervisorIInv /\
GateIInv`: a counter that is written later than the history is never ahead of it since the
run that owes it is remembered (`LiveOwed`), through failure, cancellation and death between
any two writes; the history only grows, so that what a boot was granted on stays true of its
beginning. `NoneDroppedUnrecorded`: no worker is forgotten before it had all its restarts
and stands in the events, nor, where an `alert_fn` is wired, before that was called.
`FeedIInv` has `LineUp`: whoever was asked since a symbol began to wait is behind it in the
line, which each turn permutes and never reorders (`NobodyOvertakes`); and `Bars`: the edges
of a symbol are bounded by the date of its last bar (`OneEdgePerDay`). `ClockAlwaysAgrees`
is about any hours, weeks and holidays, in any slot: a slot is divided into a day and its
rest, the next open is the least of a set that the search finds. Its hypothesis `OpensAgain`
is that a session of India begins within the year that is searched; the code raises
otherwise. `CockpitIInv == LabIInv /\ DeedIInv`: what awaits its row is done or declined as
it will say, a setting among it is on the disk (`DeedShape`), from which
`AnswersKeepTheirWord` follows, what it says of acknowledged settings included; a run that was alone has the
reader and the process of its own (`Alone`, `Waiting`), so that what its `_reap` writes is
how its replay ended (`EndsAreKept`), although every `_reap` waits for whatever `_proc`
names when it wakes.

**Assumptions.** Those of the modules, no more; TLC evaluates them on each run. They
name the sorts of the constants (`OrdersAssumption`: quantities are positive, the "no id"
value is not an id; `UnlikeRows`: what stands for a torn piece or a refusal is no row;
`DeskAssumption`: no sleeve is called "manual") and the order the code's configuration
has (`ExitAssumption`: the stop is below the entry and the entry below breakeven;
`ClockAssumption`: a session opens before it closes and the forex week does not wrap,
see Divergences; `GuardAssumption`: percentages are percentages). Two theorems have a
hypothesis of their own: `ClockAlwaysAgrees` (`OpensAgain`) and `NeverOversoldOnPaper`
(`TRUE \notin Flattens`: no bar falls under the weekend flatten; no caller in the
repository asks for one, see Divergences for what happens otherwise).

**What the proofs changed.** Two definitions had CASE arms that overlap, where TLC
takes the first and TLA+ leaves the choice open: the average price after a fill and the
gateway's screen. They are chains of IF now, in the order of the code.

**Only model-checked.** The liveness properties `RouteReturns`, `KillCompletes`,
`FreesCapital`, `DeathNoticed`, `Recovers`, `RunSettled`: the prover does not reason
about ENABLED, hence not about fairness. `DecidedAtTheOpen` is refuted.

## 5. Divergences

What the repository says and its code does not do. The first is the run
`replay_lookahead`; those with a property in parentheses are stated in their module
and TLC refutes them there when they are put into the run's cfg; the others were met
while the code was modelled.

Orders, stops and halts:

- A replay decides at the open with the regime and the range of the whole day
  (`research_replay.py:291-292`); `signals.py:9-10`: "no lookahead". The engine takes the
  day before (`strategy_engine.py:150`), "reproduced verbatim" (`:46-47`). A wide day
  later on keeps the replay out of the entry at its open (`DecidedAtTheOpen`).
- FAILED_NOT_PLACED is "proven not at broker" (`order_state_machine.py:11-12`,
  `README.md:23`). A 404 overtakes the execution, since the service registers an order
  after its terminal answered (`aiomql_impl.py:53-57`), or the service has restarted,
  or the broker was never told our id (`AbsentMeansAbsent`).
- "Unknown order state = no retry until reconciled" (`MASTER_BUILD_SPEC_V2.md:581`,
  `DECISIONS.md:12`). One lookup that fails leaves UNKNOWN (`order_router.py:269-273`); the
  engine finds no position and sends another order on the next bar
  (`strategy_engine.py:180`; `NoRetryWhileUnknown`).
- "kill_all cancels every open order and closes every open position"
  (`kill_switch.py:6`). An entry that is past the halt check (`order_router.py:150`) is
  dispatched after the kill has listed what was open (`:265`; `FlatAfterKill`).
- Pause and resume of entries (`MASTER_BUILD_SPEC_V2.md:470`), "no TTL - explicit resume
  only" (`runtime.py:172`). The paper cockpit writes `pause_entries`
  (`run_paper.py:392`), the router reads `PAUSE_ENTRIES`; a shock gives the live pause a
  TTL (`anomaly_guard.py:190`; `OperatorPauseHolds`).
- "The BROKER-resident stop already closed the remainder" (`exit_manager.py:181`).
  `on_bar` is given the whole current candle (`run_paper.py:255-259`), with extremes from
  before the entry; the book is closed, the lot and its stop stay (`StopHitIsFlat`).
- "One open position per symbol, ever" (`strategy_engine.py:13`). `place_order` pops the
  position without a look (`run_paper.py:329-330`), and a ticket and a sleeve may be in the
  router at once (`OnePositionPerSymbol`). `LotsCovered` is what is left of it.
- "Protective stops and closes act AGAINST the open position" (`paper_server.py:91-92`),
  "stop resident at broker immediately" (`exit_manager.py:88`). The mt5 leg goes by the net
  position, the book by the last entry: a sell ticket over a long rests a SELL stop above
  the price, which sells once more (`StopFacesItsLot`).
- An exit is final: EXITED is set and the stop cancelled before the order is sent
  (`exit_manager.py:180-196`). A short's buy-to-close for which the cash is not there is
  refused (`paper_broker.py:102`). On the india leg `_exit` raises, `on_exit` is never
  called, and the symbol's claim stays until the next one overwrites it; the feed loop ends
  with it, unless it was the operator's close. On the mt5 leg `/position/close` answers 200
  with `ok: false` (`paper_server.py:134`), which nobody reads, and the exit is booked and
  credited. Either way a lot stays without owner and stop (`FlatWhenExited`).
- A ticket's `broker.on_tick` (`run_paper.py:322`) may fire a stop of the position: the feed
  loop goes on managing it. A ratchet then gets a 400 and ends the loop, an exit
  only logs that the stop is gone and sells again (`FlatWhenExited`).
- `run_paper.py`'s feed loop, which drives the exits, is under no supervisor: whatever
  `on_bar` raises ends it, while the cockpit still shows its workers as up (`:295-298`).
- `set_stop` of the MT5 service sends a new SELL deal with an `sl`
  (`aiomql_impl.py:67`), where the exit manager expects a stop.
- A stop that the broker has already triggered is not sold again (`exit_manager.py:181`,
  above). `on_bar` looks for the weekend flatten before it looks for the stop
  (`exit_manager.py:232-236`): on the bar of the hit the cancel of the stop fails, that is
  passed over, and a second sell goes out. No caller passes `crypto_weekend`, so that
  `NeverOversold` holds as wired; with `Flattens = {TRUE, FALSE}` TLC refutes it.
- The feed loop calls `on_bar` on every poll with the same candle: the time stop counts
  polls, not bars.

Feeds, clock and research:

- Live daily bars end with the bar that has just been opened, flat (`live_feeds.py:163`),
  and the engine appends another. For the signals "yesterday" is that flat bar: `vbo`,
  `oops` and `gsv`, which need it to have moved, never fire on a live feed, the other
  windows are one day short; "the exact interface" of the replay
  (`live_feeds.py:3`) does not do so.
- The price a successful probe brings is dropped. Daily histories that fail to load once
  are not asked for again.
- "One run at a time" (`research_lab.py:11`). Two starts pass the check before either
  has its process (`OneRunAtATime`); two that start in one second share a directory;
  the `_reap` of one of two may fail on the other's reader and leave "running" for good, as
  a restart does.
- The replays' reconciliation compares the broker's tradebook with itself, and each
  evening counts as a clean day without it.

Evidence and operations:

- The audit log survives restarts, "a crash cannot lose an acknowledged row"
  (`persistence.py:3-5`). A cut append leaves a torn line; every later load raises
  (`SurvivesRestart`).
- A day's end that is run twice is counted twice. Nothing in the file tells the days
  apart.
- A worker that shutdown cancels while the monitor is in its for loop is started again
  (`app.py:110-134` looks at `_stopping` only between rounds), and outlives the gather.
- "A dead exit-manager loop must never go unnoticed" (`app.py:9-10`). The alert is sent `if
  self.alert_fn` (`app.py:123`), which is None by default in `build_runtime` and in
  `run_paper.py`; one that raises is logged. The worker is given up all the same, and only
  `events` says so (`NobodyMissesADeath`).
- The heartbeat key is set for dead workers too (`app.py:114`), which `DEPLOY.md:80`
  says to check for them.
- Every control is "double-confirmed" (`cockpit_gateway.py:6-7`): kill, unlock, close,
  order and enable are; pause, resume, approve and disable are not. An audit append that
  fails leaves the effect, unaudited, under a 500.
- A settings overlay cut while it is saved reads as none or a part of what it was, settings
  of earlier saves included (`broker_settings.py:146`, `:71-77`).
- A close that the mt5 leg declined is answered and logged as a close
  (`cockpit_gateway.py:386-393`).

Numbers:

- A fill that turns a long position short gives it an average price
  (`paper_broker.py:138-139`), which `equity` then counts in the unrealized profit of a
  position whose proceeds are all in cash (`:165-172`): the equity that the guards and the
  day limits see is too high by the quantity at that price. A short that was opened from
  flat has average 0 and is right. `EquityIsTrue` excludes the case.
- The last slice of an order, or all of them when `max_slices` is reached, may exceed the
  wanted participation (`order_slicer.py:41-50`); nothing in `src/` calls it yet.
- The VaR keys expire when the next report is due (`var_worker.py:124`, `:135`), so that
  entries are refused in between.
- `tsmom_f` measures its distance from the average relative to the price and
  `accurate_ls` keeps only its long side out of a range: neither is symmetric.
- The forex week of the clock cannot wrap around its Sunday.

## 6. Not modelled, and the plan

Not modelled: transaction costs, VaR and Greeks, which keep no state and which nothing
here decides on but as refusals; learning, reports, risk optimisation and
language-model adapters, which run beside trading on finished data; authentication
and views of the cockpit; parsing of providers' answers; stops of a live MT5 terminal
(see above); `to_snapshot`/`restore`, which nothing under `src/` calls to persist
anything; the reconciler's comparison of trades, of which the gate sees one bit; the
key-value store next to the audit log; `data/*`, which no feed uses.

Left to model or to prove: a short position of `ExitManager`, as a second instance of one
module with a direction; an OpenAlgo effect that arrives after its failure was seen, in
`ExitManager` as it is in `OrderRouter`; two symbols in one broker's cash; the trading of
`Replay` (its budget and its evenings) as an invariant of its own.
