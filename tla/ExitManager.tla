----------------------------- MODULE ExitManager -----------------------------
(***************************************************************************)
(* The life of one position under the exit manager                         *)
(* (src/src/exits/exit_manager.py), from the fill of its entry on: the     *)
(* stop attached at the broker, the ratchets, the two partials, the        *)
(* profit lock, the trail, the time stop and every kind of exit. Around it *)
(*   "paper_india"  the OpenAlgo-style adapter on the paper server, the    *)
(*   "paper_mt5"    MT5-style adapter on the paper server: both run in our *)
(*                  process, a call is answered before anything else runs, *)
(*                  and run_paper.py's feed loop calls on_bar on each tick *)
(*                  with the whole current candle;                         *)
(*                  an exception ends that loop, which nobody restarts;    *)
(*   "openalgo"     the OpenAlgo-style adapter on a remote server: the     *)
(*                  market moves during every call, a call may fail, with  *)
(*                  or without effect, and TickFeedWorker, restarted by    *)
(*                  the supervisor until it gives the worker up, calls     *)
(*                  on_bar with windows of ticks.                          *)
(*                                                                         *)
(* The position is long. A short one is its mirror image but for the order *)
(* that closes it, which a paper account may refuse for want of cash: that *)
(* is in Desk. Prices are whole steps, quantities whole lots. One action   *)
(* is what runs from one await to the next; a call that fails has had its  *)
(* effect by then or never has it.                                         *)
(***************************************************************************)
EXTENDS Integers

CONSTANTS
    Venues,          \* those of the three above to look at
    Quantities,      \* filled quantities of the entry
    Prices,          \* bound of the model: the prices the market can take
    Entry, InitialStop,
    AtBreakeven,     \* price of breakeven_at_r
    AtSecond,        \* price of partials[1].at_r
    Pct,             \* pct of both partials
    LockAt, LockLevel, LockTrail,   \* profit_lock, as prices
    Trails,          \* k_trail * ATR, over regimes, event windows and weekends
    Flattens,        \* whether on_bar finds a weekend to flatten for: no caller in
                     \* the repository passes crypto_weekend, so {FALSE}
    MinStep,         \* min_ratchet_step_atr * ATR
    MaxNoProgress,   \* max_bars_no_progress
    MaxRestarts,     \* MAX_RESTARTS_PER_WORKER, those left to the worker
    MaxFailures      \* bound of the model: calls that fail at a remote broker

ASSUME ExitAssumption ==
    /\ Venues \subseteq {"paper_india", "paper_mt5", "openalgo"}
    /\ Quantities \subseteq Nat \ {0}
    /\ Prices \subseteq Nat /\ Entry \in Prices
    /\ {InitialStop, AtBreakeven, AtSecond, LockAt, LockLevel} \subseteq Nat
    /\ InitialStop < Entry /\ Entry < AtBreakeven
    /\ Trails \subseteq Nat /\ LockTrail \in Nat /\ MinStep \in Nat
    /\ MaxNoProgress \in Nat \ {0} /\ MaxFailures \in Nat \ {0}
    /\ MaxRestarts \in Nat
    /\ Flattens \subseteq BOOLEAN
    /\ Pct \in 0 .. 49

VARIABLES
    venue, qty,
    pos,        \* the ManagedPosition
    pc,         \* the call its coroutine awaits, or "idle", "down", "unmanaged"
    bar,        \* the current candle (paper) or window of ticks (remote), which
                \* on_bar is called with
    trail,      \* the trail of the regime it is called with
    held,       \* what the broker holds; negative: oversold
    resting,    \* the stop order resting there: no second one is placed while
                \* one rests (see Protected)
    lastId,     \* the last order id it gave
    restarts,   \* WorkerSpec.restarts
    asked,      \* ghost: market exits sent for each partial
    failures    \* ghost: calls that failed

brokerVars == <<held, resting, lastId>>
exitVars   == <<venue, qty, pos, pc, bar, trail, brokerVars, restarts, asked, failures>>

Remote == venue = "openalgo"
Live   == pos.state \in {"RISK_ON", "BREAKEVEN", "TRAILING"}

Greater(a, b) == IF a > b THEN a ELSE b
Lesser(a, b)  == IF a < b THEN a ELSE b

EmptyBar == [high |-> -1, low |-> -1, close |-> -1]
NoStop   == [id |-> 0, lots |-> 0, trigger |-> 0]

------------------------------------------------------------------------------
(* The engine: what on_bar does to a position p up to its next await.       *)

Go(p, where) == [pos |-> p, pc |-> where]

\* _ratchet_stop: whether the stop moves. (MovesEitherWay: down as well.)
MovesEitherWay(p, level) ==
    Greater(level - p.stop, p.stop - level) >= MinStep /\ level # p.stop
Moves(p, level) ==
    /\ level > p.stop
    /\ level - p.stop >= MinStep \/ p.state = "RISK_ON"

\* The stop moves in the book before the broker is asked to move it.
Ratchet(p, level, call) == Go([p EXCEPT !.stop = level], call)

\* Lots of a partial; none when the position is too small to carve one.
PartialLots == (qty * Pct) \div 100

\* _take_partial, up to its await: the rung is taken before it is sold.
\* (TakeForgotten: it is not recorded.)
TakeForgotten(p, rung) == p
Take(p, rung) == [p EXCEPT !.taken = @ \union {rung}]

\* 6. the chandelier trail
FromTrail(p, b) ==
    LET level == p.extreme - (IF p.locked THEN Lesser(b.trail, LockTrail) ELSE b.trail)
    IN  IF (p.state # "RISK_ON" \/ p.locked) /\ Moves(p, level)
        THEN Ratchet(p, level, "trail")
        ELSE Go(p, "idle")

\* 5.5 the profit lock
FromLock(p, b) ==
    LET due == b.close >= LockAt /\ ~p.locked
    IN  IF due /\ Moves(p, LockLevel)
        THEN Ratchet(p, LockLevel, "lock")
        ELSE FromTrail([p EXCEPT !.locked = @ \/ due], b)

\* 5. the second partial
FromSecond(p, b) ==
    IF p.state = "BREAKEVEN" /\ b.close >= AtSecond
    THEN IF 2 \notin p.taken /\ PartialLots > 0
         THEN Go(Take(p, 2), "sell")
         ELSE FromLock([p EXCEPT !.taken = @ \union {2}, !.state = "TRAILING"], b)
    ELSE FromLock(p, b)

\* 4. the first partial, once the stop is at the entry
FromFirst(p, b) ==
    IF 1 \notin p.taken /\ PartialLots > 0
    THEN Go(Take(p, 1), "sell")
    ELSE FromSecond([p EXCEPT !.taken = @ \union {1}, !.state = "BREAKEVEN"], b)

FromBreakeven(p, b) ==
    IF p.state = "RISK_ON" /\ b.close >= AtBreakeven
    THEN IF Moves(p, Entry) THEN Ratchet(p, Entry, "breakeven") ELSE FromFirst(p, b)
    ELSE FromSecond(p, b)

\* The partial in hand, by the state it is taken in, and what follows it.
Rung(p) == IF p.state = "RISK_ON" THEN 1 ELSE 2

FromPartial(p, b) ==
    IF Rung(p) = 1
    THEN FromSecond([p EXCEPT !.state = "BREAKEVEN"], b)
    ELSE FromLock([p EXCEPT !.state = "TRAILING"], b)

\* _exit: the broker's own stop is taken to have closed the position; any
\* other exit cancels that stop and sells what remains.
StoppedOut(p) == Go([p EXCEPT !.state = "EXITED", !.exit = "stop_hit"], "idle")
ActiveExit(p) == Go([p EXCEPT !.state = "EXITED", !.exit = "active"], "exitCancel")

\* 2. extremes and progress. (TouchIsProgress: the old extreme counts again.)
TouchIsProgress(p, b) == b.high >= p.extreme
Progress(p, b) == b.high > p.extreme

Advance(p, b) ==
    [p EXCEPT !.extreme = Greater(@, b.high),
              !.noProgress = IF Progress(p, b) THEN 0 ELSE @ + 1]

\* 3. the time stop.
TimeUp(p) == p.noProgress >= MaxNoProgress

\* on_bar; a bar may fall under the weekend flatten policy.
OnBar(p, b, flatten) ==
    IF flatten THEN ActiveExit(p)
    ELSE IF b.low <= p.stop THEN StoppedOut(p)
    ELSE LET advanced == Advance(p, b)
         IN  IF TimeUp(advanced) THEN ActiveExit(advanced) ELSE FromBreakeven(advanced, b)

------------------------------------------------------------------------------
Unattached ==
    [state |-> "NONE", stop |-> InitialStop, stopId |-> 0, extreme |-> Entry,
     noProgress |-> 0, taken |-> {}, remaining |-> 0, locked |-> FALSE, exit |-> "none"]

\* The entry has been filled, attach awaits place_stop. The candle of that
\* moment may hold prices from before the entry.
ExitInit ==
    /\ venue \in Venues
    /\ qty \in Quantities
    /\ pos = Unattached
    /\ pc = "attaching"
    /\ trail = 0
    /\ bar \in IF Remote THEN {EmptyBar}
               ELSE [high : {p \in Prices : p >= Entry}, low : {p \in Prices : p <= Entry},
                     close : {Entry}]
    /\ held = qty
    /\ resting = NoStop
    /\ lastId = 0
    /\ restarts = 0
    /\ asked = [rung \in {1, 2} |-> 0]
    /\ failures = 0

\* ------------------------------- the broker -------------------------------

Known == resting # NoStop /\ resting.id = pos.stopId

Place(lots, price) ==
    /\ resting' = [id |-> lastId + 1, lots |-> lots, trigger |-> price]
    /\ lastId' = lastId + 1
    /\ UNCHANGED held

\* paper_server.py:115-123: an MT5 stop rides the position, it covers no more
\* than what is held. (SyncedNever: it keeps the quantity it was placed with.)
SyncedNever(lots) == lots
Synced(lots) == IF venue = "paper_mt5" /\ held > 0 THEN Lesser(lots, held) ELSE lots

Modify ==
    /\ Known
    /\ resting' = [resting EXCEPT !.trigger = pos.stop, !.lots = Synced(@)]
    /\ UNCHANGED <<held, lastId>>

Cancel ==
    /\ Known
    /\ resting' = NoStop
    /\ UNCHANGED <<held, lastId>>

Sell(lots) ==
    /\ held' = held - lots
    /\ UNCHANGED <<resting, lastId>>

\* A price at or below the trigger makes the stop sell what it is for.
Trigger(price) ==
    /\ IF resting # NoStop /\ price <= resting.trigger
       THEN resting' = NoStop /\ held' = held - resting.lots
       ELSE UNCHANGED <<resting, held>>
    /\ UNCHANGED lastId

\* --------------------------- the awaited calls ----------------------------

ModifyCalls == {"breakeven", "lock", "trail", "forced"}
BarCalls == {"breakeven", "lock", "trail", "sell", "replace", "place"}

\* The bar the coroutine works on.
Seen == [high |-> bar.high, low |-> bar.low, close |-> bar.close, trail |-> trail]

\* The coroutine goes on to its next call, or ends.
Resume(next) ==
    /\ pos' = next.pos
    /\ pc'  = next.pc
    /\ asked' = IF next.pc = "sell" THEN [asked EXCEPT ![Rung(next.pos)] = @ + 1] ELSE asked
    /\ UNCHANGED <<venue, qty>>

KeepTrail(next) == trail' = IF next.pc \in BarCalls THEN trail ELSE 0

\* TickFeedWorker clears the window when on_bar has returned.
Cleared(next, b) == IF Remote /\ next.pc = "idle" THEN EmptyBar ELSE b

\* An answer: the call has had its effect.
Done(effect, next) ==
    /\ effect
    /\ Resume(next)
    /\ KeepTrail(next)
    /\ bar' = IF pc = "forced" THEN bar ELSE Cleared(next, bar)
    /\ UNCHANGED <<restarts, failures>>

\* An exception: the broker refused, or the link failed, before or after.
Failed(effect, refused, next) ==
    /\ \/ refused /\ UNCHANGED brokerVars
       \/ Remote /\ failures < MaxFailures /\ (effect \/ UNCHANGED brokerVars)
    /\ failures' = Lesser(failures + 1, MaxFailures)
    /\ Resume(next)
    /\ KeepTrail(next)
    /\ UNCHANGED <<bar, restarts>>

Attach ==
    /\ pc = "attaching"
    /\ \/ Done(Place(qty, pos.stop),
               Go([pos EXCEPT !.state = "RISK_ON", !.stopId = lastId + 1,
                              !.remaining = qty], "idle"))
       \/ Failed(Place(qty, pos.stop), FALSE, Go(pos, "unmanaged"))

\* What follows a stop that was moved.
AfterModify ==
    CASE pc = "breakeven" -> FromFirst(pos, Seen)
      [] pc = "lock"      -> FromTrail([pos EXCEPT !.locked = TRUE], Seen)
      [] OTHER            -> Go(pos, "idle")

ModifyStop ==
    /\ pc \in ModifyCalls
    /\ \/ Done(Modify, AfterModify)
       \/ Failed(Modify, ~Known, Go(pos, IF pc = "forced" THEN "idle" ELSE "down"))

SellPartial ==
    /\ pc = "sell"
    /\ \/ Done(Sell(PartialLots), Go([pos EXCEPT !.remaining = @ - PartialLots], "replace"))
       \/ Failed(Sell(PartialLots), FALSE, Go(pos, "down"))

\* replace_stop: one modify on MT5, otherwise cancel and then place anew.
ReplaceStop ==
    /\ pc = "replace"
    /\ IF venue = "paper_mt5"
       THEN \/ Done(Modify, FromPartial(pos, Seen))
            \/ Failed(Modify, ~Known, Go(pos, "down"))
       ELSE \/ Done(Cancel, Go(pos, "place"))
            \/ Failed(Cancel, ~Known, Go(pos, "down"))

\* The lots the new stop is for. (PlaceWhole: those of the entry.)
PlaceWhole == qty
PlaceLots  == pos.remaining

PlaceAgain ==
    /\ pc = "place"
    /\ \/ Done(Place(PlaceLots, pos.stop),
               FromPartial([pos EXCEPT !.stopId = lastId + 1], Seen))
       \/ Failed(Place(PlaceLots, pos.stop), FALSE, Go(pos, "down"))

\* A failure to cancel is logged, the exit goes on.
CancelStop ==
    /\ pc = "exitCancel"
    /\ \/ Done(Cancel, Go(pos, "exitSell"))
       \/ Failed(Cancel, ~Known, Go(pos, "exitSell"))

\* (SellWhole: what the entry was for.)
SellWhole == qty
SellLots  == pos.remaining

SellRest ==
    /\ pc = "exitSell"
    /\ \/ Done(Sell(SellLots), Go(pos, "idle"))
       \/ Failed(Sell(SellLots), FALSE, Go(pos, "down"))

Call == Attach \/ ModifyStop \/ SellPartial \/ ReplaceStop \/ PlaceAgain
        \/ CancelStop \/ SellRest

\* app.py:121-134: the supervisor starts the worker that crashed again, so many
\* times; run_paper.py's feed loop has no supervisor.
RestartWorker ==
    /\ Remote
    /\ pc = "down"
    /\ restarts < MaxRestarts
    /\ restarts' = restarts + 1
    /\ Resume(Go(pos, "idle"))
    /\ UNCHANGED <<bar, trail, brokerVars, failures>>

\* -------------------------- what starts a coroutine -----------------------

Extended(b, price) ==
    [high  |-> Greater(b.high, price),
     low   |-> IF b = EmptyBar THEN price ELSE Lesser(b.low, price),
     close |-> price]

\* on_bar, under any regime.
StartBar(b) ==
    \E k \in Trails, flatten \in Flattens :
        LET next == OnBar(pos, [high |-> b.high, low |-> b.low, close |-> b.close,
                                trail |-> k], flatten)
        IN  /\ Resume(next)
            /\ trail' = IF next.pc \in BarCalls THEN k ELSE 0
            /\ bar' = Cleared(next, b)

\* One round of run_paper.py's feed loop for the symbol: the candle, the resting
\* stop, on_bar.
PaperTick ==
    /\ ~Remote
    /\ pc = "idle"
    /\ \E price \in Prices :
        /\ Trigger(price)
        /\ \/ Live /\ \E candle \in {bar, EmptyBar} : StartBar(Extended(candle, price))
           \/ ~Live /\ UNCHANGED <<venue, qty, pos, pc, bar, trail, asked>>
    /\ UNCHANGED <<restarts, failures>>

\* The market at a remote broker moves at any time.
MarketTick ==
    /\ Remote
    /\ \E price \in Prices : Trigger(price)
    /\ UNCHANGED <<venue, qty, pos, pc, bar, trail, restarts, asked, failures>>

\* A tick of the stream, which may lag behind the market or leave prices out.
StreamTick ==
    /\ Remote
    /\ pc = "idle"
    /\ Live
    /\ \E price \in Prices : bar' = Extended(bar, price)
    /\ UNCHANGED <<venue, qty, pos, pc, trail, brokerVars, restarts, asked, failures>>

\* TickFeedWorker.run: a full window.
WindowFull ==
    /\ Remote
    /\ pc = "idle"
    /\ Live
    /\ bar # EmptyBar
    /\ StartBar(bar)
    /\ UNCHANGED <<brokerVars, restarts, failures>>

\* The cockpit's CLOSE button, which only run_paper.py wires.
ManualExit ==
    /\ ~Remote
    /\ pc = "idle"
    /\ Live
    /\ Resume(ActiveExit(pos))
    /\ UNCHANGED <<bar, trail, brokerVars, restarts, failures>>

\* force_stop_change; it raises when the stop would not move towards profit.
ForceStop ==
    /\ pc = "idle"
    /\ Live
    /\ \E level \in Prices :
        /\ Moves(pos, level)
        /\ Resume(Ratchet(pos, level, "forced"))
    /\ UNCHANGED <<bar, trail, brokerVars, restarts, failures>>

ExitNext ==
    \/ Attach \/ ModifyStop \/ SellPartial \/ ReplaceStop \/ PlaceAgain
    \/ CancelStop \/ SellRest
    \/ RestartWorker
    \/ PaperTick \/ MarketTick \/ StreamTick \/ WindowFull
    \/ ManualExit \/ ForceStop

\* Every call ends, the supervisor's monitor restarts the worker while it may,
\* and while the market is open prices keep coming.
ExitFairness ==
    /\ WF_exitVars(Call) /\ WF_exitVars(RestartWorker)
    /\ WF_exitVars(PaperTick) /\ WF_exitVars(WindowFull) /\ WF_exitVars(StreamTick)

ExitSpec == ExitInit /\ [][ExitNext]_exitVars /\ ExitFairness

------------------------------------------------------------------------------
ExitTypeOK ==
    /\ venue \in Venues /\ qty \in Quantities
    /\ pos \in [state : {"NONE", "RISK_ON", "BREAKEVEN", "TRAILING", "EXITED"},
                stop : Nat, stopId : 0 .. 3, extreme : Prices,
                noProgress : 0 .. MaxNoProgress, taken : SUBSET {1, 2},
                remaining : 0 .. qty, locked : BOOLEAN,
                exit : {"none", "stop_hit", "active"}]
    /\ pc \in ModifyCalls \union BarCalls \union
              {"attaching", "exitCancel", "exitSell", "idle", "down", "unmanaged"}
    /\ trail \in Trails \union {0}
    /\ bar \in [high : Prices, low : Prices, close : Prices] \union {EmptyBar}
    /\ held \in Int
    /\ resting \in [id : 0 .. 3, lots : Nat, trigger : Nat]
    /\ lastId \in 0 .. 3
    /\ restarts \in 0 .. MaxRestarts
    /\ asked \in [{1, 2} -> Nat]
    /\ failures \in 0 .. MaxFailures

\* never_widen_stop, in the book and at the broker: whatever the regime, the
\* event window or the profit lock do to the trail, across partials, failed
\* calls and restarts, no trigger is below an earlier one (exit_manager.py:15).
StopNeverLoosens ==
    [][ /\ pos'.stop >= pos.stop
        /\ resting # NoStop /\ resting' # NoStop => resting'.trigger >= resting.trigger
        /\ resting'.id # resting.id /\ resting' # NoStop => resting'.trigger = pos.stop ]_exitVars

\* No partial is sold twice, although the call may fail and the bar come again
\* (_take_partial, exit_manager.py:159).
PartialOnce == \A rung \in {1, 2} : asked[rung] <= 1

\* A managed position always has a broker-resident stop for exactly what is
\* held, at the price the book says (exit_manager.py:17), through partials and
\* ratchets, until it is triggered or a call fails; and a stop is only placed
\* when none rests.
Protected ==
    /\ Live /\ pc = "idle" /\ failures = 0 =>
         \/ /\ held = pos.remaining
            /\ resting = [id |-> pos.stopId, lots |-> pos.remaining, trigger |-> pos.stop]
         \/ held = 0 /\ resting = NoStop
    /\ pc \in {"attaching", "place"} => resting = NoStop

\* On the paper broker nothing is ever sold that is not held (paper_server.py:
\* 115-118: a trigger must not flip the book "into a phantom short").
NeverOversold == ~Remote => held >= 0

\* An exit of our own leaves neither a position nor a stop behind: "a manual
\* close can never leak a resting broker stop" (exit_manager.py:205-206), so
\* long as no call fails.
CleanExit ==
    pos.exit = "active" /\ pc = "idle" /\ failures = 0 => held = 0 /\ resting = NoStop

\* Nobody will call on_bar again.
GivenUp == pc = "down" /\ (Remote => restarts = MaxRestarts)

\* The book says stopped out, and the lot is held: its stop still rests, since
\* the code goes by the bar (README, Divergences), or a failed call has lost it.
TakenForStopped ==
    /\ pos.exit = "stop_hit"
    /\ \/ resting.lots = held /\ resting.trigger = pos.stop
       \/ failures > 0

\* The order that was to close the position has failed.
ExitFailed == pos.exit = "active" /\ pc = "down"

\* The time stop "frees capital" (exit_manager.py:252-255): a position that makes
\* no new extreme is no longer held at the broker in the end, whatever ratchets,
\* partials, failing calls and restarts come on the way. Three things are left to
\* a person: a lot taken for stopped out, one whose exit order has failed, and a
\* worker given up. Prices are bounded, so that new extremes end.
FreesCapital == Live ~> held <= 0 \/ TakenForStopped \/ ExitFailed \/ GivenUp

\* exit_manager.py:181, on a stop_hit: "The BROKER-resident stop already closed
\* the remainder server-side." The code does not keep it: see the
\* README, Divergences.
StopHitIsFlat == pos.exit = "stop_hit" => held <= 0
=============================================================================
