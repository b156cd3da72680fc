--------------------------------- MODULE Desk ---------------------------------
(***************************************************************************)
(* The paper desk: who may open and close positions, and who is credited   *)
(* for them. Two callers knock on the router's door, the sleeves of        *)
(* src/src/ops/strategy_engine.py, from the feed loop of                   *)
(* src/scripts/run_paper.py, and the operator's entries, from the handlers *)
(* of src/src/ops/cockpit_gateway.py. On the paper venue a handler runs to *)
(* its end, but for one place: route_order awaits asyncio.gather, where    *)
(* every other coroutine that is ready runs. What each does before and     *)
(* after that await is an action.                                          *)
(*                                                                         *)
(* A position is one lot, long (1) or short (-1), and lots are of one      *)
(* size. The router past the gather accepts or rejects: OrderRouter,       *)
(* PortfolioGuards and Formulas say when. The exits are those of           *)
(* ExitManager, seen from outside. What a stop or a close of the broker's  *)
(* mt5 leg buys or sells is decided by its net position                    *)
(* (paper_server.py), on the india leg the book says it.                   *)
(***************************************************************************)
EXTENDS Integers, Sequences, FiniteSets

CONSTANTS
    Universe,     \* the symbols, in the order on_tick takes them
    LegOf,        \* the leg of each symbol
    Registry,     \* the sleeves, in registry order, StrategyEngine.sleeves
    MaxEntries    \* bound of the model: entries of all sleeves and entries

Symbols == {Universe[i] : i \in DOMAIN Universe}
Sleeves == {Registry[k] : k \in DOMAIN Registry}
Manual  == "manual"
Sides   == {-1, 1}

ASSUME DeskAssumption ==
    /\ Universe \in Seq(STRING) /\ Universe # <<>>
    /\ LegOf \in [Symbols -> {"india", "mt5"}]
    /\ Registry \in Seq(STRING) /\ Manual \notin Sleeves
    /\ MaxEntries \in Nat

VARIABLES
    sleeve,    \* StrategyEngine.sleeves: enabled, entries, closed; and two ghosts,
               \* late: entries since it was last disabled, lost: exits that raised
               \* under a claim of it
    sleeveOf,  \* StrategyEngine._sleeve_of, Manual where there is none
    fresh,     \* the symbols whose completed_count is above _seen
    pos,       \* ExitManager.positions: open or not, and which side; the side of the
               \* lot that its stop closes, 0 when it no longer rests; and a ghost, opener
    held,      \* what the broker holds, net
    orphans,   \* resting stops that no position of the book owns, by the side of
               \* the lot they close
    engine,    \* where the feed loop is
    ticket,    \* where the operator's ticket is
    parted,    \* ghost: symbols on which an entry was booked over a position
    astray,    \* ghost: symbols on which an mt5 entry went against the net position,
               \* an exit was refused, or sold a lot its stop had sold before
    stale,     \* ghost: symbols whose claim outlived an exit that raised
    entries    \* ghost: all entries

lotVars  == <<held, orphans, astray>>
tallyVars == <<sleeve, sleeveOf, stale>>
bookVars == <<tallyVars, pos, lotVars, parted, entries>>
deskVars == <<bookVars, fresh, engine, ticket>>

\* Of a position that has EXITED nothing is read: it is as if there was none
NoPosition == [open |-> FALSE, side |-> 0, stop |-> 0, opener |-> Manual]
IsOpen(sym) == pos[sym].open

\* _closing_action of the mt5 leg: BUY for a short, SELL for a long, or nothing
NetSide(net) == IF net < 0 THEN -1 ELSE 1

\* The side of the lot that a stop, or a close, of the book's position takes away
Closes(sym, side, net) == IF LegOf[sym] = "mt5" THEN NetSide(net) ELSE side

------------------------------------------------------------------------------
(* The calls on the exit manager that change the book.                      *)

\* What the book forgets, or takes for gone, still rests
LeftResting(sym) ==
    IF pos[sym].stop = 0 THEN orphans ELSE [orphans EXCEPT ![sym][pos[sym].stop] = @ + 1]

\* positions.pop and attach after an accepted order: the position the book had
\* is forgotten, at the broker its lot and its stop stay
Enter(sym, side, who) ==
    /\ held'    = [held EXCEPT ![sym] = @ + side]
    /\ orphans' = LeftResting(sym)
    /\ parted'  = IF IsOpen(sym) THEN parted \cup {sym} ELSE parted
    /\ astray'  = IF LegOf[sym] = "mt5" /\ held[sym] * side < 0 THEN astray \cup {sym} ELSE astray
    /\ pos'     = [pos EXCEPT ![sym] = [open |-> TRUE, side |-> side, opener |-> who,
                                        stop |-> Closes(sym, side, held[sym] + side)]]
    /\ entries' = entries + 1

\* StrategyEngine.record_exit, from on_exit_cb
\* (RecordWithoutPop: the sleeve of the symbol is read and stays.)
RecordWithoutPop(sym) ==
    /\ sleeve' = IF sleeveOf[sym] \in Sleeves
                 THEN [sleeve EXCEPT ![sleeveOf[sym]].closed = @ + 1] ELSE sleeve
    /\ UNCHANGED <<sleeveOf, stale>>
\* (RecordIfEnabled: the exits of a disabled sleeve are not counted.)
RecordIfEnabled(sym) ==
    /\ sleeve' = IF sleeveOf[sym] \in Sleeves /\ sleeve[sleeveOf[sym]].enabled
                 THEN [sleeve EXCEPT ![sleeveOf[sym]].closed = @ + 1] ELSE sleeve
    /\ sleeveOf' = [sleeveOf EXCEPT ![sym] = Manual] /\ stale' = stale \ {sym}
RecordExit(sym) ==
    /\ sleeve' = IF sleeveOf[sym] \in Sleeves
                 THEN [sleeve EXCEPT ![sleeveOf[sym]].closed = @ + 1] ELSE sleeve
    /\ sleeveOf' = [sleeveOf EXCEPT ![sym] = Manual] /\ stale' = stale \ {sym}

\* The exit raised: on_exit is never called
ExitUnrecorded(sym) ==
    /\ sleeve' = IF sleeveOf[sym] \in Sleeves
                 THEN [sleeve EXCEPT ![sleeveOf[sym]].lost = @ + 1] ELSE sleeve
    /\ stale' = IF sleeveOf[sym] \in Sleeves THEN stale \cup {sym} ELSE stale
    /\ UNCHANGED sleeveOf

Exited(sym) == pos' = [pos EXCEPT ![sym] = NoPosition]

\* _exit, active: the book says EXITED, the stop is cancelled, or was gone, which
\* is logged, then the lot is sold or bought back
\* (CancelForgotten: the stop is left resting.)
CancelForgotten(sym) == LeftResting(sym)
StopsAfterExit(sym)  == orphans

MarketOut(sym) ==
    /\ IsOpen(sym)
    /\ held' = [held EXCEPT ![sym] = @ - Closes(sym, pos[sym].side, held[sym])]
    /\ orphans' = StopsAfterExit(sym)
    /\ astray' = IF pos[sym].stop = 0 THEN astray \cup {sym} ELSE astray
    /\ Exited(sym) /\ RecordExit(sym)

\* A buy for which the cash is not there is refused
BuyRefused(sym) ==
    /\ IsOpen(sym) /\ Closes(sym, pos[sym].side, held[sym]) = -1
    /\ orphans' = StopsAfterExit(sym)
    /\ astray' = IF pos[sym].stop = 0 THEN astray ELSE astray \cup {sym}
    /\ Exited(sym)
    /\ UNCHANGED held

\* /position/close answers 200 with ok false, and nobody looks
Overlooked(sym) == LegOf[sym] = "mt5" /\ BuyRefused(sym) /\ RecordExit(sym)

\* /api/v1/placeorder answers 400, and exit_market raises
ExitRaises(sym) == LegOf[sym] = "india" /\ BuyRefused(sym) /\ ExitUnrecorded(sym)

ActiveExit(sym) == MarketOut(sym) \/ Overlooked(sym)

------------------------------------------------------------------------------
(* The feed loop. A pass lets the market and the exit manager act on every  *)
(* symbol, then hands over to the engine.                                   *)

Feed == [at |-> "feed", i |-> 1, k |-> 1, side |-> 0]
Dead == [Feed EXCEPT !.at = "dead"]

\* broker.on_tick fires the stop, or it has fired before, and on_bar finds the
\* bar beyond it
StopHit(sym) ==
    /\ engine.at = "feed" /\ IsOpen(sym)
    /\ held' = [held EXCEPT ![sym] = @ - pos[sym].stop]
    /\ Exited(sym) /\ RecordExit(sym)
    /\ UNCHANGED <<fresh, orphans, engine, ticket, parted, astray, entries>>

\* on_bar is given the whole current candle, an extreme from before the entry
\* with it: the book takes a stop as hit that still rests
PhantomStop(sym) ==
    /\ engine.at = "feed" /\ IsOpen(sym) /\ pos[sym].stop # 0
    /\ orphans' = LeftResting(sym)
    /\ Exited(sym) /\ RecordExit(sym)
    /\ UNCHANGED <<fresh, held, engine, ticket, parted, astray, entries>>

OrphanFires(sym, side) ==
    /\ engine.at = "feed" /\ orphans[sym][side] > 0
    /\ orphans' = [orphans EXCEPT ![sym][side] = @ - 1]
    /\ held' = [held EXCEPT ![sym] = @ - side]
    /\ UNCHANGED <<tallyVars, fresh, pos, engine, ticket, parted, astray, entries>>

\* A stop that faces the wrong side fires where on_bar sees no stop hit
WrongStopFires(sym) ==
    /\ engine.at = "feed" /\ IsOpen(sym) /\ pos[sym].stop = -pos[sym].side
    /\ held' = [held EXCEPT ![sym] = @ - pos[sym].stop]
    /\ pos' = [pos EXCEPT ![sym].stop = 0]
    /\ UNCHANGED <<tallyVars, fresh, orphans, engine, ticket, parted, astray, entries>>

\* The exits of on_bar. What it raises nobody catches: the feed loop is over.
TrailOut(sym) ==
    /\ engine.at = "feed"
    /\ \/ ActiveExit(sym) /\ UNCHANGED engine
       \/ ExitRaises(sym) /\ engine' = Dead
    /\ UNCHANGED <<fresh, ticket, parted, entries>>

\* A stop that is gone cannot be moved: modify_order answers 400
RatchetRaises(sym) ==
    /\ engine.at = "feed" /\ IsOpen(sym) /\ pos[sym].stop = 0
    /\ engine' = Dead
    /\ UNCHANGED <<bookVars, fresh, ticket>>

BarCompletes(sym) ==
    /\ engine.at = "feed" /\ sym \notin fresh
    /\ fresh' = fresh \cup {sym}
    /\ UNCHANGED <<bookVars, engine, ticket>>

\* engine.on_tick: over the whole universe
Pass ==
    /\ engine.at = "feed"
    /\ engine' = [Feed EXCEPT !.at = "scan"]
    /\ UNCHANGED <<bookVars, fresh, ticket>>

\* One symbol of on_tick. A new bar is seen whatever comes of it; an owned
\* symbol, or one without a price and history, goes no further.
Symbol == Universe[engine.i]

Seen == fresh \ {Symbol}

NextSymbol == [engine EXCEPT !.at = "scan", !.i = @ + 1, !.k = 1, !.side = 0]

Scan(enough) ==
    /\ engine.at = "scan" /\ engine.i \in DOMAIN Universe
    /\ fresh' = Seen
    /\ engine' = IF Symbol \in fresh /\ ~ IsOpen(Symbol) /\ enough
                 THEN [engine EXCEPT !.at = "signals"] ELSE NextSymbol
    /\ UNCHANGED <<bookVars, ticket>>

PassEnds ==
    /\ engine.at = "scan" /\ engine.i \notin DOMAIN Universe
    /\ engine' = Feed
    /\ UNCHANGED <<bookVars, fresh, ticket>>

\* _evaluate_symbol, its loop over the sleeves: the next sleeve is disabled, has
\* nothing to say or is refused at the door, halted or paused; it throws; or its
\* order gets to the await of route_order
Name    == Registry[engine.k]
NextSleeve   == [engine EXCEPT !.k = @ + 1, !.side = 0, !.at = "signals"]
Disable(stats) == [stats EXCEPT !.enabled = FALSE, !.late = 0]

NoSignal ==
    /\ engine.at = "signals" /\ engine.k \in DOMAIN Registry
    /\ engine' = NextSleeve
    /\ UNCHANGED <<bookVars, fresh, ticket>>

SignalThrows ==
    /\ engine.at = "signals" /\ engine.k \in DOMAIN Registry /\ sleeve[Name].enabled
    /\ sleeve' = [sleeve EXCEPT ![Name] = Disable(@)]
    /\ engine' = NextSleeve
    /\ UNCHANGED <<sleeveOf, stale, fresh, pos, lotVars, ticket, parted, entries>>

MaySignal(name) == sleeve[name].enabled

Signal(side) ==
    /\ engine.at = "signals" /\ engine.k \in DOMAIN Registry /\ MaySignal(Name)
    /\ entries < MaxEntries
    /\ engine' = [engine EXCEPT !.at = "routing", !.side = side]
    /\ UNCHANGED <<bookVars, fresh, ticket>>

\* ... and returns: the symbol is claimed, or the next sleeve has its turn
Claim ==
    /\ engine.at = "routing"
    /\ Enter(Symbol, engine.side, Name)
    /\ sleeveOf' = [sleeveOf EXCEPT ![Symbol] = Name]
    /\ sleeve' = [sleeve EXCEPT ![Name].entries = @ + 1,
                                ![Name].late = IF sleeve[Name].enabled THEN 0 ELSE @ + 1]
    /\ stale' = stale \ {Symbol}
    /\ engine' = NextSymbol
    /\ UNCHANGED <<fresh, ticket>>

Rejected ==
    /\ engine.at = "routing"
    /\ engine' = NextSleeve
    /\ UNCHANGED <<bookVars, fresh, ticket>>

SymbolDone ==
    /\ engine.at = "signals" /\ engine.k \notin DOMAIN Registry
    /\ engine' = NextSymbol
    /\ UNCHANGED <<bookVars, fresh, ticket>>

------------------------------------------------------------------------------
(* The operator, through the gateway. Viewers and unconfirmed requests are  *)
(* turned away before any of this.                                          *)

\* The event loop is theirs while the feed loop waits, for ticks or for a route,
\* or is over
Yielded == engine.at \in {"feed", "routing", "dead"}

Idle == [at |-> "idle", sym |-> Universe[1], side |-> 0]

\* broker.on_tick on a ticket's way: any resting stop of the symbol may fire, own
\* too, and no on_bar follows
Primes(sym) ==
    \E own \in {0, pos[sym].stop}, sells \in 0 .. orphans[sym][1], buys \in 0 .. orphans[sym][-1] :
        /\ orphans' = [orphans EXCEPT ![sym][1] = @ - sells, ![sym][-1] = @ - buys]
        /\ held' = [held EXCEPT ![sym] = @ - (own + (sells - buys))]
        /\ pos' = [pos EXCEPT ![sym].stop = @ - own]

\* /control/order, place_order: no look at the position the symbol may have; the
\* router turns the ticket down, or gets to its await
PlaceOrder(sym, side) ==
    /\ Yielded /\ ticket.at = "idle"
    /\ Primes(sym)
    /\ \/ UNCHANGED ticket
       \/ /\ entries < MaxEntries
          /\ ticket' = [at |-> "routing", sym |-> sym, side |-> side]
    /\ UNCHANGED <<tallyVars, fresh, engine, parted, astray, entries>>

TicketAccepted ==
    /\ Yielded /\ ticket.at = "routing"
    /\ Enter(ticket.sym, ticket.side, Manual)
    /\ ticket' = Idle
    /\ UNCHANGED <<tallyVars, fresh, engine>>

TicketRejected ==
    /\ Yielded /\ ticket.at = "routing"
    /\ ticket' = Idle
    /\ UNCHANGED <<bookVars, fresh, engine>>

\* /control/close_position, close_position: an exit that raises is a 500
ClosePosition(sym) ==
    /\ Yielded
    /\ ActiveExit(sym) \/ ExitRaises(sym)
    /\ UNCHANGED <<fresh, engine, ticket, parted, entries>>

\* /strategies/toggle, set_enabled
Toggle(name, enabled) ==
    /\ Yielded
    /\ sleeve' = [sleeve EXCEPT ![name] =
                    IF enabled THEN [@ EXCEPT !.enabled = TRUE, !.late = 0]
                    ELSE IF @.enabled THEN Disable(@) ELSE @]
    /\ UNCHANGED <<sleeveOf, stale, fresh, pos, lotVars, engine, ticket, parted, entries>>

DeskInit ==
    /\ sleeve = [s \in Sleeves |-> [enabled |-> FALSE, entries |-> 0, closed |-> 0,
                                    late |-> 0, lost |-> 0]]
    /\ sleeveOf = [s \in Symbols |-> Manual]
    /\ fresh = {}
    /\ pos = [s \in Symbols |-> NoPosition]
    /\ held = [s \in Symbols |-> 0]
    /\ orphans = [s \in Symbols |-> [d \in Sides |-> 0]]
    /\ engine = Feed /\ ticket = Idle
    /\ parted = {} /\ astray = {} /\ stale = {} /\ entries = 0

EngineStep ==
    \/ Pass \/ PassEnds \/ (\E enough \in BOOLEAN : Scan(enough))
    \/ NoSignal \/ SignalThrows \/ (\E side \in Sides : Signal(side))
    \/ Claim \/ Rejected \/ SymbolDone

DeskNext ==
    \/ EngineStep
    \/ \E s \in Symbols : \/ StopHit(s) \/ PhantomStop(s) \/ WrongStopFires(s)
                          \/ TrailOut(s) \/ RatchetRaises(s) \/ BarCompletes(s)
                          \/ (\E side \in Sides : OrphanFires(s, side) \/ PlaceOrder(s, side))
                          \/ ClosePosition(s)
    \/ TicketAccepted \/ TicketRejected
    \/ \E name \in Sleeves, enabled \in BOOLEAN : Toggle(name, enabled)

DeskSpec == DeskInit /\ [][DeskNext]_deskVars

------------------------------------------------------------------------------
DeskTypeOK ==
    /\ sleeve \in [Sleeves -> [enabled : BOOLEAN, entries : Nat, closed : Nat,
                               late : Nat, lost : Nat]]
    /\ sleeveOf \in [Symbols -> Sleeves \cup {Manual}]
    /\ fresh \subseteq Symbols /\ parted \subseteq Symbols
    /\ astray \subseteq Symbols /\ stale \subseteq Symbols
    /\ pos \in [Symbols -> [open : BOOLEAN, side : Sides \cup {0},
                            stop : Sides \cup {0}, opener : Sleeves \cup {Manual}]]
    /\ held \in [Symbols -> Int] /\ orphans \in [Symbols -> [Sides -> Nat]]
    /\ engine \in [at : {"feed", "dead", "scan", "signals", "routing"}, i : 1 .. Len(Universe) + 1,
                   k : 1 .. Len(Registry) + 1, side : Sides \cup {0}]
    /\ ticket \in [at : {"idle", "routing"}, sym : Symbols, side : Sides \cup {0}]
    /\ entries \in 0 .. MaxEntries + 1

\* Every lot at the broker, managed or not, has a stop of its side resting, and no
\* stop rests without a lot behind it: through entries over an open position
\* (run_paper.py:330), premature stop hits, stops that fire on a ticket's way and
\* exits, until one of three things goes astray on the symbol: an mt5 entry
\* against the net position, an exit that is refused, or one that sells what the
\* stop has sold.
LotsCovered ==
    \A s \in Symbols \ astray : held[s] = (orphans[s][1] - orphans[s][-1]) + pos[s].stop

Claims(name) == {s \in Symbols : sleeveOf[s] = name}

\* The ledger of a sleeve counts no entry twice, and accounts for each: it is
\* closed, or claimed under its name, or its exit raised (strategy_engine.py:113,
\* exit_manager.py:195). A sleeve that was disabled, or threw, gets at most the
\* one entry that was awaiting its route (cockpit_gateway.py:452, "goes through
\* instantly").
LedgerBalances ==
    \A name \in Sleeves :
        /\ sleeve[name].closed + Cardinality(Claims(name)) <= sleeve[name].entries
        /\ sleeve[name].entries
             <= sleeve[name].closed + Cardinality(Claims(name) \ stale) + sleeve[name].lost
        /\ sleeve[name].late <= 1

\* The exit of a position is credited to whoever opened it, on every symbol on
\* which no entry was booked over a position and no exit raised under a claim
\* since the last one (strategy_engine.py:20, the ledger is "exact, not inferred").
CreditedToOpener ==
    \A s \in Symbols \ (parted \cup stale) :
        sleeveOf[s] = IF IsOpen(s) THEN pos[s].opener ELSE Manual

\* The stop of a position closes the side it is on (exit_manager.py:88, "stop
\* resident at broker immediately"), and whoever has left the book has left the
\* broker. The code keeps neither: see the README, Divergences.
StopFacesItsLot == \A s \in Symbols : IsOpen(s) => pos[s].stop = pos[s].side
FlatWhenExited ==
    \A s \in Symbols : ~ IsOpen(s) /\ orphans[s] = [d \in Sides |-> 0] => held[s] = 0

\* One open position per symbol, ever (strategy_engine.py:13). The code does not
\* keep it: see the README, Divergences.
OnePositionPerSymbol == \A s \in Symbols : s \notin parted
=============================================================================
