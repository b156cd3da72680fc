---------------------------- MODULE PortfolioGuards ----------------------------
(***************************************************************************)
(* The gates a new entry clears before it is sized: make_portfolio_guard   *)
(* of src/src/core/guard_stack.py over the ring-fenced budget, the day     *)
(* guard, the prop-firm guard and the heat cap, in that order. A check     *)
(* awaits the account's equity and decides in one go on the answer, by     *)
(* then perhaps an old one; its entry fills later, so that two checks may  *)
(* pass before either position is there to be counted.                     *)
(*                                                                         *)
(* Money is counted in whole units, risk in hundredths of a unit. Time is  *)
(* counted in half days: the firm's day rolls between the operator's days. *)
(***************************************************************************)
EXTENDS Integers, FiniteSets, Functions

CONSTANTS
    Symbols,
    Equities,          \* bound of the model: the values of the account
    Opening,           \* of them: its first value, PropRules.initial_balance
    Budget,            \* initial_budget
    FloorPct,          \* min_floor_pct
    BankPct, CutPct,   \* profit_bank_pct, loss_stop_pct
    DailyPct, TotalPct, SoftPct,   \* the firm's two lines, and ours inside them
    Trailing,          \* trailing_dd
    RiskPct, HeatPct,  \* max_risk_per_trade_pct, max_heat_pct
    Flows,             \* deposits and withdrawals, negative
    LastHalfDay        \* bound of the model

ASSUME GuardAssumption ==
    /\ IsFiniteSet(Symbols)
    /\ Equities \subseteq Nat \ {0} /\ Opening \in Equities
    /\ Budget \in Nat \ {0} /\ FloorPct \in 0 .. 99
    /\ {BankPct, CutPct, RiskPct} \subseteq Nat /\ HeatPct \in Nat \ {0}
    /\ {DailyPct, TotalPct, SoftPct} \subseteq 1 .. 100
    /\ Trailing \in BOOLEAN /\ Flows \subseteq Int /\ LastHalfDay \in Nat

VARIABLES
    now,
    equity,     \* of the account, floating profit and loss included
    baseline,   \* BudgetManager.baseline_equity, 0 before attach
    unrecorded, \* money moved in or out that external_flow has not been told of
    session,    \* SessionGuardState and the operator's day it is of
    prop,       \* PropState
    check,      \* per symbol: the entry's progress and the equity it was answered
    risk,       \* per symbol: what its open position loses at its stop
    traded,     \* ghost: profit and loss of the trading alone, since attach
    crossed,    \* ghost: the lines met so far, "day" in this session, "firm" at any mark
    peak,       \* ghost: the highest mark since the last admission
    last        \* ghost: what the last admission was allowed, heat and overlap

account   == <<now, equity, unrecorded>>
guardVars == <<account, baseline, session, prop, check, risk, traded, crossed, peak, last>>

Larger(a, b)  == IF a > b THEN a ELSE b
Smaller(a, b) == IF a < b THEN a ELSE b

------------------------------------------------------------------------------
(* The layers. Each looks at an equity e.                                   *)

\* BudgetManager.effective, of an allocation anchored at base
Effective(e, base) == Larger(0, Smaller(Budget + e - base, e))

BudgetAllows(e, base) ==
    LET eff == Effective(e, base) IN eff > 0 /\ 100 * eff >= Budget * FloorPct

\* SessionGuard.allows_new_entries
GuardsSession == BankPct > 0 \/ CutPct > 0
Banked(e) == BankPct > 0 /\ 100 * (e - session.start) >= BankPct * session.start
Cut(e)    == CutPct > 0 /\ 100 * (session.start - e) >= CutPct * session.start

\* (SessionNotLatched: a tripped day is looked at again.)
SessionNotLatched(e) ==
    ~ GuardsSession \/ (session.start > 0 /\ ~ Banked(e) /\ ~ Cut(e))
SessionAllows(e) ==
    \/ ~ GuardsSession
    \/ session.start > 0 /\ session.tripped = "" /\ ~ Banked(e) /\ ~ Cut(e)

SessionAfter(e) ==
    IF GuardsSession /\ session.start > 0 /\ session.tripped = ""
    THEN [session EXCEPT !.tripped = IF Banked(e) THEN "profit_banked"
                                     ELSE IF Cut(e) THEN "loss_stopped" ELSE ""]
    ELSE session

\* PropGuard: the firm's day, the mark on_equity leaves, and our line
FirmDay == (now + 1) \div 2

Rolled(e) == IF prop.day = FirmDay THEN prop
             ELSE [prop EXCEPT !.day = FirmDay, !.start = e]

Base(p) == IF Trailing THEN p.high ELSE Opening

DailyUsed(p, e, fraction) == 10000 * (p.start - e) >= fraction * DailyPct * p.start
TotalUsed(p, e, fraction) == 10000 * (Base(p) - e) >= fraction * TotalPct * Base(p)

Marked(e) ==
    LET p == [Rolled(e) EXCEPT !.high = Larger(@, e)]
    IN  [p EXCEPT !.breached =
            IF @ # "" THEN @
            ELSE IF DailyUsed(p, e, 100) THEN "daily_loss_breached"
            ELSE IF TotalUsed(p, e, 100) THEN "max_drawdown_breached" ELSE ""]

\* (PropHardLine: the firm's lines instead of ours.)
PropHardLine(e) == Marked(e).breached = ""
PropAllows(e) ==
    LET p == Marked(e)
    IN  p.breached = "" /\ ~ DailyUsed(p, e, SoftPct) /\ ~ TotalUsed(p, e, SoftPct)

\* what the ghost sees of the lines: the same numbers, no latch
MeetsDayLine(e)  == session.start > 0 /\ (Banked(e) \/ Cut(e))
MeetsFirmLine(e) == LET p == [Rolled(e) EXCEPT !.high = Larger(@, e)]
                    IN  DailyUsed(p, e, 100) \/ TotalUsed(p, e, 100)

\* PortfolioHeatManager.check: open risk and the entry's own, against the cap
OpenRisk == SumFunction(risk)

\* (HeatBeforeEntry: the open risk alone against the cap.)
HeatBeforeEntry(tradable) == tradable > 0 /\ OpenRisk <= tradable * HeatPct
HeatAllows(tradable) ==
    tradable > 0 /\ OpenRisk + tradable * RiskPct <= tradable * HeatPct

------------------------------------------------------------------------------
\* The risk of the admitted entries, which the heat cap does not see
OnItsWay == SumFunction([s \in Symbols |-> check[s].risk])

\* The guard has been called for an entry of s and the equity is answered
Ask(s) ==
    /\ check[s].at = "idle"
    /\ check' = [check EXCEPT ![s] = [at |-> "asked", equity |-> equity, risk |-> 0]]
    /\ UNCHANGED <<account, baseline, session, prop, risk, traded, crossed, peak, last>>

\* The guard goes on with the answer. A layer that refuses ends it: the layers
\* behind it are not asked and keep their state.
Decide(s) ==
    LET e        == check[s].equity
        base     == IF baseline = 0 THEN e ELSE baseline
        tradable == Effective(e, base)
        reaches2 == BudgetAllows(e, base)
        reaches3 == reaches2 /\ SessionAllows(e)
        reaches4 == reaches3 /\ PropAllows(e)
        allowed  == reaches4 /\ HeatAllows(tradable)
    IN  /\ check[s].at = "asked"
        /\ baseline' = base
        /\ traded'   = IF baseline = 0 THEN equity - e - unrecorded ELSE traded
        /\ session'  = IF reaches2 THEN SessionAfter(e) ELSE session
        /\ crossed'  = crossed \cup {l \in {"day", "firm"} :
                                       \/ l = "day" /\ reaches2 /\ MeetsDayLine(e)
                                       \/ l = "firm" /\ reaches3 /\ MeetsFirmLine(e)}
        /\ prop'     = IF reaches3 THEN Marked(e) ELSE prop
        /\ check'    = [check EXCEPT ![s] =
                          IF allowed
                          THEN [at |-> "admitted", equity |-> 0, risk |-> tradable * RiskPct]
                          ELSE [at |-> "idle", equity |-> 0, risk |-> 0]]
        /\ peak'     = IF allowed THEN e ELSE IF reaches3 THEN Larger(peak, e) ELSE peak
        /\ last'     = IF allowed
                       THEN [cap |-> tradable * HeatPct, others |-> OnItsWay]
                       ELSE last
        /\ UNCHANGED <<account, risk>>

\* The admitted entry fills and is attached, at the size it was given
Fill(s) ==
    /\ check[s].at = "admitted"
    /\ risk'  = [risk EXCEPT ![s] = check[s].risk]
    /\ check' = [check EXCEPT ![s] = [at |-> "open", equity |-> 0, risk |-> 0]]
    /\ UNCHANGED <<account, baseline, session, prop, traded, crossed, peak, last>>

\* ... or it comes to nothing, or the position exits
End(s) ==
    /\ check[s].at \in {"admitted", "open"}
    /\ check' = [check EXCEPT ![s] = [at |-> "idle", equity |-> 0, risk |-> 0]]
    /\ risk'  = [risk EXCEPT ![s] = 0]
    /\ UNCHANGED <<account, baseline, session, prop, traded, crossed, peak, last>>

\* position_heat: a stop past breakeven has nothing at risk
Ratchet(s) ==
    /\ risk[s] > 0 /\ risk' = [risk EXCEPT ![s] = 0]
    /\ UNCHANGED <<account, baseline, session, prop, check, traded, crossed, peak, last>>

\* The market moves what is held
Trade(e) ==
    /\ e \in Equities /\ e # equity
    /\ \E s \in Symbols : check[s].at = "open"
    /\ equity' = e
    /\ traded' = IF baseline = 0 THEN 0 ELSE traded + e - equity
    /\ UNCHANGED <<now, unrecorded, baseline, session, prop, check, risk, crossed, peak, last>>

\* Money is moved in or out; the operator records it once it is there
Flow(amount) ==
    /\ unrecorded = 0 /\ baseline # 0
    /\ equity + amount \in Equities
    /\ baseline + amount - Opening \in Flows \cup {0}      \* bound of the model
    /\ equity' = equity + amount /\ unrecorded' = amount
    /\ UNCHANGED <<now, baseline, session, prop, check, risk, traded, crossed, peak, last>>

\* (FlowLowersBaseline: a deposit counted as profit, twice.)
FlowLowersBaseline == baseline - unrecorded
BaselineAfterFlow  == baseline + unrecorded

ExternalFlow ==
    /\ unrecorded # 0
    /\ baseline' = BaselineAfterFlow
    /\ unrecorded' = 0
    /\ UNCHANGED <<now, equity, session, prop, check, risk, traded, crossed, peak, last>>

\* feed_loop marks the account, prop_report does so on request
Mark ==
    /\ prop' = Marked(equity)
    /\ peak' = Larger(peak, equity)
    /\ crossed' = crossed \cup {l \in {"firm"} : MeetsFirmLine(equity)}
    /\ UNCHANGED <<account, baseline, session, check, risk, traded, last>>

\* The operator's day begins
StartSession ==
    /\ session.day # now \div 2
    /\ session' = [day |-> now \div 2, start |-> equity, tripped |-> ""]
    /\ crossed' = crossed \ {"day"}
    /\ UNCHANGED <<account, baseline, prop, check, risk, traded, peak, last>>

HalfDay ==
    /\ now < LastHalfDay /\ now' = now + 1
    /\ UNCHANGED <<equity, unrecorded, baseline, session, prop, check, risk,
                   traded, crossed, peak, last>>

GuardInit ==
    /\ now = 0 /\ equity = Opening /\ unrecorded = 0
    /\ baseline = 0
    /\ session = [day |-> -1, start |-> 0, tripped |-> ""]
    /\ prop = [day |-> -1, start |-> 0, high |-> Opening, breached |-> ""]
    /\ check = [s \in Symbols |-> [at |-> "idle", equity |-> 0, risk |-> 0]]
    /\ risk = [s \in Symbols |-> 0]
    /\ traded = 0 /\ crossed = {} /\ peak = 0
    /\ last = [cap |-> 0, others |-> 0]

GuardNext ==
    \/ \E s \in Symbols : Ask(s) \/ Decide(s) \/ Fill(s) \/ End(s) \/ Ratchet(s)
    \/ \E e \in Equities : Trade(e)
    \/ \E amount \in Flows : Flow(amount)
    \/ ExternalFlow \/ Mark \/ StartSession \/ HalfDay

GuardSpec == GuardInit /\ [][GuardNext]_guardVars

------------------------------------------------------------------------------
\* The types of the guards' state, and what ties an entry to its position.
GuardTypeOK ==
    /\ now \in 0 .. LastHalfDay /\ equity \in Equities /\ unrecorded \in Flows \cup {0}
    /\ baseline \in Int /\ traded \in Int /\ peak \in Equities \cup {0} /\ crossed \subseteq {"day", "firm"}
    /\ session \in [day : -1 .. LastHalfDay, start : Equities \cup {0}, tripped : {"", "profit_banked", "loss_stopped"}]
    /\ prop \in [day : -1 .. LastHalfDay, start : Equities \cup {0}, high : Equities,
                 breached : {"", "daily_loss_breached", "max_drawdown_breached"}]
    /\ check \in [Symbols -> [at : {"idle", "asked", "admitted", "open"},
                             equity : Equities \cup {0}, risk : Nat]]
    /\ risk \in [Symbols -> Nat]
    /\ last \in [cap : Nat, others : Nat]

\* The risk of what is open and of what is on its way never exceeds the cap the
\* last admission was measured against, plus the entries then on their way:
\* those the heat cap cannot see (portfolio_heat.py:59, positions_fn).
HeatBounded == OpenRisk + OnItsWay <= last.cap + last.others

\* A deposit or a withdrawal, once recorded, has no part in the budget: it is
\* the allocation and what trading made of it (budget_manager.py:19, "external
\* deposits/withdrawals are NOT trading P&L").
BudgetIsTradingOnly ==
    (baseline # 0 /\ unrecorded = 0) =>
        Effective(equity, baseline) = Larger(0, Smaller(Budget + traded, equity))

\* Once a check has met a line of the day's guard, no entry is admitted until
\* the next session, and once a mark has met the firm's, none ever is, however
\* the equity comes back (session_guard.py:52, prop_rules.py:64, "latched").
Admits(s) == check[s].at # "admitted" /\ check'[s].at = "admitted"
RefusalsHold ==
    [][\A s \in Symbols : Admits(s) => crossed' = {}]_guardVars

\* The firm's line is never the first one met: from the highest mark since the
\* last admission to the mark that breaches lies all that our line keeps back
\* of the budget it exhausts, over any number of days and whatever stale answer
\* the admission was given on (prop_rules.py:12, "OUR lines sit INSIDE the
\* firm's lines").
MarkedAt == LET asked == {s \in Symbols : check'[s] # check[s]}
            IN  IF asked = {} THEN equity ELSE check[CHOOSE s \in asked : TRUE].equity
LineBudget(p) == IF p.breached = "daily_loss_breached" THEN DailyPct * p.start
                 ELSE TotalPct * Base(p)
RoomBeforeLine ==
    [][(prop.breached = "" /\ prop'.breached # "" /\ last.cap # 0) =>
         10000 * (peak' - MarkedAt)
             > (100 - SoftPct) * LineBudget(prop')]_guardVars
=============================================================================
