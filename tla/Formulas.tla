-------------------------------- MODULE Formulas --------------------------------
(***************************************************************************)
(* How large an entry may be: the sizing of src/src/core/position_sizer.py, *)
(* the slices of order_slicer.py, and the checks of the router and of      *)
(* margin_checker.py around them. Prices, amounts and quantities are       *)
(* integers, in units as small as one likes, and the limits percentages;   *)
(* nothing but the two roundings to lots is rounded.                       *)
(***************************************************************************)
EXTENDS Integers, Sequences, FiniteSetsExt, SequencesExt

CONSTANTS
    MaxRiskPct, MaxPositionPct, MaxDailyLossPct,  \* RiskLimits: per trade, per position, per day
    KellyCap, GapAtr,                    \* ... percent, and multiples of the range
    MaxVar,                              \* ... max_var_daily
    Buffer, FreeMargin,                  \* ... margin_buffer_india, mt5_min_free_margin_pct
    Participation, MaxSlices             \* plan_slices: percent of an interval, and a number

ASSUME FormulasAssumption ==
    /\ {MaxRiskPct, MaxPositionPct, MaxDailyLossPct, KellyCap, FreeMargin, Participation} \subseteq 0 .. 100
    /\ {GapAtr, Buffer} \subseteq Nat /\ {MaxVar, MaxSlices} \subseteq Nat \ {0}

Absent == -1000   \* a value that was not given, or could not be had

------------------------------------------------------------------------------
(* _check_var_headroom: the cached VaR, or a refusal.                       *)
VarAllows(cached) == cached # Absent /\ cached < MaxVar

(* calculate_position_size. An entry has its price, its stop, a range, a lot *)
(* and, where an edge is known, a chance to win in percent and a payoff in   *)
(* tenths.                                                                   *)

\* kelly_fraction over a common denominator, clamped, and 1 without an edge
Kelly(e) ==
    IF e.pWin = Absent \/ e.payoff = Absent THEN [num |-> 1, den |-> 1]
    ELSE LET den  == 100 * e.payoff
             full == e.pWin * e.payoff - 10 * (100 - e.pWin)
         IN  IF e.payoff <= 0 \/ full <= 0 THEN [num |-> 0, den |-> 1]
             ELSE [num |-> Min({full, KellyCap * e.payoff}), den |-> den]

\* the clamped headroom, over MaxVar
\* (HeadroomUnclamped: a corrupt VaR makes it more than the whole.)
HeadroomUnclamped(var) == MaxVar - var
Headroom(var) == Max({0, Min({MaxVar, MaxVar - var})})

RiskPerUnit(e) == IF e.entry < e.stop THEN e.stop - e.entry ELSE e.entry - e.stop
GapLoss(e) == RiskPerUnit(e) + GapAtr * e.atr

\* the largest whole number of lots below each of the three bounds
BaseLots(e, balance, var) ==
    (balance * MaxRiskPct * Kelly(e).num * Headroom(var))
        \div (100 * RiskPerUnit(e) * Kelly(e).den * MaxVar * e.lot)
CapLots(e, balance, var) == (balance * MaxPositionPct * Headroom(var)) \div (100 * e.entry * MaxVar * e.lot)
GapLots(e, balance) == (balance * MaxDailyLossPct) \div (100 * GapLoss(e) * e.lot)

\* net: whether the after-cost gate lets the size pass
SizeOf(e, balance, var, net) ==
    IF e.entry <= 0 \/ balance <= 0 \/ e.atr < 0 \/ e.lot <= 0 \/ e.entry = e.stop \/ ~ net THEN 0
    ELSE e.lot * Min({BaseLots(e, balance, var), CapLots(e, balance, var), GapLots(e, balance)})

------------------------------------------------------------------------------
(* plan_slices, for an interval of so much volume.                          *)
WholeLots(qty, lot) == (qty \div lot) * lot

MaxChild(volume, lot) == Max({lot, ((volume * Participation) \div (100 * lot)) * lot})
Children(qty, volume, lot) ==
    LET child == MaxChild(volume, lot)
    IN  Min({MaxSlices, Max({1, (qty + child - 1) \div child})})

LastSlice(qty, n, base, lot) == base + WholeLots(qty - base * n, lot)

PlanSlices(qty, volume, lot) ==
    IF qty <= 0 \/ lot <= 0 \/ volume <= 0 THEN <<>>
    ELSE LET n     == Children(qty, volume, lot)
             base  == ((qty \div n) \div lot) * lot
             whole == WholeLots(qty, lot)
         IN  IF base > 0
             THEN [k \in 1 .. n |-> IF k < n THEN base ELSE LastSlice(qty, n, base, lot)]
             ELSE IF whole > 0 THEN <<whole>> ELSE <<>>

------------------------------------------------------------------------------
(* MarginChecker: a broker that cannot be asked refuses.                    *)
CheckIndia(qty, price, lot, available, required) ==
    /\ qty > 0 /\ price > 0
    /\ lot > 1 => qty % lot = 0
    /\ available # Absent /\ required # Absent
    /\ 100 * available >= required * (100 + Buffer)

CheckMt5(lots, free, equity, required) ==
    /\ lots > 0
    /\ Absent \notin {free, equity, required}
    /\ equity > 0 /\ 100 * (free - required) >= FreeMargin * equity

\* route_order's way through these: what it sends, 0 for a refusal. The margin a
\* paper account requires is the value of the order.
Admitted(leg, e, balance, cached, available) ==
    LET qty == SizeOf(e, balance, cached, TRUE)
        passes == IF leg = "india" THEN CheckIndia(qty, e.entry, e.lot, available, qty * e.entry)
                  ELSE CheckMt5(qty, available, balance, qty * e.entry)
    IN  IF VarAllows(cached) /\ passes THEN qty ELSE 0

------------------------------------------------------------------------------
\* A size keeps to every limit at once, whatever the edge and the cached VaR
\* say, negative ones included: its loss at the stop to the risk per trade, its
\* value to the cap, its loss over a gap to the budget of the day, and it is
\* made of whole lots (position_sizer.py:72-110). Nothing is sent without a VaR
\* and a margin that could be read.
SizeKeepsLimits(leg, e, balance, cached, available) ==
    LET qty == Admitted(leg, e, balance, cached, available)
    IN  /\ qty >= 0 /\ qty % e.lot = 0
        /\ qty > 0 => Absent \notin {cached, available} /\ qty * e.entry <= available
        /\ 100 * qty * RiskPerUnit(e) <= MaxRiskPct * balance
        /\ 100 * qty * e.entry <= MaxPositionPct * balance
        /\ 100 * qty * GapLoss(e) <= MaxDailyLossPct * balance

\* Slices are made of whole lots, and together of all the whole lots of the
\* order, however few slices there may be (order_slicer.py:36-52).
SlicesAddUp(qty, volume, lot) ==
    LET plan == PlanSlices(qty, volume, lot)
    IN  /\ Len(plan) <= MaxSlices
        /\ \A k \in DOMAIN plan : plan[k] > 0 /\ plan[k] % lot = 0
        /\ SumFunction(plan) = WholeLots(qty, lot)
=============================================================================
