-------------------------------- MODULE Signals --------------------------------
(***************************************************************************)
(* The entry signals of src/src/strategies/signals.py and the regime and   *)
(* range the strategy engine and the replays compute for them. Bars are    *)
(* records of four prices; i is the index of the current bar, counted from *)
(* 0 as in the code, and a signal is "buy", "sell" or "none".              *)
(*                                                                         *)
(* The lengths of the windows and the thresholds are parameters. Averages  *)
(* and ratios are compared by cross-multiplication, so nothing is rounded. *)
(***************************************************************************)
EXTENDS Integers, Sequences, FiniteSetsExt, Functions

CONSTANTS
    N20, N50,          \* the windows of the averages, and N20 of the channel
    M21, M63, R2, G4,  \* ... of the momenta, the RSI and the swings
    A14,               \* ... of the average true range
    Chop,              \* tsmom_f: a deviation from the average, in thousandths
    Strong, Weak, Flat \* real_regime: the same

ASSUME SignalsAssumption ==
    /\ {N20, N50, M21, M63, R2, G4, A14} \subseteq Nat \ {0}
    /\ {Chop, Strong, Weak, Flat} \subseteq Nat

Bar(bars, k) == bars[k + 1]
Close(bars, i) == Bar(bars, i - 1).close
Abs(x) == IF x < 0 THEN -x ELSE x

------------------------------------------------------------------------------
(* Indicators: over the bars before i.                                      *)

\* sma: the window, and the sum of its closes
\* (WindowThroughNow: the window ends with the current bar.)
WindowThroughNow(i, n) == i - n + 1 .. i
Window(i, n) == i - n .. i - 1

HasSma(i, n) == i >= n
SmaSum(bars, i, n) == SumFunction([k \in Window(i, n) |-> Bar(bars, k).close])

Above(bars, i, n) == HasSma(i, n) /\ n * Close(bars, i) > SmaSum(bars, i, n)
Below(bars, i, n) == HasSma(i, n) /\ n * Close(bars, i) < SmaSum(bars, i, n)

\* c > s20 > s50, and its mirror
FastAboveSlow(bars, i) ==
    HasSma(i, N20) /\ HasSma(i, N50) /\ N50 * SmaSum(bars, i, N20) > N20 * SmaSum(bars, i, N50)
FastBelowSlow(bars, i) ==
    HasSma(i, N20) /\ HasSma(i, N50) /\ N50 * SmaSum(bars, i, N20) < N20 * SmaSum(bars, i, N50)

\* |c - sma| / sma above so many thousandths, above or below
DevAbove(bars, i, n, t) == 1000 * (n * Close(bars, i) - SmaSum(bars, i, n)) > t * SmaSum(bars, i, n)
DevBelow(bars, i, n, t) == 1000 * (SmaSum(bars, i, n) - n * Close(bars, i)) > t * SmaSum(bars, i, n)

HasMom(i, n) == i - 1 - n >= 0
Rising(bars, i, n)  == HasMom(i, n) /\ Close(bars, i) > Bar(bars, i - 1 - n).close
Falling(bars, i, n) == HasMom(i, n) /\ Close(bars, i) < Bar(bars, i - 1 - n).close

\* rsi, 50 where nothing moved; below and above so many per cent
Change(bars, k) == Bar(bars, k).close - Bar(bars, k - 1).close
Gain(d) == IF d >= 0 THEN d ELSE 0
Loss(d) == IF d < 0 THEN -d ELSE 0
Gains(bars, i, n)  == SumFunction([k \in i - n .. i - 1 |-> Gain(Change(bars, k))])
Losses(bars, i, n) == SumFunction([k \in i - n .. i - 1 |-> Loss(Change(bars, k))])
RsiBelow(bars, i, t) ==
    HasMom(i, R2) /\ 100 * Gains(bars, i, R2) < t * (Gains(bars, i, R2) + Losses(bars, i, R2))
RsiAbove(bars, i, t) ==
    HasMom(i, R2) /\ 100 * Gains(bars, i, R2) > t * (Gains(bars, i, R2) + Losses(bars, i, R2))

\* donchian: the bars before the last complete one
Channel(i, n) == i - 1 - n .. i - 2
Highest(bars, S) == Max({Bar(bars, k).high : k \in S})
Lowest(bars, S)  == Min({Bar(bars, k).low : k \in S})

------------------------------------------------------------------------------
(* The signals. A regime has a volatility and a trend.                      *)

Side(buy, sell) == IF buy THEN "buy" ELSE IF sell THEN "sell" ELSE "none"
Calm(regime) == regime.vol # "SHOCK"

Baseline(bars, i, regime) == Side(Above(bars, i, N20), FALSE)

Tsmom(bars, i, regime) ==
    Side(Above(bars, i, N50) /\ Rising(bars, i, M63), Below(bars, i, N50) /\ Falling(bars, i, M63))

TsmomF(bars, i, regime) ==
    LET chop == Abs(1000 * (N20 * Close(bars, i) - SmaSum(bars, i, N20))) < Chop * SmaSum(bars, i, N20)
    IN  IF Calm(regime) /\ HasSma(i, N20) /\ ~ chop THEN Tsmom(bars, i, regime) ELSE "none"

Donchian(bars, i, regime) ==
    IF Calm(regime) /\ HasMom(i, N20)
    THEN Side(Close(bars, i) > Highest(bars, Channel(i, N20)), Close(bars, i) < Lowest(bars, Channel(i, N20)))
    ELSE "none"

Rsi2(bars, i, regime) == Side(Above(bars, i, N50) /\ RsiBelow(bars, i, 10), FALSE)

Improved(bars, i, regime) ==
    LET buy  == Above(bars, i, N20) /\ FastAboveSlow(bars, i) /\ Rising(bars, i, M63)
        sell == Below(bars, i, N20) /\ FastBelowSlow(bars, i) /\ Falling(bars, i, M63)
    IN  IF Calm(regime) THEN Side(buy, sell) ELSE "none"

Improved2(bars, i, regime) ==
    Side(Calm(regime) /\ Above(bars, i, N20) /\ Rising(bars, i, M21), FALSE)

Improved3(bars, i, regime) ==
    Side(Calm(regime) /\ Above(bars, i, N20) /\ Above(bars, i, N50) /\ Rising(bars, i, M21), FALSE)

Pullback(bars, i) == Above(bars, i, N50) /\ Rising(bars, i, M21) /\ RsiBelow(bars, i, 25)
Rally(bars, i)    == Below(bars, i, N50) /\ Falling(bars, i, M21) /\ RsiAbove(bars, i, 75)

Accurate(bars, i, regime) ==
    Side(Calm(regime) /\ regime.trend # "RANGE" /\ Pullback(bars, i), FALSE)

\* the short side is not kept out of a range
AccurateLs(bars, i, regime) ==
    IF Accurate(bars, i, regime) = "buy" THEN "buy"
    ELSE Side(FALSE, Calm(regime) /\ Rally(bars, i))

Vbo(bars, i, regime) ==
    LET y == Bar(bars, i - 1)
        range == Bar(bars, i - 2).high - Bar(bars, i - 2).low
    IN  IF i >= 3 /\ range > 0 THEN Side(y.close > y.open + range, y.close < y.open - range) ELSE "none"

Oops(bars, i, regime) ==
    LET y == Bar(bars, i - 1)
        p == Bar(bars, i - 2)
    IN  IF i >= 3
        THEN Side(y.open < p.low /\ y.close > p.low, y.open > p.high /\ y.close < p.high)
        ELSE "none"

\* beyond the open by 1.8 of the mean swing of the bars that closed the other way
Gsv(bars, i, regime) ==
    LET y     == Bar(bars, i - 1)
        downs == {k \in Channel(i, G4) : Bar(bars, k).close < Bar(bars, k).open}
        ups   == {k \in Channel(i, G4) : Bar(bars, k).close > Bar(bars, k).open}
        high  == SumFunction([k \in downs |-> Bar(bars, k).high - Bar(bars, k).open])
        low   == SumFunction([k \in ups |-> Bar(bars, k).open - Bar(bars, k).low])
    IN  IF i >= G4 + 3
        THEN Side(high > 0 /\ 10 * Cardinality(downs) * (y.close - y.open) > 18 * high,
                  low > 0 /\ 10 * Cardinality(ups) * (y.open - y.close) > 18 * low)
        ELSE "none"

SIGNALS == {"baseline", "tsmom", "tsmom_f", "donchian", "rsi2", "improved", "improved2",
            "improved3", "accurate", "accurate_ls", "vbo", "oops", "gsv"}

SignalFn(name, bars, i, regime) ==
    CASE name = "baseline"    -> Baseline(bars, i, regime)
      [] name = "tsmom"       -> Tsmom(bars, i, regime)
      [] name = "tsmom_f"     -> TsmomF(bars, i, regime)
      [] name = "donchian"    -> Donchian(bars, i, regime)
      [] name = "rsi2"        -> Rsi2(bars, i, regime)
      [] name = "improved"    -> Improved(bars, i, regime)
      [] name = "improved2"   -> Improved2(bars, i, regime)
      [] name = "improved3"   -> Improved3(bars, i, regime)
      [] name = "accurate"    -> Accurate(bars, i, regime)
      [] name = "accurate_ls" -> AccurateLs(bars, i, regime)
      [] name = "vbo"         -> Vbo(bars, i, regime)
      [] name = "oops"        -> Oops(bars, i, regime)
      [] name = "gsv"         -> Gsv(bars, i, regime)

------------------------------------------------------------------------------
(* atr14 and real_regime, as the engine and both replays write them. They   *)
(* take in the bar i itself.                                                *)

TrueRange(bars, k) ==
    LET b == Bar(bars, k)
        c == Bar(bars, k - 1).close
    IN  Max({b.high - b.low, Abs(b.high - c), Abs(b.low - c)})

HasAtr(i) == i >= A14 + 1
AtrSum(bars, i) == SumFunction([k \in i - A14 + 1 .. i |-> TrueRange(bars, k)])
Atr(bars, i) == IF HasAtr(i) THEN AtrSum(bars, i) ELSE 0

Volatility(bars, i) ==
    IF HasAtr(i) /\ 10 * A14 * TrueRange(bars, i) > 25 * AtrSum(bars, i) THEN "SHOCK" ELSE "NORMAL"

Deviates(bars, i, t) == DevAbove(bars, i, N20, t) \/ DevBelow(bars, i, N20, t)

Trend(bars, i) ==
    IF ~ HasSma(i, N20) THEN "RANGE"
    ELSE IF Deviates(bars, i, Strong) THEN "STRONG_TREND"
    ELSE IF Deviates(bars, i, Weak) THEN "WEAK_TREND" ELSE "RANGE"

TrendDirection(bars, i) ==
    IF ~ HasSma(i, N20) THEN "FLAT"
    ELSE IF DevAbove(bars, i, N20, Flat) THEN "UP"
    ELSE IF DevBelow(bars, i, N20, Flat) THEN "DOWN" ELSE "FLAT"

RealRegime(bars, i) ==
    [vol |-> Volatility(bars, i), trend |-> Trend(bars, i), direction |-> TrendDirection(bars, i)]

------------------------------------------------------------------------------
(* Who asks: the engine, of the history it has been given and a bar that   *)
(* has only opened, with the regime of the bar before; a replay, of its    *)
(* recorded bars, with the regime of the day itself.                       *)

Opened(px) == [open |-> px, high |-> px, low |-> px, close |-> px]

\* _evaluate_symbol: what a sleeve wants, and the range its stop is put at
EngineDecision(name, history, px) ==
    LET bars == Append(history, Opened(px))
        i    == Len(bars) - 1
    IN  [side |-> IF Atr(bars, i - 1) = 0 THEN "none" ELSE SignalFn(name, bars, i, RealRegime(bars, i - 1)),
         atr  |-> Atr(bars, i - 1)]

\* research_replay.run: one symbol of one day
ReplayDecision(name, bars, i) ==
    [side |-> IF Atr(bars, i) = 0 THEN "none" ELSE SignalFn(name, bars, i, RealRegime(bars, i)),
     atr  |-> Atr(bars, i)]
=============================================================================
