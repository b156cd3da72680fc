-------------------------------- MODULE MCDesk --------------------------------
(***************************************************************************)
(* Two symbols, one of each leg, and two sleeves, so that a sleeve may     *)
(* claim what another wanted and own one symbol while the operator trades  *)
(* the other. Two entries, and a third that was on its way, reach a second *)
(* and a third lot of a symbol, of the same side and of the other, by the  *)
(* operator alone and by both at once, with stops forgotten, fired or      *)
(* facing the wrong side on the way.                                       *)
(*                                                                         *)
(* What the sleeves want is computed by Signals, which is checked beside   *)
(* the desk on all histories of five bars of five shapes: rises, falls,    *)
(* wide days and gaps. On them every signal fires, both ways where it has  *)
(* two: the windows are cut to one to three bars. What is asked of them    *)
(* does not depend on the state, and is looked at in the initial one; so   *)
(* is what is asked of PaperBroker, after every sequence of up to four     *)
(* calls: two prices, one and two units either way, and a stop of each     *)
(* side that is moved, withdrawn, or met by a gap.                         *)
(***************************************************************************)
EXTENDS Desk, Signals, PaperBroker
MCUniverse == <<"a", "b">>
MCRegistry == <<"breakout", "revert">>
MCLegOf == [s \in {"a", "b"} |-> IF s = "a" THEN "india" ELSE "mt5"]

Shapes == {[open |-> 4, high |-> 5, low |-> 3, close |-> 5],
           [open |-> 4, high |-> 5, low |-> 3, close |-> 3],
           [open |-> 2, high |-> 6, low |-> 2, close |-> 6],
           [open |-> 6, high |-> 6, low |-> 2, close |-> 2],
           [open |-> 5, high |-> 5, low |-> 4, close |-> 4]}
Histories == [1 .. 5 -> Shapes]
Regimes   == {[vol |-> "SHOCK", trend |-> "WEAK_TREND"], [vol |-> "NORMAL", trend |-> "WEAK_TREND"],
              [vol |-> "NORMAL", trend |-> "RANGE"]}

\* The direction of every signal is that of the bar the market just opened and
\* of nothing it does later (signals.py:9-10): the same for a bar that goes up,
\* goes down, or has only an open, with the regime given.
SignalsDoNotLookAhead ==
    DeskInit =>
        \A h \in Histories, name \in SIGNALS, regime \in Regimes :
            LET d == SignalFn(name, Append(h, Opened(4)), 5, regime)
            IN  \A b \in {[open |-> 4, high |-> 9, low |-> 4, close |-> 9],
                          [open |-> 4, high |-> 4, low |-> 1, close |-> 1]} :
                    SignalFn(name, Append(h, b), 5, regime) = d

Calls == {[call |-> "tick", price |-> p] : p \in {10, 13}}
         \cup {[call |-> "market", action |-> a, qty |-> q] : a \in {"BUY", "SELL"}, q \in {1, 2}}
         \cup {[call |-> "stop", action |-> "SELL", qty |-> 2, price |-> 11],
               [call |-> "stop", action |-> "BUY", qty |-> 1, price |-> 11],
               [call |-> "modify", id |-> 1, price |-> 10], [call |-> "cancel", id |-> 1]}

\* The equity every guard is fed with is what the fills are worth at the last
\* price, costs included, through averages, partial closes and shorts, unless a
\* single fill turned a long position short (paper_broker.py:135-146, :165-172;
\* see the README, Divergences, for that case).
EquityIsTrue ==
    DeskInit =>
        \A n \in 0 .. 4 : \A calls \in [1 .. n -> Calls] :
            LET b == AfterCalls(<<[call |-> "tick", price |-> 10]>> \o calls)
            IN  ~ b.flipped => EquityTimes(b) = b.avg[2] * Worth(b)
=============================================================================
