------------------------------ MODULE PaperBroker ------------------------------
(***************************************************************************)
(* The money of the paper desk: src/src/core/paper_broker.py, behind the   *)
(* calls of src/src/ops/paper_server.py. A broker is a value, a call maps  *)
(* it to the next one. One symbol: cash is all that two would share.       *)
(*                                                                         *)
(* Prices and cash are whole units; the impact of an order and its costs,  *)
(* two formulas of transaction_cost_model.py, are a constant each. An      *)
(* average price is a fraction, <<numerator, denominator>>.                *)
(***************************************************************************)
EXTENDS Integers, Sequences, SequencesExt

CONSTANTS
    StartingCash,  \* starting_cash
    Slip,          \* what a market order moves the price against itself
    Fee            \* the costs of a fill, per unit

ASSUME BrokerAssumption == {StartingCash, Slip, Fee} \subseteq Nat

\* A new broker. "flipped" is a ghost: a fill turned a long position into the
\* short one there is
NewBroker ==
    [cash |-> StartingCash, costs |-> 0, last |-> 0, qty |-> 0, avg |-> <<0, 1>>,
     resting |-> <<>>, fills |-> <<>>, ids |-> 0, flipped |-> FALSE]

Signed(action, qty) == IF action = "BUY" THEN qty ELSE -qty

------------------------------------------------------------------------------
\* _fill: the average price after it
FlipsThroughZero(b, new) == b.qty # 0 /\ (b.qty > 0) # (new > 0) /\ new # 0

Weighted(avg, qty, add, price) == <<avg[1] * qty + add * price * avg[2], avg[2] * (qty + add)>>

\* (AveragesShorts: a short is given an average price, like a long position.)
AveragesShorts(b, signed, price) ==
    LET new == b.qty + signed
    IN  IF new = 0 THEN <<0, 1>>
        ELSE IF FlipsThroughZero(b, new) THEN <<price, 1>>
        ELSE IF (signed > 0) = (new > 0) THEN Weighted(b.avg, b.qty, signed, price)
        ELSE b.avg
AvgAfter(b, signed, price) ==
    LET new == b.qty + signed
    IN  IF new = 0 THEN <<0, 1>>
        ELSE IF FlipsThroughZero(b, new) THEN <<price, 1>>
        ELSE IF signed > 0 /\ new > 0 THEN Weighted(b.avg, b.qty, signed, price)
        ELSE b.avg

Filled(b, action, qty, ref) ==
    LET signed == Signed(action, qty)
        price  == IF action = "BUY" THEN ref + Slip ELSE ref - Slip
        cost   == Fee * qty
        new    == b.qty + signed
    IN  [b EXCEPT !.qty = new,
                  !.avg = AvgAfter(b, signed, price),
                  !.cash = @ - signed * price - cost,
                  !.costs = @ + cost,
                  !.fills = Append(@, [signed |-> signed, price |-> price, cost |-> cost]),
                  !.flipped = new < 0 /\ (@ \/ b.qty > 0)]

------------------------------------------------------------------------------
(* The calls. A refusal leaves everything as it was.                        *)

\* on_tick: every resting stop the price has reached is filled in turn, at the
\* price, which is at the trigger or beyond it
Hit(order, price) ==
    IF order.action = "SELL" THEN price <= order.trigger ELSE price >= order.trigger

Reached(b, order, price) ==
    IF Hit(order, price) THEN Filled(b, order.action, order.qty, price)
    ELSE [b EXCEPT !.resting = Append(@, order)]

Ticked(b, price) ==
    FoldLeft(LAMBDA c, order : Reached(c, order, price),
             [b EXCEPT !.last = price, !.resting = <<>>], b.resting)

\* place_order: a stop rests, whatever the price; a market order is filled, if
\* there is a price and, for a BUY, cash for it before slippage and costs
Rested(b, action, qty, trigger) ==
    [b EXCEPT !.ids = @ + 1,
              !.resting = Append(@, [id |-> b.ids + 1, action |-> action, qty |-> qty, trigger |-> trigger])]

Bought(b, action, qty) ==
    IF b.last = 0 THEN b
    ELSE IF action = "BUY" /\ qty * b.last > b.cash THEN [b EXCEPT !.ids = @ + 1]
    ELSE Filled([b EXCEPT !.ids = @ + 1], action, qty, b.last)

\* modify_order, cancel_order
Modified(b, id, trigger) ==
    [b EXCEPT !.resting =
        [i \in DOMAIN @ |-> IF @[i].id = id THEN [@[i] EXCEPT !.trigger = trigger] ELSE @[i]]]

Withdrawn(b, id) ==
    [b EXCEPT !.resting = FoldLeft(LAMBDA kept, order : IF order.id = id THEN kept ELSE Append(kept, order),
                                   <<>>, @)]

Called(b, c) ==
    CASE c.call = "tick"   -> Ticked(b, c.price)
      [] c.call = "market" -> Bought(b, c.action, c.qty)
      [] c.call = "stop"   -> Rested(b, c.action, c.qty, c.price)
      [] c.call = "modify" -> Modified(b, c.id, c.price)
      [] c.call = "cancel" -> Withdrawn(b, c.id)

AfterCalls(calls) == FoldLeft(Called, NewBroker, calls)

------------------------------------------------------------------------------
\* equity(), times the denominator of the average price
EquityTimes(b) ==
    LET n == b.avg[1]
        d == b.avg[2]
    IN  d * b.cash + b.qty * (d * b.last - n) + (IF b.qty > 0 THEN b.qty * n ELSE 0)

\* What the fills alone say: cash, and the position at a price
FillWorth(fill, price) == fill.signed * (price - fill.price) - fill.cost
Worth(b) == FoldLeft(LAMBDA sum, fill : sum + FillWorth(fill, b.last), StartingCash, b.fills)
=============================================================================
