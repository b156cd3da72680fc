-------------------------- MODULE MCPortfolioGuards --------------------------
(***************************************************************************)
(* Two symbols, whose entries overlap. The account opens at 20: the firm's *)
(* daily line is at 16, ours at 17.6, its trailing line 30% under the peak,*)
(* ours 18%; the day is banked 10% up and cut 15% down; the budget is 10,  *)
(* its floor 5. 14, 16, 20 and 22 cross each line in one move or in        *)
(* several, on one day or over a roll; three half days roll either kind of *)
(* day once.                                                               *)
(*                                                                         *)
(* The sizes that ask to pass these guards are computed by Formulas, which *)
(* is checked beside them, over all inputs of a grid: entries with stops   *)
(* on either side, tight and wide, with and without an edge; a VaR that is *)
(* negative, at the limit and above it; orders of less than a lot to more  *)
(* than the slices can hold at the wanted participation. This does not     *)
(* depend on the state, and is looked at in the initial one.               *)
(***************************************************************************)
EXTENDS PortfolioGuards, Formulas, TLC
MCFlows == {-2}
Symmetry == Permutations(Symbols)

Edges   == {<<Absent, Absent>>, <<60, 20>>, <<30, 10>>, <<95, 30>>}
Entries == {[entry |-> p, stop |-> s, atr |-> a, lot |-> l, pWin |-> e[1], payoff |-> e[2]] :
                p \in {7, 20}, s \in {5, 19, 23}, a \in {0, 2}, l \in {1, 3}, e \in Edges}

\* A size keeps to every limit at once, whatever the edge and the cached VaR
\* say, negative ones included: its loss at the stop to the risk per trade, its
\* value to the cap, its loss over a gap to the budget of the day, and it is
\* made of whole lots (position_sizer.py:72-110). Nothing is sent without a VaR
\* and a margin that could be read. An order cut into slices loses none of its
\* whole lots, however few the slices may be (order_slicer.py:36-52).
SizesKeepLimits ==
    GuardInit =>
        /\ \A e \in Entries, balance \in {50, 1000, 3333}, var \in -3 .. MaxVar + 1 \cup {Absent},
              leg \in {"india", "mt5_forex"}, share \in {Absent, 25, 100} :
               SizeKeepsLimits(leg, e, balance, var,
                               IF share = Absent THEN Absent ELSE (balance * share) \div 100)
        /\ \A qty \in 1 .. 60, volume \in {1, 40, 200}, lot \in {1, 3, 7} : SlicesAddUp(qty, volume, lot)
=============================================================================
