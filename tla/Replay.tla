--------------------------------- MODULE Replay ---------------------------------
(***************************************************************************)
(* A replay of recorded daily bars through the whole stack, as             *)
(* src/scripts/research_replay.py, for any strategy, and                   *)
(* src/scripts/paper_replay_real.py, for the baseline, run it. One symbol. *)
(*                                                                         *)
(* A day has a morning, where the open is shown to the broker and an entry *)
(* may be routed, four windows of ticks, each of which ends with on_bar,   *)
(* and an evening, where a day is added to the gate's evidence.            *)
(***************************************************************************)
EXTENDS Signals

CONSTANTS
    Script,     \* "research" or "real"
    STRATEGY,   \* the strategy of a research replay
    LONG_ONLY,  \* its option
    Shapes,     \* the bars there are
    Warmup,     \* 21: the bars before the first decision
    Days        \* the bars of the recording, more than Warmup

VARIABLES
    bars,     \* the recording up to the current day
    at,       \* "morning", "routing", "ticks", "evening", "done"
    windows,  \* the windows of the day that are over
    book,     \* the side of ExitManager's position, or "none"
    lot,      \* ... of the broker's
    wanted,   \* the decision of this morning
    gate      \* gate_state.json: days and streak

replayVars == <<bars, at, windows, book, lot, wanted, gate>>

Nothing == [side |-> "none", atr |-> 0]
Today == Len(bars) - 1

------------------------------------------------------------------------------
\* sma and real_regime of paper_replay_real: a trend is a rise
TrendAbove(history, i) ==
    IF ~ HasSma(i, N20) THEN "RANGE"
    ELSE IF DevAbove(history, i, N20, Strong) THEN "STRONG_TREND"
    ELSE IF DevAbove(history, i, N20, 0) THEN "WEAK_TREND" ELSE "RANGE"

\* ... and its entry, which takes no account of it: yesterday's close above the
\* average, and a range to put the stop at
RealDecision(history, i) ==
    [side |-> IF Atr(history, i) = 0 THEN "none"
              ELSE Baseline(history, i, [vol |-> Volatility(history, i), trend |-> TrendAbove(history, i)]),
     atr |-> Atr(history, i)]

ResearchDecision(history, i) ==
    LET d == ReplayDecision(STRATEGY, history, i)
    IN  IF LONG_ONLY /\ d.side = "sell" THEN [d EXCEPT !.side = "none"] ELSE d

Decision(history, i) ==
    IF Script = "research" THEN ResearchDecision(history, i) ELSE RealDecision(history, i)

\* The morning: the stop may fire at the open, behind the book's back. A symbol
\* that is held gets no entry; in a research replay the giveback throttle, the
\* session guard, the budget and the heat may refuse one as well (~ open).
Morning(bar, fires, open) ==
    /\ at = "morning" /\ Len(bars) < Days
    /\ bars' = Append(bars, bar) /\ windows' = 0
    /\ LET trades == Today' >= Warmup
       IN  /\ lot' = IF trades /\ fires THEN "none" ELSE lot
           /\ wanted' = IF trades /\ book = "none" /\ open THEN Decision(bars', Today') ELSE Nothing
           /\ at' = IF ~ trades THEN "evening" ELSE IF wanted'.side # "none" THEN "routing" ELSE "ticks"
    /\ UNCHANGED <<book, gate>>

\* route_order returns: filled and attached, or counted as rejected
Routed(accepted) ==
    /\ at = "routing" /\ at' = "ticks"
    /\ book' = IF accepted THEN wanted.side ELSE book
    /\ lot' = IF accepted THEN wanted.side ELSE lot
    /\ UNCHANGED <<bars, windows, wanted, gate>>

\* Six ticks, on which the stop may fire, and on_bar, which sees that it did, or
\* exits on its own account
TickWindow(fires, exits) ==
    /\ at = "ticks" /\ windows < 4
    /\ windows' = windows + 1
    /\ lot' = IF fires \/ exits THEN "none" ELSE lot
    /\ book' = IF fires \/ exits THEN "none" ELSE book
    /\ at' = IF windows' = 4 THEN "evening" ELSE "ticks"
    /\ UNCHANGED <<bars, wanted, gate>>

\* The pause is deleted and the gate advanced as after a clean reconciliation;
\* nothing was reconciled
Evening ==
    /\ at = "evening" /\ at' = "morning"
    /\ gate' = [days |-> gate.days + 1, streak |-> gate.streak + 1]
    /\ UNCHANGED <<bars, windows, book, lot, wanted>>

\* After the last date the broker's tradebook is reconciled with itself, and the
\* results are written; the gate stays shut for want of the operator's word
Results ==
    /\ at = "morning" /\ Len(bars) = Days /\ at' = "done"
    /\ UNCHANGED <<bars, windows, book, lot, wanted, gate>>

\* gate_state.json is unlinked, halt.sentinel too, the broker is new
ReplayInit ==
    /\ bars = <<>> /\ at = "morning" /\ windows = 0 /\ book = "none" /\ lot = "none"
    /\ wanted = Nothing /\ gate = [days |-> 0, streak |-> 0]

ReplayNext ==
    \/ \E bar \in Shapes, fires, open \in BOOLEAN : Morning(bar, fires, open)
    \/ \E accepted \in BOOLEAN : Routed(accepted)
    \/ \E fires, exits \in BOOLEAN : TickWindow(fires, exits)
    \/ Evening \/ Results

ReplaySpec == ReplayInit /\ [][ReplayNext]_replayVars

------------------------------------------------------------------------------
\* What is wanted at the open of a day is decided by its open and the days
\* before it (signals.py:9-10, "decisions use data up to bars[i-1] only - no
\* lookahead; entries execute at bars[i]["open"]"): a bar that opens alike and
\* goes elsewhere asks for the same entry.
DecidedAtTheOpen ==
    at = "routing" =>
        \A bar \in Shapes : bar.open = Bar(bars, Today).open =>
            Decision([bars EXCEPT ![Today + 1] = bar], Today).side = wanted.side
=============================================================================
