----------------------------- MODULE MCLiveFeed -----------------------------
(***************************************************************************)
(* Two candle buckets of one day, one of the next: markets that close and  *)
(* reopen in between.                                                      *)
(*                                                                         *)
(* The clock that says so is checked beside the feeds, at every slot of    *)
(* two weeks: of eight slots to a day, India trades in two, a quarter of a *)
(* day ahead of UTC, with a holiday in mid-week and one before a weekend;  *)
(* the forex week is cut on its last day. (Not a matter of the state, and  *)
(* looked at in the initial one.)                                          *)
(***************************************************************************)
EXTENDS LiveFeed, MarketClock

MCSymbols == <<"a", "b", "c">>
MCOpenAt == [i \in 0..MaxTime |->
                CASE i = 0 -> {"b", "c"} [] i = 1 -> {} [] OTHER -> {"a", "b", "c"}]

\* What the cockpit is told of a leg is what the router's session check will
\* do: a leg that is closed stays so up to its next open, and is open then; one
\* that is open stays so up to the close it is given (market_clock.py:133, :142).
ClockKeepsItsWord ==
    FeedInit => \A leg \in Legs, now \in 0 .. 14 * SlotsPerDay : ClockAgrees(leg, now)
=============================================================================
