------------------------------ MODULE LiveFeed ------------------------------
(***************************************************************************)
(* A live quote feed (src/ops/live_feeds.py) over its fallback, the replay *)
(* feed (src/ops/quote_feed.py): one loop calls tick_once, which polls an  *)
(* HTTP provider at most once per gap and, after max_errors strikes,       *)
(* delegates to the fallback until a probe succeeds.  The loop suspends at *)
(* each request: a request is one step, its answer a later one, and the    *)
(* clock moves in between.  scripts/run_paper.py:116-168 puts the replay   *)
(* under Yahoo and under the MT5 bridge; under OpenAlgo it puts a Yahoo    *)
(* feed over the replay (:132-140).  Of such a chain the model is one      *)
(* link, with the replay for whatever is below: that the fallback of       *)
(* OpenAlgo may itself be waiting for an answer, or degraded, is left out. *)
(*                                                                         *)
(* A price is the candle bucket it is booked in; a daily bar is its date.  *)
(* "t" counts candle buckets and stops at MaxTime, where the feed goes on  *)
(* ticking.  The round-robin feeds (Yahoo, the MT5 bridge) and the batched *)
(* one (the OpenAlgo hub) differ in "batched".                             *)
(***************************************************************************)
EXTENDS Integers, Sequences, SequencesExt, FiniteSets

CONSTANTS SymbolList,   \* self.symbols, in order
          MaxErrors,    \* max_errors
          PerDay,       \* candle buckets of a day
          MaxTime,      \* bound: the last bucket
          OpenAt        \* OpenAt[b]: the symbols whose market is open in b

Symbols == ToSet(SymbolList)

ASSUME FeedAssumption ==
    /\ SymbolList \in Seq(Symbols) /\ SymbolList # <<>>
    /\ Cardinality(Symbols) = Len(SymbolList)
    /\ MaxErrors \in Nat \ {0} /\ PerDay \in Nat \ {0}
    /\ MaxTime \in Nat
    /\ OpenAt \in [0..MaxTime -> SUBSET Symbols]

VARIABLES
    batched,    \* the feed overrides tick_once with one call for all symbols
    t,          \* the clock, in candle buckets
    weather,    \* what the provider answers: "price", "none" or "error"
    gapOver,    \* min_gap_s has passed since _last_http
    phase,      \* where tick_once is: "idle", "loading", "asking", "probing"
    at,         \* the "now" that tick_once was called with
    asked,      \* the symbols of the request under way
    rr,         \* _rr
    errors, degraded, loaded,
    candle,     \* ts of the last candle of each symbol, -1 for none
    daily,      \* dates of the daily bars of each symbol
    completed,  \* _completed
    rcandle,    \* ts of the last candle of the fallback
    out,        \* the symbols of the last tick_once's result
    since       \* history: the symbols asked since one's own turn, while open

feedVars == <<batched, t, weather, gapOver, phase, at, asked, rr, errors, degraded,
              loaded, candle, daily, completed, rcandle, out, since>>

Weathers == {"price", "none", "error"}
Date(b) == b \div PerDay
Probed == Head(SymbolList)

FeedInit ==
    /\ batched \in BOOLEAN
    /\ t = 0 /\ weather \in Weathers /\ gapOver = TRUE
    /\ phase = "idle" /\ at = 0 /\ asked = {} /\ out = {}
    /\ rr = SymbolList
    /\ errors = 0 /\ degraded = FALSE /\ loaded = FALSE
    /\ candle = [s \in Symbols |-> -1] /\ rcandle = candle
    /\ daily = [s \in Symbols |-> <<>>]
    /\ completed = [s \in Symbols |-> 0]
    /\ since = [s \in Symbols |-> {}]

-----------------------------------------------------------------------------
\* What one tick does

\* _roll_daily: the date of the quote opens a bar, an edge of the strategy
\* clock, or lies in the bar that is already open.
\* (RollsAgain: every quote of the day the bar is dated rolls it.)
RollsAgain(s, b) == daily[s] # <<>> /\ Last(daily[s]) <= Date(b)
Rolls(s, b) == daily[s] # <<>> /\ Last(daily[s]) < Date(b)

\* The prices of "syms" reach the candles and the daily bars.
Book(syms, b) ==
    /\ candle' = [s \in Symbols |-> IF s \in syms THEN b ELSE candle[s]]
    /\ daily' = [s \in Symbols |->
          IF s \in syms /\ Rolls(s, b) THEN Append(daily[s], Date(b)) ELSE daily[s]]
    /\ completed' = [s \in Symbols |->
          IF s \in syms /\ Rolls(s, b) THEN completed[s] + 1 ELSE completed[s]]

\* ReplayQuoteFeed.tick_once: a replayed price for every open market.
ReplayTick(b) ==
    /\ rcandle' = [s \in Symbols |-> IF s \in OpenAt[b] THEN b ELSE rcandle[s]]
    /\ out' = OpenAt[b]

\* Round robin: the first open symbol of rr, and rr turned past it.
FirstOpen(b) == CHOOSE i \in 1..Len(rr) :
                    rr[i] \in OpenAt[b] /\ \A j \in 1..(i - 1) : rr[j] \notin OpenAt[b]
\* (TurnedByOne: the closed markets that were skipped are not turned past.)
TurnedByOne(b) == Append(Tail(rr), Head(rr))
Turned(b) == LET i == FirstOpen(b) IN SubSeq(rr, i + 1, Len(rr)) \o SubSeq(rr, 1, i)

\* The part of tick_once after the daily bars are loaded: a request, or
\* nothing while the gap runs or every market is closed.
Ask(b) ==
    \/ /\ gapOver /\ OpenAt[b] # {}
       /\ asked' = IF batched THEN OpenAt[b] ELSE {rr[FirstOpen(b)]}
       /\ rr' = IF batched THEN rr ELSE Turned(b)
       /\ since' = [s \in Symbols |->
             IF s \in asked' \/ s \notin OpenAt[b] THEN {} ELSE since[s] \cup asked']
       /\ gapOver' = FALSE /\ phase' = "asking"
       /\ UNCHANGED out
    \/ /\ ~gapOver \/ OpenAt[b] = {}
       /\ phase' = "idle" /\ out' = {} /\ asked' = {}
       /\ UNCHANGED <<rr, since, gapOver>>

\* _ensure_daily comes first, once in the life of the feed.
Proceed(b) ==
    \/ loaded /\ Ask(b)
    \/ ~loaded /\ phase' = "loading" /\ UNCHANGED <<asked, rr, since, gapOver, out>>

-----------------------------------------------------------------------------
\* tick_once, from one suspension point to the next

\* The loop calls a feed that works.
Tick ==
    /\ phase = "idle" /\ ~degraded
    /\ at' = t
    /\ Proceed(t)
    /\ UNCHANGED <<batched, t, weather, errors, degraded, loaded, candle, daily, completed,
                   rcandle>>

\* The loop calls a degraded feed: one probe per gap, the replay otherwise.
TickDegraded ==
    /\ phase = "idle" /\ degraded
    /\ at' = t
    /\ \/ /\ gapOver
          /\ gapOver' = FALSE /\ phase' = "probing"
          /\ UNCHANGED <<rcandle, out>>
       \/ ~gapOver /\ ReplayTick(t) /\ UNCHANGED <<gapOver, phase>>
    /\ UNCHANGED <<batched, t, weather, asked, rr, errors, degraded, loaded, candle, daily,
                   completed, since>>

\* The histories arrive; each that fails is a strike, one may be empty, and
\* none is asked again.
\* The last bar of a history may be dated a day ahead: the bridge stamps its
\* bars in the broker's time.
Loaded ==
    /\ phase = "loading"
    /\ \E ok \in SUBSET Symbols, lag \in -1..1 : \E failed \in SUBSET (Symbols \ ok) :
          /\ daily' = [s \in Symbols |->
                IF s \in ok /\ Date(t) + lag >= 0 THEN <<Date(t) + lag>> ELSE daily[s]]
          /\ errors' = errors + Cardinality(failed)
    /\ loaded' = TRUE
    /\ Ask(at)
    /\ UNCHANGED <<batched, t, weather, at, degraded, candle, completed, rcandle>>

StrikesNow == errors + 1

\* The provider fails: a strike, and at max_errors the feed degrades.
Strike ==
    /\ phase = "asking" /\ weather = "error"
    /\ errors' = StrikesNow
    /\ degraded' = (errors' >= MaxErrors)
    /\ phase' = "idle" /\ asked' = {} /\ out' = {}
    /\ UNCHANGED <<batched, t, weather, gapOver, at, rr, loaded, candle, daily, completed,
                   rcandle, since>>

\* The provider answers without a price: the batched feed counts it a success.
NoPrice ==
    /\ phase = "asking" /\ weather = "none"
    /\ errors' = IF batched THEN 0 ELSE errors
    /\ phase' = "idle" /\ asked' = {} /\ out' = {}
    /\ UNCHANGED <<batched, t, weather, gapOver, at, rr, degraded, loaded, candle, daily,
                   completed, rcandle, since>>

\* The price that was asked for; of a batch, perhaps only some.
Price ==
    /\ phase = "asking" /\ weather = "price"
    /\ errors' = 0
    /\ \E got \in SUBSET asked \ {{}} : Book(got, at) /\ out' = got
    /\ phase' = "idle" /\ asked' = {}
    /\ UNCHANGED <<batched, t, weather, gapOver, at, rr, degraded, loaded, rcandle,
                   since>>

\* (StrikesOnly: the probe clears the strikes and leaves the flag.)
StrikesOnly == errors' = 0 /\ UNCHANGED degraded
Recover == errors' = 0 /\ degraded' = FALSE

\* The probe's answer: the feed recovers and the tick goes on as a live one,
\* or the replay serves the tick.  The price of the probe is not booked.
Probe ==
    /\ phase = "probing"
    /\ \/ /\ weather = "price"
          /\ Recover
          /\ Proceed(at)
          /\ UNCHANGED rcandle
       \/ /\ weather # "price"
          /\ ReplayTick(at)
          /\ phase' = "idle"
          /\ UNCHANGED <<errors, degraded, asked, rr, since, gapOver>>
    /\ UNCHANGED <<batched, t, weather, at, loaded, candle, daily, completed>>

\* The world: time passes, the gap ends, the provider fails and recovers.
Wait ==
    /\ ~gapOver /\ gapOver' = TRUE
    /\ UNCHANGED <<batched, t, weather, phase, at, asked, rr, errors, degraded, loaded, candle,
                   daily, completed, rcandle, out, since>>

Clock ==
    /\ t < MaxTime /\ t' = t + 1
    /\ UNCHANGED <<batched, weather, gapOver, phase, at, asked, rr, errors, degraded, loaded,
                   candle, daily, completed, rcandle, out, since>>

Provider ==
    /\ weather' \in Weathers
    /\ UNCHANGED <<batched, t, gapOver, phase, at, asked, rr, errors, degraded, loaded, candle,
                   daily, completed, rcandle, out, since>>

\* candles(): the series a reader gets. (OwnCandle: the live one, always.)
OwnCandle(s) == candle[s]
CandleSeen(s) == IF degraded THEN rcandle[s] ELSE candle[s]

Answer == Strike \/ NoPrice \/ Price \/ Probe \/ Loaded
FeedNext == Tick \/ TickDegraded \/ Answer \/ Wait \/ Clock \/ Provider

\* The loop runs for ever and every request ends, by the client's timeout at
\* the latest.
FeedSpec == /\ FeedInit /\ [][FeedNext]_feedVars
            /\ WF_feedVars(Tick \/ TickDegraded) /\ WF_feedVars(Answer)
            /\ WF_feedVars(Wait) /\ WF_feedVars(Clock)

-----------------------------------------------------------------------------
\* Properties

FeedTypeOK ==
    /\ batched \in BOOLEAN /\ gapOver \in BOOLEAN
    /\ degraded \in BOOLEAN /\ loaded \in BOOLEAN
    /\ t \in 0..MaxTime /\ at \in 0..t /\ weather \in Weathers
    /\ phase \in {"idle", "loading", "asking", "probing"}
    /\ asked \subseteq Symbols /\ out \subseteq Symbols
    /\ rr \in Seq(Symbols) /\ ToSet(rr) = Symbols /\ Len(rr) = Len(SymbolList)
    /\ errors \in Nat
    /\ candle \in [Symbols -> -1..MaxTime] /\ rcandle \in [Symbols -> -1..MaxTime]
    /\ DOMAIN daily = Symbols /\ \A s \in Symbols : daily[s] \in Seq(Nat)
    /\ completed \in [Symbols -> Nat] /\ since \in [Symbols -> SUBSET Symbols]

\* A symbol that tick_once returns a price for has a candle of that very tick
\* in the series candles() serves: the loop of scripts/run_paper.py reads the
\* candle to drive the exits, so a tick of one source must never meet the
\* candles of the other, across degradation and recovery.
TicksMeetTheirCandles ==
    phase = "idle" => \A s \in out : CandleSeen(s) = at

\* No symbol is asked twice while an open market waits for its turn, whichever
\* markets open and close meanwhile, however many requests fail and however
\* long the replay took over (_rr of tick_once).
NobodyOvertakes ==
    [][phase # "asking" /\ phase' = "asking"
          => \A s \in OpenAt[at'] \ asked' : asked' \cap since[s] = {}]_feedVars

\* The strategy clock: the dates of the daily bars grow, and a day gives at
\* most one edge of completed_count, whatever the delay of the quote that
\* rolls it and whatever was missed while degraded (_roll_daily).
OneEdgePerDay ==
    \A s \in Symbols :
        /\ \A i, j \in 1..Len(daily[s]) : i < j => daily[s][i] < daily[s][j]
        /\ completed[s] <= Date(t)
        /\ daily[s] # <<>> => completed[s] = Len(daily[s]) - 1

\* "A recovered provider un-degrades": once the provider answers for good,
\* the feed leaves the replay for good (the probe of tick_once).
Recovers == <>[](weather = "price") => <>[](~degraded)
=============================================================================
