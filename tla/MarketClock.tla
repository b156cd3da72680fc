------------------------------ MODULE MarketClock ------------------------------
(***************************************************************************)
(* When each leg trades: src/src/ops/market_clock.py. Time is counted in   *)
(* slots since a Monday 00:00 UTC; the times of day of the configuration   *)
(* are slots too, and so is the lead of IST over UTC.                      *)
(***************************************************************************)
EXTENDS Integers, FiniteSetsExt

CONSTANTS
    SlotsPerDay,                 \* the slots of a day
    IST,                    \* the lead of Indian time
    IndiaOpen, IndiaClose,  \* the session, in Indian time
    Weekdays, Holidays,     \* its days of the week, and the days it is closed
    FxOpenDow, FxOpen,      \* the forex week, from a slot of one day
    FxCloseDow, FxClose     \* to a slot of another

ASSUME ClockAssumption ==
    /\ SlotsPerDay \in Nat \ {0} /\ IST \in 0 .. SlotsPerDay
    /\ {IndiaOpen, IndiaClose, FxOpen, FxClose} \subseteq 0 .. SlotsPerDay - 1 /\ IndiaOpen < IndiaClose
    /\ Weekdays \subseteq 0 .. 6 /\ Holidays \subseteq Nat
    /\ FxOpenDow \in 0 .. 6 /\ FxCloseDow \in 0 .. 6 /\ FxOpenDow < FxCloseDow

Legs == {"india", "mt5_forex", "mt5_crypto"}

Day(x)  == x \div SlotsPerDay
Time(x) == x % SlotsPerDay
Dow(x)  == Day(x) % 7

\* Never stands for the exceptions of the two searches, and for no closing time
Never == -1
Earliest(S) == IF S = {} THEN Never ELSE Min(S)

------------------------------------------------------------------------------
IndiaDayOk(day) == day % 7 \in Weekdays /\ day \notin Holidays

IndiaOpenAt(now) ==
    LET ist == now + IST
    IN  IndiaDayOk(Day(ist)) /\ IndiaOpen <= Time(ist) /\ Time(ist) < IndiaClose

\* The first session that has not begun, of those of today and the year ahead
\* (FromTomorrow: the search leaves today out.)
FromTomorrow(ist) == Day(ist) + 1 .. Day(ist) + 369
Ahead(ist) == Day(ist) .. Day(ist) + 369

IndiaNextOpen(now) ==
    LET ist    == now + IST
        starts == {day * SlotsPerDay + IndiaOpen : day \in {d \in Ahead(ist) : IndiaDayOk(d)}}
        first  == Earliest({s \in starts : s > ist})
    IN  IF first = Never THEN Never ELSE first - IST

IndiaNextClose(now) ==
    IF IndiaOpenAt(now) THEN Day(now + IST) * SlotsPerDay + IndiaClose - IST ELSE Never

FxOpenAt(now) ==
    /\ FxOpenDow <= Dow(now) /\ Dow(now) <= FxCloseDow
    /\ ~ (Dow(now) = FxOpenDow /\ Time(now) < FxOpen)
    /\ ~ (Dow(now) = FxCloseDow /\ Time(now) >= FxClose)

FxNextOpen(now) ==
    LET days == {d \in Day(now) .. Day(now) + 7 : d % 7 = FxOpenDow}
    IN  Earliest({s \in {d * SlotsPerDay + FxOpen : d \in days} : s > now})

------------------------------------------------------------------------------
IsOpen(leg, now) ==
    CASE leg = "india"     -> IndiaOpenAt(now)
      [] leg = "mt5_forex" -> FxOpenAt(now)
      [] OTHER             -> TRUE

\* status: the row of a leg
Status(leg, now) ==
    [open  |-> IsOpen(leg, now),
     next  |-> IF IsOpen(leg, now) THEN Never
               ELSE IF leg = "india" THEN IndiaNextOpen(now) ELSE FxNextOpen(now),
     close |-> IF leg = "india" THEN IndiaNextClose(now) ELSE Never]

------------------------------------------------------------------------------
\* What the cockpit is told of a leg is what the router's session check will
\* do: a leg that is closed stays so up to its next open, and is open then; one
\* that is open stays so up to the close it is given (market_clock.py:133, :142).
ClockAgrees(leg, now) ==
    LET row == Status(leg, now)
    IN  /\ ~ row.open => /\ row.next > now /\ IsOpen(leg, row.next)
                         /\ \A x \in now .. row.next - 1 : ~ IsOpen(leg, x)
        /\ row.close # Never => /\ row.close > now /\ ~ IsOpen(leg, row.close)
                                /\ \A x \in now .. row.close - 1 : IsOpen(leg, x)
=============================================================================
