-------------------------- MODULE ExitManager_proofs --------------------------
(***************************************************************************)
(* Proofs about ExitManager: for every entry, quantity, threshold, trail   *)
(* and number of failing calls. None of its properties is inductive:       *)
(* ExitIInv says where the coroutine stands in the life of the position    *)
(* (Stations), what the rungs taken have left (Carving), that the broker's *)
(* stop is never above the book's (BookLeads), and for every call that is  *)
(* awaited what the broker holds and has resting (Cover, PaperCover).      *)
(***************************************************************************)
EXTENDS ExitManager, TLAPS

LiveStates == {"RISK_ON", "BREAKEVEN", "TRAILING"}

\* The ManagedPosition of an entry of q.
Managed(q) ==
    [state : {"NONE", "RISK_ON", "BREAKEVEN", "TRAILING", "EXITED"},
     stop : Nat, stopId : 0 .. 3, extreme : Prices,
     noProgress : 0 .. MaxNoProgress, taken : SUBSET {1, 2},
     remaining : 0 .. q, locked : BOOLEAN, exit : {"none", "stop_hit", "active"}]

\* Where the coroutine may stand in each state of the position.
Stations ==
    /\ pos.state = "NONE" <=> pc \in {"attaching", "unmanaged"}
    /\ pc \in ModifyCalls \union BarCalls => Live
    /\ pc = "breakeven" => pos.state = "RISK_ON"
    /\ pc \in {"exitCancel", "exitSell"} => pos.state = "EXITED" /\ pos.exit = "active"
    /\ pos.state # "EXITED" => pos.exit = "none" /\ pos.noProgress < MaxNoProgress

One(rung, taken) == IF rung \in taken THEN 1 ELSE 0
Count(taken)     == One(1, taken) + One(2, taken)

\* What is left when these rungs have been sold.
Left(taken) == qty - (IF 1 \in taken THEN PartialLots ELSE 0)
                   - (IF 2 \in taken THEN PartialLots ELSE 0)

\* Each rung is asked for once, sold once, and gives one new stop.
Carving ==
    /\ \A rung \in {1, 2} : asked[rung] <= One(rung, pos.taken)
    /\ pos.state \in {"NONE", "RISK_ON"} => 2 \notin pos.taken
    /\ pos.state = "NONE" => pos.remaining = 0 /\ pos.taken = {}
    /\ pos.state # "NONE" => pos.remaining >= Left(pos.taken)
    /\ pc = "sell" => /\ PartialLots > 0
                      /\ Rung(pos) \in pos.taken
                      /\ pos.remaining >= Left(pos.taken \ {Rung(pos)})
    /\ pc = "attaching" => lastId = 0
    /\ pc \in {"sell", "replace", "place"} => lastId <= Count(pos.taken)
    /\ lastId <= 1 + Count(pos.taken)
    /\ pos.stopId <= lastId
    /\ Live => pos.stopId >= 1

\* The book moves its stop first.
BookLeads == resting.trigger <= pos.stop

\* The stop that rests is the book's, for so many lots, and so is the lot.
Covers(lots) ==
    /\ held = pos.remaining
    /\ resting.id = pos.stopId /\ pos.stopId >= 1
    /\ resting.lots = lots

CoversAtBook(lots) == Covers(lots) /\ resting.trigger = pos.stop
Flat == held = 0 /\ resting = NoStop

\* While no call has failed, for each call that is awaited; between a stop that
\* triggers and the answer that tells of it, the position is flat.
Cover ==
    /\ pc \in {"attaching", "place"} => resting = NoStop
    /\ failures = 0 =>
        /\ pc \notin {"down", "unmanaged"}
        /\ pc = "attaching" => held = qty
        /\ (Live /\ pc = "idle") \/ pc = "sell" => CoversAtBook(pos.remaining) \/ Flat
        /\ pc \in ModifyCalls \union {"exitCancel"} => Covers(pos.remaining) \/ Flat
        /\ pc = "replace" =>
             CoversAtBook(pos.remaining + PartialLots) \/ resting = NoStop
        /\ pc \in {"place", "exitSell"} => held = pos.remaining /\ resting = NoStop
        /\ pos.exit = "active" /\ pc = "idle" => Flat

\* On the paper venues no call fails, and no stop triggers under a coroutine.
PaperCover ==
    ~Remote /\ TRUE \notin Flattens =>
        /\ failures = 0
        /\ \/ Live /\ pc \in ModifyCalls \union {"idle", "sell", "replace"}
           \/ pc = "exitCancel"
           => resting # NoStop
        /\ pos.state = "EXITED" /\ pc = "idle" => held = resting.lots

ExitIInv ==
    ExitTypeOK /\ Stations /\ Carving /\ BookLeads /\ Cover /\ PaperCover

------------------------------------------------------------------------------
(* The constants and the operators of the engine.                           *)

\* A partial leaves lots for the rest, after both rungs too.
LEMMA PartialBound ==
    ASSUME NEW q \in Nat, q > 0
    PROVE  (q * Pct) \div 100 \in Nat /\ 2 * ((q * Pct) \div 100) < q
<1>1. Pct \in 0 .. 49
  BY ExitAssumption
<1>2. q * Pct \in Nat /\ q * Pct <= q * 49
  BY <1>1
<1>3. \A x \in Nat : x \div 100 \in Nat /\ 100 * (x \div 100) <= x
  OBVIOUS
<1> DEFINE d == (q * Pct) \div 100
<1>4. d \in Nat /\ 100 * d <= q * 49
  BY <1>2, <1>3
<1> HIDE DEF d
<1>5. 2 * d < q
  BY <1>4
<1> QED
  BY <1>4, <1>5 DEF d

LEMMA ConstantsAreNumbers ==
    /\ Prices \subseteq Nat /\ Entry \in Prices /\ Trails \subseteq Nat
    /\ {InitialStop, AtBreakeven, AtSecond, LockAt, LockLevel} \subseteq Nat
    /\ LockTrail \in Nat /\ MinStep \in Nat
    /\ MaxNoProgress \in Nat /\ MaxNoProgress > 0
    /\ MaxFailures \in Nat /\ MaxFailures > 0
    /\ Quantities \subseteq Nat \ {0}
BY ExitAssumption

\* What the engine makes of a position p up to the next await: the stop goes up
\* or stays, a partial is a rung that was not taken, the rest is left alone.
Onward(q, p, next) ==
    /\ next.pos \in Managed(q)
    /\ next.pos.state \in LiveStates /\ next.pos.noProgress < MaxNoProgress
    /\ next.pc \in ModifyCalls \union {"idle", "sell"}
    /\ next.pos.stop >= p.stop
    /\ next.pc \in {"idle", "sell"} => next.pos.stop = p.stop
    /\ next.pc = "breakeven" => next.pos.state = "RISK_ON"
    /\ next.pos.remaining = p.remaining /\ next.pos.stopId = p.stopId
    /\ next.pos.exit = p.exit
    /\ p.taken \subseteq next.pos.taken
    /\ next.pos.state = "RISK_ON" => 2 \notin next.pos.taken
    /\ next.pc = "sell" => /\ PartialLots > 0
                           /\ Rung(next.pos) \notin p.taken
                           /\ next.pos.taken = p.taken \union {Rung(next.pos)}

\* What a live position is on the way through the engine.
Workable(q, p) ==
    /\ p \in Managed(q) /\ p.state \in LiveStates
    /\ p.noProgress < MaxNoProgress
    /\ p.state = "RISK_ON" => 2 \notin p.taken

LEMMA TrailOnward ==
    ASSUME NEW q, NEW p, Workable(q, p), NEW b, b.trail \in Nat
    PROVE  Onward(q, p, FromTrail(p, b))
BY ConstantsAreNumbers
   DEF FromTrail, Onward, Workable, Managed, Moves, Ratchet, Go, Lesser, LiveStates, ModifyCalls

LEMMA LockOnward ==
    ASSUME NEW q, NEW p, Workable(q, p), NEW b, b.trail \in Nat
    PROVE  Onward(q, p, FromLock(p, b))
<1> DEFINE due    == b.close >= LockAt /\ ~p.locked
           locked == [p EXCEPT !.locked = @ \/ due]
<1>1. CASE due /\ Moves(p, LockLevel)
  BY <1>1, ConstantsAreNumbers
     DEF FromLock, Onward, Workable, Managed, Moves, Ratchet, Go, LiveStates, ModifyCalls
<1>2. CASE ~ (due /\ Moves(p, LockLevel))
  <2>1. Workable(q, locked)
    BY DEF Workable, Managed, LiveStates
  <2>2. FromLock(p, b) = FromTrail(locked, b)
    BY <1>2 DEF FromLock
  <2>3. Onward(q, locked, FromTrail(locked, b))
    BY <2>1, TrailOnward
  <2> QED
    BY <2>2, <2>3 DEF Onward, Workable, Managed
<1> QED
  BY <1>1, <1>2

LEMMA SecondOnward ==
    ASSUME NEW q, NEW p, Workable(q, p), NEW b, b.trail \in Nat
    PROVE  Onward(q, p, FromSecond(p, b))
<1> DEFINE due     == p.state = "BREAKEVEN" /\ b.close >= AtSecond
           trailed == [p EXCEPT !.taken = @ \union {2}, !.state = "TRAILING"]
<1>1. CASE due /\ 2 \notin p.taken /\ PartialLots > 0
  BY <1>1 DEF FromSecond, Onward, Workable, Managed, Take, Go, Rung, LiveStates
<1>2. CASE due /\ ~ (2 \notin p.taken /\ PartialLots > 0)
  <2>1. Workable(q, trailed)
    BY DEF Workable, Managed, LiveStates
  <2>2. FromSecond(p, b) = FromLock(trailed, b)
    BY <1>2 DEF FromSecond
  <2>3. Onward(q, trailed, FromLock(trailed, b))
    BY <2>1, LockOnward
  <2>4. /\ trailed.stop = p.stop /\ trailed.remaining = p.remaining
        /\ trailed.stopId = p.stopId /\ trailed.exit = p.exit
        /\ trailed.taken = p.taken \union {2}
        /\ PartialLots > 0 => trailed.taken = p.taken
    BY <1>2 DEF Workable, Managed
  <2> HIDE DEF trailed
  <2> QED
    BY <2>2, <2>3, <2>4 DEF Onward
<1>3. CASE ~due
  BY <1>3, LockOnward DEF FromSecond
<1> QED
  BY <1>1, <1>2, <1>3

LEMMA FirstOnward ==
    ASSUME NEW q, NEW p, Workable(q, p), p.state = "RISK_ON", NEW b, b.trail \in Nat
    PROVE  Onward(q, p, FromFirst(p, b))
<1> DEFINE even == [p EXCEPT !.taken = @ \union {1}, !.state = "BREAKEVEN"]
<1>1. CASE 1 \notin p.taken /\ PartialLots > 0
  BY <1>1 DEF FromFirst, Onward, Workable, Managed, Take, Go, Rung, LiveStates
<1>2. CASE ~ (1 \notin p.taken /\ PartialLots > 0)
  <2>1. Workable(q, even)
    BY DEF Workable, Managed, LiveStates
  <2>2. FromFirst(p, b) = FromSecond(even, b)
    BY <1>2 DEF FromFirst
  <2>3. Onward(q, even, FromSecond(even, b))
    BY <2>1, SecondOnward
  <2>4. /\ even.stop = p.stop /\ even.remaining = p.remaining
        /\ even.stopId = p.stopId /\ even.exit = p.exit
        /\ even.taken = p.taken \union {1}
        /\ PartialLots > 0 => even.taken = p.taken
    BY <1>2 DEF Workable, Managed
  <2> HIDE DEF even
  <2> QED
    BY <2>2, <2>3, <2>4 DEF Onward
<1> QED
  BY <1>1, <1>2

LEMMA BreakevenOnward ==
    ASSUME NEW q, NEW p, Workable(q, p), NEW b, b.trail \in Nat
    PROVE  Onward(q, p, FromBreakeven(p, b))
<1>1. CASE p.state = "RISK_ON" /\ b.close >= AtBreakeven
  <2>1. CASE Moves(p, Entry)
    BY <1>1, <2>1, ConstantsAreNumbers
       DEF FromBreakeven, Onward, Workable, Managed, Moves, Ratchet, Go, LiveStates, ModifyCalls
  <2>2. CASE ~Moves(p, Entry)
    BY <1>1, <2>2, FirstOnward DEF FromBreakeven
  <2> QED
    BY <2>1, <2>2
<1>2. CASE ~ (p.state = "RISK_ON" /\ b.close >= AtBreakeven)
  BY <1>2, SecondOnward DEF FromBreakeven
<1> QED
  BY <1>1, <1>2

\* What follows a partial; the second rung is not taken before the first state
\* is left.
LEMMA PartialOnward ==
    ASSUME NEW q, NEW p, Workable(q, p), NEW b, b.trail \in Nat
    PROVE  Onward(q, p, FromPartial(p, b))
<1> DEFINE even    == [p EXCEPT !.state = "BREAKEVEN"]
           trailed == [p EXCEPT !.state = "TRAILING"]
<1>1. CASE Rung(p) = 1
  <2>1. Workable(q, even)
    BY DEF Workable, Managed, LiveStates
  <2>2. FromPartial(p, b) = FromSecond(even, b)
    BY <1>1 DEF FromPartial
  <2>3. Onward(q, even, FromSecond(even, b))
    BY <2>1, SecondOnward
  <2> QED
    BY <2>2, <2>3 DEF Onward, Workable, Managed
<1>2. CASE Rung(p) # 1
  <2>1. Workable(q, trailed)
    BY DEF Workable, Managed, LiveStates
  <2>2. FromPartial(p, b) = FromLock(trailed, b)
    BY <1>2 DEF FromPartial
  <2>3. Onward(q, trailed, FromLock(trailed, b))
    BY <2>1, LockOnward
  <2> QED
    BY <2>2, <2>3 DEF Onward, Workable, Managed
<1> QED
  BY <1>1, <1>2

\* on_bar exits by our own order, takes the stop to have been hit, or goes on.
Exits(p, next) ==
    /\ next.pc = "exitCancel"
    /\ next.pos.state = "EXITED" /\ next.pos.exit = "active"
Stops(p, next) ==
    /\ next.pc = "idle"
    /\ next.pos.state = "EXITED" /\ next.pos.exit = "stop_hit"
Ends(q, p, next) ==
    /\ Exits(p, next) \/ Stops(p, next)
    /\ next.pos \in Managed(q)
    /\ next.pos.stop = p.stop /\ next.pos.remaining = p.remaining
    /\ next.pos.stopId = p.stopId /\ next.pos.taken = p.taken

LEMMA BarOutcome ==
    ASSUME NEW q, NEW p, Workable(q, p), NEW b, b.trail \in Nat, b.high \in Prices, NEW flatten \in BOOLEAN
    PROVE  LET next == OnBar(p, b, flatten)
           IN  /\ Onward(q, p, next) \/ Ends(q, p, next)
               /\ Stops(p, next) => b.low <= p.stop
               /\ ~flatten /\ ~Stops(p, next) => ~ (b.low <= p.stop)
<1> DEFINE next == OnBar(p, b, flatten)
<1>1. CASE flatten
  BY <1>1 DEF OnBar, ActiveExit, Go, Ends, Exits, Stops, Workable, Managed
<1>2. CASE ~flatten /\ b.low <= p.stop
  BY <1>2 DEF OnBar, StoppedOut, Go, Ends, Exits, Stops, Workable, Managed
<1>3. CASE ~flatten /\ ~ (b.low <= p.stop)
  <2> DEFINE advanced == Advance(p, b)
  <2> DEFINE extreme  == Greater(p.extreme, b.high)
             progress == IF Progress(p, b) THEN 0 ELSE p.noProgress + 1
  <2>a. extreme \in Prices
    BY DEF Workable, Managed, Greater
  <2>b. progress \in 0 .. MaxNoProgress
    BY ConstantsAreNumbers DEF Workable, Managed
  <2>0. advanced = [p EXCEPT !.extreme = extreme, !.noProgress = progress]
    BY DEF Advance
  <2> HIDE DEF extreme, progress, advanced
  <2>1. /\ advanced \in Managed(q) /\ advanced.state = p.state
        /\ advanced.stop = p.stop /\ advanced.remaining = p.remaining
        /\ advanced.stopId = p.stopId /\ advanced.taken = p.taken
        /\ advanced.exit = p.exit
    BY <2>a, <2>b, <2>0 DEF Workable, Managed
  <2>2. next = IF TimeUp(advanced) THEN ActiveExit(advanced) ELSE FromBreakeven(advanced, b)
    BY <1>3 DEF OnBar, advanced
  <2> HIDE DEF next
  <2>3. CASE TimeUp(advanced)
    <3>1. /\ next.pc = "exitCancel"
          /\ next.pos = [advanced EXCEPT !.state = "EXITED", !.exit = "active"]
      BY <2>2, <2>3 DEF ActiveExit, Go
    <3> QED
      BY <1>3, <2>1, <3>1 DEF Ends, Exits, Stops, Managed, next
  <2>4. CASE ~TimeUp(advanced)
    <3>0. Workable(q, advanced)
      BY <2>1, <2>4, ConstantsAreNumbers DEF Workable, Managed, TimeUp
    <3>1. Onward(q, advanced, next)
      BY <3>0, <2>2, <2>4, BreakevenOnward
    <3>2. Onward(q, p, next)
      BY <3>1, <2>1 DEF Onward
    <3>3. ~Stops(p, next)
      BY <3>1 DEF Onward, Stops, LiveStates
    <3> QED
      BY <1>3, <3>2, <3>3 DEF next
  <2> QED
    BY <2>3, <2>4
<1> QED
  BY <1>1, <1>2, <1>3

------------------------------------------------------------------------------
(* The invariant in its parts, and what it says of the lots.                *)

Pcs == ModifyCalls \union BarCalls \union
       {"attaching", "exitCancel", "exitSell", "idle", "down", "unmanaged"}

BookTypeOK ==
    /\ venue \in Venues /\ qty \in Quantities
    /\ pos \in Managed(qty) /\ pc \in Pcs
    /\ asked \in [{1, 2} -> Nat]

BrokerTypeOK ==
    held \in Int /\ resting \in [id : 0 .. 3, lots : Nat, trigger : Nat] /\ lastId \in 0 .. 3

BarTypeOK ==
    /\ trail \in Trails \union {0}
    /\ bar \in [high : Prices, low : Prices, close : Prices] \union {EmptyBar}
    /\ failures \in 0 .. MaxFailures

RestartsTypeOK == restarts \in 0 .. MaxRestarts

LEMMA TypeParts == ExitTypeOK <=> BookTypeOK /\ BrokerTypeOK /\ BarTypeOK /\ RestartsTypeOK
BY DEF ExitTypeOK, RestartsTypeOK, BookTypeOK, BrokerTypeOK, BarTypeOK, Managed, Pcs

LEMMA Lots ==
    ASSUME BookTypeOK
    PROVE  qty \in Nat /\ PartialLots \in Nat /\ 2 * PartialLots < qty
BY PartialBound, ConstantsAreNumbers DEF BookTypeOK, PartialLots

\* What the rungs leave is more than nothing, and less the more are taken.
LEMMA LeftBounds ==
    ASSUME BookTypeOK, NEW taken \in SUBSET {1, 2}
    PROVE  /\ Left(taken) \in Nat /\ Left(taken) > 0 /\ Left({}) = qty
           /\ \A more \in SUBSET {1, 2} : taken \subseteq more => Left(more) <= Left(taken)
           /\ \A rung \in {1, 2} \ taken : Left(taken) - PartialLots = Left(taken \union {rung})
BY Lots DEF Left

LEMMA CountBounds ==
    ASSUME NEW taken \in SUBSET {1, 2}
    PROVE  /\ Count(taken) \in 0 .. 2
           /\ \A more \in SUBSET {1, 2} : taken \subseteq more => Count(taken) <= Count(more)
           /\ \A rung \in {1, 2} \ taken : Count(taken \union {rung}) = Count(taken) + 1
BY DEF Count, One

------------------------------------------------------------------------------
(* What a step leaves true, by the kind of step.                            *)

\* The invariant but for the types of the broker and of the bar, which depend
\* on the call and not on what follows it.
BookIInv == BookTypeOK /\ Stations /\ Carving /\ BookLeads /\ Cover /\ PaperCover

\* A position on its way into the engine, of which nothing is at stake but what
\* the broker has of it.
Ready(p, orders) ==
    /\ \A rung \in {1, 2} : asked[rung] <= One(rung, p.taken)
    /\ p.remaining >= Left(p.taken)
    /\ p.stopId \in 1 .. orders /\ orders <= 1 + Count(p.taken)
    /\ p.exit = "none"

\* What the broker has of it, in lots and orders.
Backed(p, lots, order) ==
    \/ lots = p.remaining /\ order = [id |-> p.stopId, lots |-> p.remaining, trigger |-> p.stop]
    \/ lots = 0 /\ order = NoStop

LEMMA OnwardCarves ==
    ASSUME BookTypeOK, NEW p, Workable(qty, p), NEW next, Onward(qty, p, next), Resume(next),
           Ready(p, lastId'), lastId' \in Nat
    PROVE  BookTypeOK' /\ Stations' /\ Carving'
<1>1. /\ qty' = qty /\ venue' = venue /\ PartialLots' = PartialLots
      /\ pos' = next.pos /\ pc' = next.pc
      /\ asked' = IF next.pc = "sell" THEN [asked EXCEPT ![Rung(next.pos)] = @ + 1] ELSE asked
  BY DEF Resume, PartialLots
<1>2. /\ p.taken \in SUBSET {1, 2} /\ pos'.taken \in SUBSET {1, 2}
      /\ p.taken \subseteq pos'.taken
  BY <1>1 DEF Onward, Workable, Managed
<1>3. Rung(next.pos) \in {1, 2}
  BY DEF Rung
<1>4. /\ asked' \in [{1, 2} -> Nat]
      /\ \A rung \in {1, 2} : asked'[rung] <= One(rung, pos'.taken)
  <2>1. CASE next.pc = "sell"
    BY <1>1, <1>2, <1>3, <2>1 DEF Onward, Ready, One, BookTypeOK
  <2>2. CASE next.pc # "sell"
    BY <1>1, <1>2, <2>2 DEF Ready, One, BookTypeOK
  <2> QED
    BY <2>1, <2>2
<1>5. BookTypeOK'
  BY <1>1, <1>4 DEF BookTypeOK, Onward, Pcs, BarCalls
<1>6. Stations'
  BY <1>1 DEF Stations, Onward, Ready, Live, LiveStates, ModifyCalls, BarCalls
<1>7. \A taken \in SUBSET {1, 2} : Left(taken)' = Left(taken)
  BY <1>1 DEF Left
<1>8. Count(p.taken) <= Count(pos'.taken) /\ Count(p.taken) \in Nat /\ Count(pos'.taken) \in Nat
  BY <1>2, CountBounds
<1>9. /\ pos'.remaining >= Left(pos.taken)' /\ pos'.state \in LiveStates
      /\ pos'.stopId = p.stopId
      /\ pos'.state = "RISK_ON" => 2 \notin pos'.taken
  <2>1. Left(pos.taken)' = Left(next.pos.taken)
    BY <1>1, <1>2 DEF Left
  <2>2. Left(p.taken) \in Nat /\ Left(next.pos.taken) \in Nat
        /\ Left(next.pos.taken) <= Left(p.taken)
    BY <1>1, <1>2, LeftBounds
  <2>3. p.remaining \in Nat /\ pos'.remaining = p.remaining
    BY <1>1 DEF Onward, Workable, Managed, BookTypeOK
  <2> QED
    BY <1>1, <2>1, <2>2, <2>3 DEF Onward, Ready
<1>10. pc' = "sell" => /\ PartialLots' > 0
                       /\ Rung(next.pos) \in next.pos.taken
                       /\ next.pos.remaining >= Left(next.pos.taken \ {Rung(next.pos)})
                       /\ lastId' <= Count(next.pos.taken)
  <2>1. SUFFICES ASSUME pc' = "sell"
                 PROVE  /\ PartialLots' > 0
                        /\ Rung(next.pos) \in next.pos.taken
                        /\ next.pos.remaining >= Left(next.pos.taken \ {Rung(next.pos)})
                        /\ lastId' <= Count(next.pos.taken)
    OBVIOUS
  <2>2. /\ PartialLots > 0 /\ Rung(next.pos) \notin p.taken
        /\ next.pos.taken = p.taken \union {Rung(next.pos)}
    BY <1>1, <2>1 DEF Onward
  <2>3. next.pos.taken \ {Rung(next.pos)} = p.taken
    BY <2>2
  <2>4. Count(next.pos.taken) = Count(p.taken) + 1
    BY <1>2, <1>3, <2>2, CountBounds
  <2>5. next.pos.remaining = p.remaining /\ p.remaining >= Left(p.taken)
        /\ lastId' <= 1 + Count(p.taken)
    BY DEF Onward, Ready
  <2>6. Left(next.pos.taken \ {Rung(next.pos)}) = Left(p.taken)
    BY <2>3, Zenon
  <2>7. lastId' <= Count(next.pos.taken)
    BY <1>8, <2>4, <2>5
  <2> QED
    BY <1>1, <2>2, <2>5, <2>6, <2>7
<1>11. pc' = "sell" => /\ PartialLots' > 0
                       /\ Rung(pos)' \in pos'.taken
                       /\ pos'.remaining >= Left(pos.taken \ {Rung(pos)})'
  BY <1>1, <1>10 DEF Left, Rung
<1>12. /\ pc' \notin {"attaching", "replace", "place"}
       /\ pos'.stopId <= lastId' /\ pos'.stopId >= 1
       /\ lastId' <= 1 + Count(pos'.taken)
       /\ pc' = "sell" => lastId' <= Count(pos'.taken)
  BY <1>1, <1>8, <1>9, <1>10 DEF Onward, ModifyCalls, Ready
<1>13. /\ (\A rung \in {1, 2} : asked[rung] <= One(rung, pos.taken))'
       /\ lastId' <= 1 + Count(pos.taken)'
       /\ pc' = "sell" => lastId' <= Count(pos.taken)'
  BY <1>4, <1>12 DEF Count, One
<1>14. Carving'
  BY <1>9, <1>11, <1>12, <1>13 DEF Carving, LiveStates, Live
<1> QED
  BY <1>5, <1>6, <1>14

LEMMA OnwardKeeps ==
    ASSUME BookTypeOK, NEW p, Workable(qty, p), NEW next, Onward(qty, p, next), Resume(next),
           Ready(p, lastId'), lastId' \in Nat,
           resting'.trigger <= p.stop, resting'.trigger \in Nat,
           failures' = 0 => Backed(p, held', resting'),
           ~Remote /\ TRUE \notin Flattens => failures' = 0 /\ resting' # NoStop
    PROVE  BookIInv'
<1>1. BookTypeOK' /\ Stations' /\ Carving'
  BY OnwardCarves
<1>2. /\ pos' = next.pos /\ pc' = next.pc /\ Remote' = Remote
  BY DEF Resume, Remote
<1>3. p.stop \in Nat /\ pos'.stop \in Nat /\ p.stop <= pos'.stop
  BY <1>2 DEF Onward, Workable, Managed
<1>4. BookLeads'
  BY <1>3 DEF BookLeads
<1>5. /\ pc' \in ModifyCalls \union {"idle", "sell"} /\ pos'.exit = "none"
      /\ pos'.remaining = p.remaining /\ pos'.stopId = p.stopId /\ pos'.stopId >= 1
      /\ pc' \in {"idle", "sell"} => pos'.stop = p.stop
      /\ pos'.state # "EXITED"
  BY <1>2 DEF Onward, Ready, LiveStates
<1>6. failures' = 0 => (Covers(pos.remaining)' /\ (pc' \in {"idle", "sell"} => resting'.trigger = pos'.stop)) \/ Flat'
  BY <1>5 DEF Backed, Covers, Flat
<1>7. Cover'
  BY <1>5, <1>6 DEF Cover, CoversAtBook, ModifyCalls
<1>8. PaperCover'
  BY <1>2, <1>5 DEF PaperCover, ModifyCalls
<1> QED
  BY <1>1, <1>4, <1>7, <1>8 DEF BookIInv

LEMMA IInvFacts ==
    ASSUME ExitIInv
    PROVE  /\ BookTypeOK /\ BrokerTypeOK /\ BarTypeOK
           /\ Stations /\ Carving /\ BookLeads /\ Cover /\ PaperCover
           /\ pos \in Managed(qty)
BY TypeParts DEF ExitIInv, BookTypeOK

\* A step that takes no rung, to any call but the sale of one.
LEMMA NoRungTaken ==
    ASSUME ExitIInv, NEW p \in Managed(qty), NEW where \in Pcs \ {"sell", "attaching"},
           Resume(Go(p, where)), p.taken = pos.taken, p.stopId = pos.stopId,
           p.state = "NONE" => p = pos,
           p.state = "RISK_ON" => pos.state = "RISK_ON",
           p.state \in LiveStates => pos.stopId >= 1,
           p.state # "NONE" => p.remaining >= Left(pos.taken),
           lastId' \in Nat, pos.stopId <= lastId', lastId' <= 1 + Count(pos.taken),
           where \in {"replace", "place"} => lastId' <= Count(pos.taken)
    PROVE  BookTypeOK' /\ Carving' /\ pos' = p /\ pc' = where /\ qty' = qty
           /\ PartialLots' = PartialLots /\ Remote' = Remote
<1>1. /\ qty' = qty /\ venue' = venue /\ PartialLots' = PartialLots /\ Remote' = Remote
      /\ pos' = p /\ pc' = where /\ asked' = asked
  BY DEF Resume, PartialLots, Go, Remote
<1>2. BookTypeOK'
  BY <1>1, IInvFacts DEF BookTypeOK
<1>3. Left(pos.taken)' = Left(pos.taken) /\ Count(pos.taken)' = Count(pos.taken)
  BY <1>1 DEF Left, Count, One
<1>4. (\A rung \in {1, 2} : asked[rung] <= One(rung, pos.taken))'
  BY <1>1, IInvFacts DEF Carving, One
<1>5. /\ pos'.state \in {"NONE", "RISK_ON"} => 2 \notin pos'.taken
      /\ pos'.state = "NONE" => pos'.remaining = 0 /\ pos'.taken = {}
  BY <1>1, IInvFacts DEF Carving
<1> QED
  BY <1>1, <1>2, <1>3, <1>4, <1>5 DEF Carving, LiveStates, Live

\* After a call that failed only the book is at stake.
LEMMA BrokenKeeps ==
    ASSUME ExitIInv, NEW where \in {"down", "unmanaged", "idle", "exitSell"},
           Resume(Go(pos, where)), failures' # 0, Remote \/ TRUE \in Flattens,
           resting'.trigger <= pos.stop,
           lastId' \in Nat, pos.stopId <= lastId', lastId' <= 1 + Count(pos.taken),
           pos.state = "NONE" <=> where = "unmanaged",
           where = "exitSell" => pos.state = "EXITED" /\ pos.exit = "active"
    PROVE  BookIInv'
<1>1. /\ BookTypeOK' /\ Carving' /\ pos' = pos /\ pc' = where /\ Remote' = Remote
  <2>1. pos.state # "NONE" => pos.remaining >= Left(pos.taken)
    BY IInvFacts DEF Carving
  <2>2. pos.state \in LiveStates => pos.stopId >= 1
    BY IInvFacts DEF Carving, Live, LiveStates
  <2> QED
    BY <2>1, <2>2, NoRungTaken, IInvFacts DEF Pcs, BarCalls
<1>2. Stations'
  BY <1>1, IInvFacts DEF Stations, Live, ModifyCalls, BarCalls
<1>3. BookLeads' /\ Cover' /\ PaperCover'
  BY <1>1 DEF BookLeads, Cover, PaperCover
<1> QED
  BY <1>1, <1>2, <1>3 DEF BookIInv

\* On the paper venues a stop that is to be moved or cancelled is there.
LEMMA PaperKnown ==
    ASSUME ExitIInv, ~Remote, TRUE \notin Flattens,
           pc \in ModifyCalls \union {"replace", "exitCancel"}
    PROVE  Known
<1>1. failures = 0 /\ resting # NoStop
  BY IInvFacts DEF PaperCover, Stations, Live, ModifyCalls, BarCalls
<1> QED
  BY <1>1, IInvFacts DEF Cover, Covers, CoversAtBook, Flat, Known

------------------------------------------------------------------------------
(* The calls, one by one.                                                   *)

LEMMA CallBarTypes == ExitIInv /\ Call => BarTypeOK' /\ failures' \in {failures, Lesser(failures + 1, MaxFailures)}
<1> SUFFICES ASSUME ExitIInv, Call
             PROVE  BarTypeOK' /\ failures' \in {failures, Lesser(failures + 1, MaxFailures)}
  OBVIOUS
<1>1. /\ trail' \in {trail, 0} /\ bar' \in {bar, EmptyBar}
      /\ failures' \in {failures, Lesser(failures + 1, MaxFailures)}
  BY DEF Call, Attach, ModifyStop, SellPartial, ReplaceStop, PlaceAgain, CancelStop, SellRest,
         Done, Failed, KeepTrail, Cleared
<1> QED
  BY <1>1, IInvFacts, ConstantsAreNumbers DEF BarTypeOK, Lesser

\* A call that fails is counted.
LEMMA Counted ==
    ASSUME ExitIInv, failures' = Lesser(failures + 1, MaxFailures)
    PROVE  failures' # 0
BY IInvFacts, ConstantsAreNumbers DEF BarTypeOK, Lesser

\* An order is placed while its id is free.
LEMMA PlaceEffect ==
    ASSUME ExitIInv, pc \in {"attaching", "place"}, NEW lots \in Nat,
           Place(lots, pos.stop) \/ UNCHANGED brokerVars
    PROVE  /\ BrokerTypeOK' /\ held' = held
           /\ resting'.trigger \in Nat /\ resting'.trigger <= pos.stop
           /\ pos.stopId <= lastId' /\ lastId' <= 1 + Count(pos.taken)
<1>1. /\ lastId + 1 \in 0 .. 3 /\ lastId + 1 <= 1 + Count(pos.taken)
      /\ pos.stopId <= lastId /\ lastId <= 1 + Count(pos.taken)
  BY IInvFacts, CountBounds DEF Carving, Managed, BrokerTypeOK
<1>2. pos.stop \in Nat /\ pos.stopId \in Nat /\ Count(pos.taken) \in Nat
  BY IInvFacts, CountBounds DEF Managed
<1>3. CASE Place(lots, pos.stop)
  BY <1>1, <1>2, <1>3, IInvFacts DEF Place, BrokerTypeOK
<1>4. CASE UNCHANGED brokerVars
  BY <1>1, <1>2, <1>4, IInvFacts DEF brokerVars, BrokerTypeOK, BookLeads
<1> QED
  BY <1>3, <1>4

LEMMA AttachKeeps == ExitIInv /\ Attach => BookIInv' /\ BrokerTypeOK'
<1> SUFFICES ASSUME ExitIInv, Attach
             PROVE  BookIInv' /\ BrokerTypeOK'
  OBVIOUS
<1> DEFINE p == [pos EXCEPT !.state = "RISK_ON", !.stopId = lastId + 1, !.remaining = qty]
<1>1. /\ pc = "attaching" /\ pos.state = "NONE" /\ pos.taken = {} /\ lastId = 0
      /\ pos.exit = "none" /\ pos.noProgress < MaxNoProgress
  BY IInvFacts DEF Attach, Stations, Carving
<1>2. qty \in Nat
  BY IInvFacts, Lots
<1>3. CASE Done(Place(qty, pos.stop), Go(p, "idle"))
  <2>1. Place(qty, pos.stop) /\ Resume(Go(p, "idle")) /\ failures' = failures
    BY <1>3 DEF Done
  <2>2. BrokerTypeOK'
    BY <1>1, <1>2, <2>1, PlaceEffect
  <2>3. /\ p \in Managed(qty) /\ p.state = "RISK_ON" /\ p.stopId = 1 /\ p.remaining = qty
        /\ p.taken = {} /\ p.exit = "none" /\ p.noProgress < MaxNoProgress
        /\ p.stop = pos.stop /\ p.stop \in Nat
    <3>1. lastId + 1 = 1 /\ qty \in 0 .. qty /\ 1 \in 0 .. 3
      BY <1>1, <1>2
    <3>2. p = [pos EXCEPT !.state = "RISK_ON", !.stopId = 1, !.remaining = qty]
      BY <3>1
    <3> HIDE DEF p
    <3> QED
      BY <1>1, <3>1, <3>2, IInvFacts DEF Managed
  <2>4. lastId' = 1 /\ held' = held /\ resting' = [id |-> 1, lots |-> qty, trigger |-> p.stop]
    BY <1>1, <2>1, <2>3 DEF Place
  <2>5. failures = 0 => held = qty
    BY <1>1, IInvFacts DEF Cover
  <2>6. ~Remote /\ TRUE \notin Flattens => failures = 0
    BY IInvFacts DEF PaperCover
  <2> HIDE DEF p
  <2>7. Workable(qty, p)
    BY <2>3 DEF Workable, LiveStates
  <2>8. Onward(qty, p, Go(p, "idle"))
    BY <2>3, <2>7 DEF Onward, Go, Workable
  <2>9. Ready(p, lastId')
    BY <1>1, <2>3, <2>4, IInvFacts, LeftBounds, CountBounds DEF Ready, Carving
  <2>10. Backed(p, held', resting') \/ failures' # 0
    BY <2>1, <2>3, <2>4, <2>5 DEF Backed
  <2>11. resting' # NoStop /\ resting'.trigger = p.stop /\ resting'.trigger <= p.stop
    BY <2>3, <2>4 DEF NoStop
  <2> QED
    <3>1. lastId' \in Nat /\ resting'.trigger \in Nat
      BY <2>2 DEF BrokerTypeOK
    <3>2. ~Remote /\ TRUE \notin Flattens => failures' = 0 /\ resting' # NoStop
      BY <2>1, <2>6, <2>11
    <3>3. BookIInv'
      BY <2>1, <2>7, <2>8, <2>9, <2>10, <2>11, <3>1, <3>2, IInvFacts, OnwardKeeps
    <3> QED
      BY <2>2, <3>3
<1>4. CASE Failed(Place(qty, pos.stop), FALSE, Go(pos, "unmanaged"))
  <2>1. /\ Place(qty, pos.stop) \/ UNCHANGED brokerVars
        /\ Remote /\ Resume(Go(pos, "unmanaged"))
        /\ failures' # 0
    BY <1>4, Counted DEF Failed
  <2>2. BrokerTypeOK' /\ resting'.trigger <= pos.stop
        /\ pos.stopId <= lastId' /\ lastId' <= 1 + Count(pos.taken)
    BY <1>1, <1>2, <2>1, PlaceEffect
  <2> QED
    BY <1>1, <2>1, <2>2, BrokenKeeps DEF BrokerTypeOK
<1> QED
  BY <1>3, <1>4 DEF Attach

\* A live position, for the engine to go on with.
LEMMA LiveWorkable ==
    ASSUME ExitIInv, Live
    PROVE  /\ Workable(qty, pos) /\ pos.exit = "none" /\ pos.stop \in Nat
           /\ pos.stopId >= 1 /\ pos.remaining \in Nat /\ pos.remaining > 0
           /\ lastId \in Nat /\ Ready(pos, lastId)
<1>1. /\ pos.taken \in SUBSET {1, 2} /\ pos.stop \in Nat /\ pos.remaining \in Nat
      /\ pos.stopId \in Nat /\ pos.stopId >= 1
  BY IInvFacts DEF Managed, Carving, BookTypeOK
<1>2. Workable(qty, pos) /\ pos.exit = "none"
  BY IInvFacts DEF Workable, Stations, Carving, Live, LiveStates
<1>3. pos.remaining >= Left(pos.taken) /\ Left(pos.taken) \in Nat /\ Left(pos.taken) > 0
  BY <1>1, IInvFacts, LeftBounds DEF Carving, Live
<1>4. lastId \in Nat /\ pos.stopId \in 1 .. lastId /\ lastId <= 1 + Count(pos.taken)
  BY <1>1, IInvFacts DEF Carving, BrokerTypeOK
<1> QED
  BY <1>1, <1>2, <1>3, <1>4, IInvFacts DEF Ready, Carving

LEMMA SeenTrail == ExitIInv => Seen.trail \in Nat
<1> SUFFICES ASSUME ExitIInv
             PROVE  Seen.trail \in Nat
  OBVIOUS
<1>1. trail \in Trails \/ trail = 0
  BY IInvFacts DEF BarTypeOK
<1>2. \A k \in Trails : k \in Nat
  BY ConstantsAreNumbers
<1>3. trail \in Nat
  BY <1>1, <1>2
<1>4. Seen.trail = trail
  BY DEF Seen
<1> QED
  BY <1>3, <1>4

\* The stop that rests is moved to where the book has it, and on MT5 made to
\* cover no more than what is held.
LEMMA ModifyEffect ==
    ASSUME ExitIInv, Live, Modify
    PROVE  /\ BrokerTypeOK' /\ held' = held /\ lastId' = lastId
           /\ resting' = [id |-> pos.stopId, lots |-> Synced(resting.lots), trigger |-> pos.stop]
           /\ resting' # NoStop
<1>1. Synced(resting.lots) \in Nat
  BY IInvFacts DEF Synced, Lesser, BrokerTypeOK
<1>2. pos.stopId \in 1 .. 3 /\ pos.stop \in Nat
  BY IInvFacts, LiveWorkable DEF Managed
<1>3. resting' = [id |-> pos.stopId, lots |-> Synced(resting.lots), trigger |-> pos.stop]
  BY IInvFacts DEF Modify, Known, BrokerTypeOK
<1>4. resting'.id # 0 /\ resting' \in [id : 0 .. 3, lots : Nat, trigger : Nat]
  BY <1>1, <1>2, <1>3
<1>5. resting' # NoStop
  BY <1>4 DEF NoStop
<1> QED
  BY <1>3, <1>4, <1>5, IInvFacts DEF Modify, BrokerTypeOK

\* A modify that fails leaves the stop where it was or where the book has it.
LEMMA ModifyFails ==
    ASSUME ExitIInv, Live, Modify \/ UNCHANGED brokerVars
    PROVE  BrokerTypeOK' /\ resting'.trigger <= pos.stop /\ lastId' = lastId
<1>1. pos.stop \in Nat
  BY LiveWorkable
<1>2. CASE Modify
  BY <1>1, <1>2, ModifyEffect
<1>3. CASE UNCHANGED brokerVars
  BY <1>3, IInvFacts DEF brokerVars, BrokerTypeOK, BookLeads
<1> QED
  BY <1>2, <1>3

LEMMA ModifyStopKeeps == ExitIInv /\ ModifyStop => BookIInv' /\ BrokerTypeOK'
<1> SUFFICES ASSUME ExitIInv, ModifyStop
             PROVE  BookIInv' /\ BrokerTypeOK'
  OBVIOUS
<1>1. pc \in ModifyCalls /\ Live
  BY IInvFacts DEF ModifyStop, Stations
<1>2. CASE Done(Modify, AfterModify)
  <2>1. Modify /\ Known /\ Resume(AfterModify) /\ failures' = failures
    BY <1>2 DEF Done, Modify
  <2>2. Seen.trail \in Nat
    BY SeenTrail
  <2> DEFINE p == IF pc = "lock" THEN [pos EXCEPT !.locked = TRUE] ELSE pos
  <2>3. /\ Workable(qty, p) /\ Ready(p, lastId) /\ p.stop = pos.stop
        /\ p.remaining = pos.remaining /\ p.stopId = pos.stopId
    BY <1>1, LiveWorkable DEF Workable, Managed, Ready
  <2>4. Onward(qty, p, AfterModify)
    <3>1. CASE pc = "breakeven"
      BY <1>1, <2>2, <2>3, <3>1, FirstOnward, IInvFacts DEF AfterModify, Stations
    <3>2. CASE pc = "lock"
      BY <2>2, <2>3, <3>2, TrailOnward DEF AfterModify
    <3>3. CASE pc \notin {"breakeven", "lock"}
      BY <2>3, <3>3 DEF AfterModify, Onward, Go, Workable, Managed
    <3> QED
      BY <3>1, <3>2, <3>3
  <2> HIDE DEF p
  <2>5. /\ BrokerTypeOK' /\ held' = held /\ lastId' = lastId /\ resting' # NoStop
        /\ resting' = [id |-> pos.stopId, lots |-> Synced(resting.lots), trigger |-> pos.stop]
    BY <1>1, <2>1, ModifyEffect
  <2>6. failures' = 0 => Backed(p, held', resting')
    <3>1. SUFFICES ASSUME failures = 0
                   PROVE  Backed(p, held', resting')
      BY <2>1
    <3>2. held = pos.remaining /\ resting.lots = pos.remaining
      BY <1>1, <2>1, <3>1, IInvFacts DEF Cover, Covers, Flat, Known
    <3>3. Synced(resting.lots) = pos.remaining
      BY <3>2 DEF Synced, Lesser
    <3> QED
      BY <2>3, <2>5, <3>2, <3>3 DEF Backed
  <2>7. /\ resting'.trigger <= p.stop /\ resting'.trigger \in Nat /\ lastId' \in Nat
        /\ Ready(p, lastId')
    BY <1>1, <2>3, <2>5, LiveWorkable
  <2>8. ~Remote /\ TRUE \notin Flattens => failures' = 0 /\ resting' # NoStop
    BY <2>1, <2>5, IInvFacts DEF PaperCover
  <2>9. BookIInv'
    BY <2>1, <2>3, <2>4, <2>6, <2>7, <2>8, IInvFacts, OnwardKeeps
  <2> QED
    BY <2>5, <2>9
<1>3. CASE Failed(Modify, ~Known, Go(pos, IF pc = "forced" THEN "idle" ELSE "down"))
  <2> DEFINE where == IF pc = "forced" THEN "idle" ELSE "down"
  <2>1. /\ Modify \/ UNCHANGED brokerVars
        /\ ~Known \/ Remote
        /\ Resume(Go(pos, where)) /\ failures' # 0
    BY <1>3, Counted DEF Failed
  <2>2. BrokerTypeOK' /\ resting'.trigger <= pos.stop /\ lastId' = lastId
    BY <1>1, <2>1, ModifyFails
  <2>3. Remote \/ TRUE \in Flattens
    BY <1>1, <2>1, PaperKnown
  <2>4. /\ where \in {"down", "idle"} /\ pos.state # "NONE" /\ lastId' \in Nat
        /\ pos.stopId <= lastId' /\ lastId' <= 1 + Count(pos.taken)
    BY <1>1, <2>2, LiveWorkable DEF Ready, Live
  <2> HIDE DEF where
  <2> QED
    BY <2>1, <2>2, <2>3, <2>4, BrokenKeeps
<1> QED
  BY <1>2, <1>3 DEF ModifyStop

LEMMA SellPartialKeeps == ExitIInv /\ SellPartial => BookIInv' /\ BrokerTypeOK'
<1> SUFFICES ASSUME ExitIInv, SellPartial
             PROVE  BookIInv' /\ BrokerTypeOK'
  OBVIOUS
<1> DEFINE p == [pos EXCEPT !.remaining = @ - PartialLots]
<1>1. /\ pc = "sell" /\ Live /\ PartialLots \in Nat /\ PartialLots > 0
      /\ Rung(pos) \in {1, 2} \intersect pos.taken
      /\ pos.remaining >= Left(pos.taken \ {Rung(pos)})
      /\ lastId <= Count(pos.taken)
  BY IInvFacts, Lots DEF SellPartial, Stations, Carving, Rung, BarCalls
<1>2. pos.taken \in SUBSET {1, 2} /\ pos.remaining \in 0 .. qty /\ qty \in Nat
  BY IInvFacts, Lots DEF Managed
<1>3. /\ pos.remaining - PartialLots >= Left(pos.taken)
      /\ pos.remaining - PartialLots \in 0 .. qty
  <2> DEFINE rest == pos.taken \ {Rung(pos)}
  <2>1. rest \in SUBSET {1, 2} /\ Rung(pos) \in {1, 2} \ rest
        /\ rest \union {Rung(pos)} = pos.taken
    BY <1>1, <1>2
  <2>2. Left(rest) - PartialLots = Left(rest \union {Rung(pos)})
    BY <2>1, IInvFacts, LeftBounds
  <2>3. Left(rest) \in Nat /\ Left(pos.taken) \in Nat /\ Left(pos.taken) > 0
    BY <1>2, <2>1, IInvFacts, LeftBounds
  <2>4. Left(rest) - PartialLots = Left(pos.taken)
    BY <2>1, <2>2, Zenon
  <2> QED
    BY <1>1, <1>2, <2>3, <2>4
<1>4. CASE Done(Sell(PartialLots), Go(p, "replace"))
  <2>1. /\ held' = held - PartialLots /\ resting' = resting /\ lastId' = lastId
        /\ Resume(Go(p, "replace")) /\ failures' = failures
    BY <1>4 DEF Done, Sell
  <2>2. BrokerTypeOK'
    BY <1>1, <2>1, IInvFacts DEF BrokerTypeOK
  <2>3. /\ p \in Managed(qty) /\ p.remaining = pos.remaining - PartialLots
        /\ p.state = pos.state /\ p.stop = pos.stop /\ p.stopId = pos.stopId
        /\ p.taken = pos.taken /\ p.exit = pos.exit /\ p.noProgress = pos.noProgress
    BY <1>3, IInvFacts DEF Managed
  <2> HIDE DEF p
  <2>4. /\ BookTypeOK' /\ Carving' /\ pos' = p /\ pc' = "replace"
        /\ PartialLots' = PartialLots /\ Remote' = Remote
    BY <1>1, <1>3, <2>1, <2>3, LiveWorkable, NoRungTaken DEF Live, Pcs, BarCalls, Ready
  <2>5. Stations'
    BY <1>1, <2>3, <2>4, IInvFacts DEF Stations, Live
  <2>6. BookLeads' /\ PaperCover'
    BY <1>1, <2>1, <2>3, <2>4, IInvFacts DEF BookLeads, PaperCover, Live, ModifyCalls
  <2>7. failures' = 0 => CoversAtBook(pos.remaining + PartialLots)' \/ resting' = NoStop
    <3>1. SUFFICES ASSUME failures = 0, resting # NoStop
                   PROVE  CoversAtBook(pos.remaining + PartialLots)'
      BY <2>1
    <3>2. CoversAtBook(pos.remaining)
      BY <1>1, <3>1, IInvFacts DEF Cover, Flat
    <3>3. p.remaining + PartialLots = pos.remaining
      BY <1>1, <1>2, <2>3
    <3> QED
      BY <2>1, <2>3, <2>4, <3>2, <3>3 DEF CoversAtBook, Covers
  <2>8. Cover'
    BY <1>1, <2>4, <2>7, <2>3, IInvFacts DEF Cover, Live, ModifyCalls, Stations
  <2> QED
    BY <2>2, <2>4, <2>5, <2>6, <2>8 DEF BookIInv
<1>5. CASE Failed(Sell(PartialLots), FALSE, Go(pos, "down"))
  <2>1. /\ held' \in {held, held - PartialLots} /\ resting' = resting /\ lastId' = lastId
        /\ Remote /\ Resume(Go(pos, "down")) /\ failures' # 0
    BY <1>5, Counted DEF Failed, Sell, brokerVars
  <2>2. BrokerTypeOK'
    BY <1>1, <2>1, IInvFacts DEF BrokerTypeOK
  <2>3. resting'.trigger <= pos.stop /\ pos.state # "NONE" /\ lastId' \in Nat
        /\ pos.stopId <= lastId' /\ lastId' <= 1 + Count(pos.taken)
    BY <1>1, <2>1, IInvFacts, LiveWorkable DEF Ready, Live, BookLeads
  <2> QED
    BY <2>1, <2>2, <2>3, BrokenKeeps
<1> QED
  BY <1>4, <1>5 DEF SellPartial

\* A stop that is cancelled is gone; one that could not be is as it was.
LEMMA CancelEffect ==
    ASSUME ExitIInv, Cancel \/ UNCHANGED brokerVars
    PROVE  /\ BrokerTypeOK' /\ held' = held /\ lastId' = lastId
           /\ resting'.trigger <= pos.stop
           /\ Cancel => resting' = NoStop
<1>1. pos.stop \in Nat
  BY IInvFacts DEF Managed
<1>2. NoStop \in [id : 0 .. 3, lots : Nat, trigger : Nat] /\ NoStop.trigger <= pos.stop
  BY <1>1 DEF NoStop
<1>3. CASE Cancel
  BY <1>2, <1>3, IInvFacts DEF Cancel, BrokerTypeOK
<1>4. CASE UNCHANGED brokerVars
  BY <1>4, IInvFacts DEF brokerVars, Cancel, BrokerTypeOK, BookLeads
<1> QED
  BY <1>3, <1>4

LEMMA ReplaceStopKeeps == ExitIInv /\ ReplaceStop => BookIInv' /\ BrokerTypeOK'
<1> SUFFICES ASSUME ExitIInv, ReplaceStop
             PROVE  BookIInv' /\ BrokerTypeOK'
  OBVIOUS
<1>1. pc = "replace" /\ Live /\ lastId <= Count(pos.taken) /\ pos.state # "NONE"
  BY IInvFacts DEF ReplaceStop, Stations, Carving, BarCalls, Live
<1>2. /\ pos.stop \in Nat /\ pos.remaining \in Nat /\ pos.remaining > 0
      /\ lastId \in Nat /\ Ready(pos, lastId) /\ Workable(qty, pos)
  BY <1>1, LiveWorkable
<1>3. PartialLots \in Nat
  BY IInvFacts, Lots
<1>4. CASE venue = "paper_mt5" /\ Done(Modify, FromPartial(pos, Seen))
  <2>1. Modify /\ Known /\ Resume(FromPartial(pos, Seen)) /\ failures' = failures
    BY <1>4 DEF Done, Modify
  <2>2. Onward(qty, pos, FromPartial(pos, Seen))
    BY <1>2, SeenTrail, PartialOnward
  <2>3. /\ BrokerTypeOK' /\ held' = held /\ lastId' = lastId /\ resting' # NoStop
        /\ resting' = [id |-> pos.stopId, lots |-> Synced(resting.lots), trigger |-> pos.stop]
    BY <1>1, <2>1, ModifyEffect
  <2>4. failures' = 0 => Backed(pos, held', resting')
    <3>1. SUFFICES ASSUME failures = 0
                   PROVE  Backed(pos, held', resting')
      BY <2>1
    <3>2. held = pos.remaining /\ resting.lots = pos.remaining + PartialLots
      BY <1>1, <2>1, <3>1, IInvFacts DEF Cover, CoversAtBook, Covers, Known
    <3>3. Synced(resting.lots) = pos.remaining
      BY <1>2, <1>3, <1>4, <3>2 DEF Synced, Lesser
    <3> QED
      BY <2>3, <3>2, <3>3 DEF Backed
  <2>5. /\ resting'.trigger <= pos.stop /\ resting'.trigger \in Nat /\ lastId' \in Nat
        /\ Ready(pos, lastId')
    BY <1>2, <2>3
  <2>6. ~Remote /\ TRUE \notin Flattens => failures' = 0 /\ resting' # NoStop
    BY <2>1, <2>3, IInvFacts DEF PaperCover
  <2>7. BookIInv'
    BY <1>2, <2>1, <2>2, <2>4, <2>5, <2>6, IInvFacts, OnwardKeeps
  <2> QED
    BY <2>3, <2>7
<1>5. CASE Done(Cancel, Go(pos, "place"))
  <2>1. Cancel /\ Known /\ Resume(Go(pos, "place")) /\ failures' = failures
    BY <1>5 DEF Done, Cancel
  <2>2. /\ BrokerTypeOK' /\ held' = held /\ lastId' = lastId
        /\ resting'.trigger <= pos.stop /\ resting' = NoStop
    BY <2>1, CancelEffect
  <2>3. /\ BookTypeOK' /\ Carving' /\ pos' = pos /\ pc' = "place" /\ Remote' = Remote
    BY <1>1, <1>2, <2>1, <2>2, IInvFacts, NoRungTaken, LiveWorkable
       DEF Pcs, BarCalls, Ready, Carving
  <2>4. Stations'
    BY <1>1, <2>3, IInvFacts DEF Stations, Live
  <2>5. BookLeads' /\ PaperCover'
    BY <1>1, <2>1, <2>2, <2>3, IInvFacts DEF BookLeads, PaperCover, Live, ModifyCalls
  <2>6. failures' = 0 => held' = pos'.remaining
    BY <1>1, <2>1, <2>2, <2>3, IInvFacts DEF Cover, CoversAtBook, Covers, Known
  <2>7. Cover'
    BY <1>1, <2>2, <2>3, <2>6, IInvFacts DEF Cover, Live, ModifyCalls, Stations
  <2> QED
    BY <2>2, <2>3, <2>4, <2>5, <2>7 DEF BookIInv
<1>6. CASE Failed(Modify, ~Known, Go(pos, "down")) \/ Failed(Cancel, ~Known, Go(pos, "down"))
  <2>1. /\ Modify \/ Cancel \/ UNCHANGED brokerVars
        /\ ~Known \/ Remote
        /\ Resume(Go(pos, "down")) /\ failures' # 0
    BY <1>6, Counted DEF Failed
  <2>2. BrokerTypeOK' /\ resting'.trigger <= pos.stop /\ lastId' = lastId
    BY <1>1, <2>1, ModifyFails, CancelEffect
  <2>3. Remote \/ TRUE \in Flattens
    BY <1>1, <2>1, PaperKnown
  <2>4. /\ lastId' \in Nat /\ pos.stopId <= lastId' /\ lastId' <= 1 + Count(pos.taken)
    BY <1>2, <2>2 DEF Ready
  <2> QED
    BY <1>1, <2>1, <2>2, <2>3, <2>4, BrokenKeeps
<1> QED
  BY <1>4, <1>5, <1>6 DEF ReplaceStop

LEMMA PlaceAgainKeeps == ExitIInv /\ PlaceAgain => BookIInv' /\ BrokerTypeOK'
<1> SUFFICES ASSUME ExitIInv, PlaceAgain
             PROVE  BookIInv' /\ BrokerTypeOK'
  OBVIOUS
<1> DEFINE p == [pos EXCEPT !.stopId = lastId + 1]
<1>1. /\ pc = "place" /\ Live /\ lastId <= Count(pos.taken) /\ pos.state # "NONE"
      /\ resting = NoStop
  BY IInvFacts DEF PlaceAgain, Stations, Carving, BarCalls, Live, Cover
<1>2. /\ pos.stop \in Nat /\ pos.remaining \in Nat
      /\ lastId \in Nat /\ Ready(pos, lastId) /\ Workable(qty, pos)
      /\ Count(pos.taken) \in 0 .. 2
  BY <1>1, LiveWorkable, IInvFacts, CountBounds DEF Managed
<1>3. CASE Done(Place(PlaceLots, pos.stop), FromPartial(p, Seen))
  <2>1. /\ Place(PlaceLots, pos.stop) /\ Resume(FromPartial(p, Seen)) /\ failures' = failures
    BY <1>3 DEF Done
  <2>2. BrokerTypeOK' /\ resting'.trigger \in Nat
    BY <1>1, <1>2, <2>1, PlaceEffect DEF PlaceLots
  <2>3. /\ lastId' = lastId + 1 /\ held' = held
        /\ resting' = [id |-> lastId + 1, lots |-> pos.remaining, trigger |-> pos.stop]
    BY <2>1 DEF Place, PlaceLots
  <2>4. /\ p.stop = pos.stop /\ p.remaining = pos.remaining /\ p.stopId = lastId + 1
        /\ p.taken = pos.taken /\ p.exit = pos.exit /\ p.state = pos.state
        /\ p.noProgress = pos.noProgress /\ p \in Managed(qty)
    <3>1. lastId + 1 \in 0 .. 3
      BY <1>1, <1>2
    <3> QED
      BY <3>1, IInvFacts DEF Managed
  <2> HIDE DEF p
  <2>5. Workable(qty, p)
    BY <1>2, <2>4 DEF Workable
  <2>6. Onward(qty, p, FromPartial(p, Seen))
    BY <2>5, SeenTrail, PartialOnward
  <2>7. Ready(p, lastId') /\ lastId' \in Nat
    BY <1>1, <1>2, <2>3, <2>4 DEF Ready
  <2>8. failures' = 0 => Backed(p, held', resting')
    BY <1>1, <2>1, <2>3, <2>4, IInvFacts DEF Cover, Backed
  <2>9. resting'.trigger <= p.stop /\ resting' # NoStop
    <3>1. resting'.id # 0 /\ resting'.trigger = p.stop
      BY <1>2, <2>3, <2>4
    <3> QED
      BY <1>2, <2>4, <3>1 DEF NoStop
  <2>10. ~Remote /\ TRUE \notin Flattens => failures' = 0 /\ resting' # NoStop
    BY <2>1, <2>9, IInvFacts DEF PaperCover
  <2>11. BookIInv'
    BY <2>1, <2>2, <2>5, <2>6, <2>7, <2>8, <2>9, <2>10, IInvFacts, OnwardKeeps
  <2> QED
    BY <2>2, <2>11
<1>4. CASE Failed(Place(PlaceLots, pos.stop), FALSE, Go(pos, "down"))
  <2>1. /\ Place(PlaceLots, pos.stop) \/ UNCHANGED brokerVars
        /\ Remote /\ Resume(Go(pos, "down")) /\ failures' # 0
    BY <1>4, Counted DEF Failed
  <2>2. /\ BrokerTypeOK' /\ resting'.trigger <= pos.stop
        /\ pos.stopId <= lastId' /\ lastId' <= 1 + Count(pos.taken)
    BY <1>1, <1>2, <2>1, PlaceEffect DEF PlaceLots
  <2> QED
    BY <1>1, <2>1, <2>2, BrokenKeeps DEF BrokerTypeOK
<1> QED
  BY <1>3, <1>4 DEF PlaceAgain

\* A position that the book has closed: what the lemmas on the calls ask of it.
LEMMA ClosedFacts ==
    ASSUME ExitIInv, pos.state = "EXITED"
    PROVE  /\ pos.remaining >= Left(pos.taken) /\ pos.remaining \in Nat
           /\ lastId \in Nat /\ pos.stopId <= lastId /\ lastId <= 1 + Count(pos.taken)
           /\ pc \notin ModifyCalls \union BarCalls
BY IInvFacts DEF Carving, BrokerTypeOK, BookTypeOK, Managed, Stations, Live

LEMMA CancelStopKeeps == ExitIInv /\ CancelStop => BookIInv' /\ BrokerTypeOK'
<1> SUFFICES ASSUME ExitIInv, CancelStop
             PROVE  BookIInv' /\ BrokerTypeOK'
  OBVIOUS
<1>1. pc = "exitCancel" /\ pos.state = "EXITED" /\ pos.exit = "active"
  BY IInvFacts DEF CancelStop, Stations
<1>2. CASE Done(Cancel, Go(pos, "exitSell"))
  <2>1. Cancel /\ Known /\ Resume(Go(pos, "exitSell")) /\ failures' = failures
    BY <1>2 DEF Done, Cancel
  <2>2. /\ BrokerTypeOK' /\ held' = held /\ lastId' = lastId
        /\ resting'.trigger <= pos.stop /\ resting' = NoStop
    BY <2>1, CancelEffect
  <2>3. /\ BookTypeOK' /\ Carving' /\ pos' = pos /\ pc' = "exitSell" /\ Remote' = Remote
    BY <1>1, <2>1, <2>2, IInvFacts, NoRungTaken, ClosedFacts DEF Pcs, LiveStates
  <2>4. Stations' /\ BookLeads' /\ PaperCover'
    BY <1>1, <2>1, <2>2, <2>3, IInvFacts
       DEF Stations, BookLeads, PaperCover, Live, ModifyCalls, BarCalls
  <2>5. failures' = 0 => held' = pos'.remaining
    BY <1>1, <2>1, <2>2, <2>3, IInvFacts DEF Cover, Covers, Flat, Known
  <2>6. Cover'
    BY <1>1, <2>2, <2>3, <2>5 DEF Cover, Live, ModifyCalls
  <2> QED
    BY <2>2, <2>3, <2>4, <2>6 DEF BookIInv
<1>3. CASE Failed(Cancel, ~Known, Go(pos, "exitSell"))
  <2>1. /\ Cancel \/ UNCHANGED brokerVars
        /\ ~Known \/ Remote
        /\ Resume(Go(pos, "exitSell")) /\ failures' # 0
    BY <1>3, Counted DEF Failed
  <2>2. BrokerTypeOK' /\ resting'.trigger <= pos.stop /\ lastId' = lastId
    BY <2>1, CancelEffect
  <2>3. Remote \/ TRUE \in Flattens
    BY <1>1, <2>1, PaperKnown
  <2> QED
    BY <1>1, <2>1, <2>2, <2>3, ClosedFacts, BrokenKeeps
<1> QED
  BY <1>2, <1>3 DEF CancelStop

LEMMA SellRestKeeps == ExitIInv /\ SellRest => BookIInv' /\ BrokerTypeOK'
<1> SUFFICES ASSUME ExitIInv, SellRest
             PROVE  BookIInv' /\ BrokerTypeOK'
  OBVIOUS
<1>1. pc = "exitSell" /\ pos.state = "EXITED" /\ pos.exit = "active"
  BY IInvFacts DEF SellRest, Stations
<1>2. pos.remaining \in Nat
  BY <1>1, ClosedFacts
<1>3. CASE Done(Sell(SellLots), Go(pos, "idle"))
  <2>1. /\ held' = held - pos.remaining /\ resting' = resting /\ lastId' = lastId
        /\ Resume(Go(pos, "idle")) /\ failures' = failures
    BY <1>3 DEF Done, Sell, SellLots
  <2>2. BrokerTypeOK'
    BY <1>2, <2>1, IInvFacts DEF BrokerTypeOK
  <2>3. /\ BookTypeOK' /\ Carving' /\ pos' = pos /\ pc' = "idle" /\ Remote' = Remote
    BY <1>1, <2>1, IInvFacts, NoRungTaken, ClosedFacts DEF Pcs, LiveStates
  <2>4. Stations' /\ BookLeads'
    BY <1>1, <2>1, <2>3, IInvFacts DEF Stations, BookLeads, Live, ModifyCalls, BarCalls
  <2>5. failures' = 0 => Flat'
    BY <1>1, <1>2, <2>1, IInvFacts DEF Cover, Flat
  <2>6. Cover'
    BY <1>1, <2>3, <2>5 DEF Cover, Live, ModifyCalls
  <2>7. PaperCover'
    BY <1>1, <2>1, <2>3, <2>5, IInvFacts DEF PaperCover, Live, Flat, NoStop, ModifyCalls
  <2> QED
    BY <2>2, <2>3, <2>4, <2>6, <2>7 DEF BookIInv
<1>4. CASE Failed(Sell(SellLots), FALSE, Go(pos, "down"))
  <2>1. /\ held' \in {held, held - pos.remaining} /\ resting' = resting /\ lastId' = lastId
        /\ Remote /\ Resume(Go(pos, "down")) /\ failures' # 0
    BY <1>4, Counted DEF Failed, Sell, SellLots, brokerVars
  <2>2. BrokerTypeOK'
    BY <1>2, <2>1, IInvFacts DEF BrokerTypeOK
  <2> QED
    BY <1>1, <2>1, <2>2, IInvFacts, ClosedFacts, BrokenKeeps DEF BookLeads
<1> QED
  BY <1>3, <1>4 DEF SellRest

\* Every call, whatever comes of it.
LEMMA CallKeeps == ExitIInv /\ Call => BookIInv' /\ BrokerTypeOK' /\ BarTypeOK'
<1>1. ExitIInv /\ Call => BookIInv' /\ BrokerTypeOK'
  BY AttachKeeps, ModifyStopKeeps, SellPartialKeeps, ReplaceStopKeeps, PlaceAgainKeeps,
     CancelStopKeeps, SellRestKeeps DEF Call
<1> QED
  BY <1>1, CallBarTypes

------------------------------------------------------------------------------
(* The market, the bars and the cockpit.                                    *)

LEMMA TriggerEffect ==
    ASSUME ExitIInv, NEW price \in Prices, Trigger(price)
    PROVE  /\ BrokerTypeOK' /\ lastId' = lastId /\ resting'.trigger <= pos.stop
           /\ \/ resting' = resting /\ held' = held
              \/ /\ resting # NoStop /\ price <= resting.trigger
                 /\ resting' = NoStop /\ held' = held - resting.lots
<1>1. pos.stop \in Nat
  BY IInvFacts DEF Managed
<1>2. NoStop \in [id : 0 .. 3, lots : Nat, trigger : Nat] /\ NoStop.trigger <= pos.stop
  BY <1>1 DEF NoStop
<1>3. CASE resting # NoStop /\ price <= resting.trigger
  BY <1>2, <1>3, IInvFacts DEF Trigger, BrokerTypeOK
<1>4. CASE ~ (resting # NoStop /\ price <= resting.trigger)
  BY <1>4, IInvFacts DEF Trigger, BrokerTypeOK, BookLeads
<1> QED
  BY <1>3, <1>4

\* on_bar on a position at rest, whose stop may have been triggered on the way;
\* on the paper venues the bar then shows a price as low as that.
LEMMA StartBarKeeps ==
    ASSUME ExitIInv, Live, pc = "idle",
           NEW b, b.high \in Prices, NEW price, BrokerTypeOK',
           StartBar(b), lastId' = lastId, failures' = failures,
           resting'.trigger <= pos.stop,
           \/ resting' = resting /\ held' = held
           \/ /\ resting # NoStop /\ price <= resting.trigger
              /\ resting' = NoStop /\ held' = held - resting.lots,
           ~Remote /\ price <= resting.trigger => b.low <= pos.stop
    PROVE  BookIInv'
<1>1. PICK k \in Trails, flatten \in Flattens :
        Resume(OnBar(pos, [high |-> b.high, low |-> b.low, close |-> b.close, trail |-> k], flatten))
  BY DEF StartBar
<1> DEFINE seen == [high |-> b.high, low |-> b.low, close |-> b.close, trail |-> k]
           next == OnBar(pos, seen, flatten)
<1>2. /\ seen.trail \in Nat /\ seen.high \in Prices /\ seen.low = b.low
      /\ flatten \in BOOLEAN
  BY <1>1, ExitAssumption
<1>3. /\ Workable(qty, pos) /\ pos.exit = "none" /\ pos.stop \in Nat
      /\ pos.remaining \in Nat /\ lastId \in Nat /\ Ready(pos, lastId)
  BY LiveWorkable
<1> HIDE DEF seen
<1>4. /\ Onward(qty, pos, next) \/ Ends(qty, pos, next)
      /\ ~flatten /\ ~Stops(pos, next) => ~ (b.low <= pos.stop)
  BY <1>2, <1>3, BarOutcome
<1>5. Resume(next) /\ pos' = next.pos /\ pc' = next.pc
  BY <1>1 DEF seen, Resume
<1> HIDE DEF next
<1>6. failures' = 0 => Backed(pos, held', resting')
  <2>1. SUFFICES ASSUME failures = 0
                 PROVE  Backed(pos, held', resting')
    OBVIOUS
  <2>2. CoversAtBook(pos.remaining) \/ Flat
    BY <2>1, IInvFacts DEF Cover
  <2>3. CASE CoversAtBook(pos.remaining)
    <3>1. /\ held = pos.remaining /\ resting.lots = pos.remaining
          /\ resting = [id |-> pos.stopId, lots |-> pos.remaining, trigger |-> pos.stop]
      BY <2>3, IInvFacts DEF CoversAtBook, Covers, BrokerTypeOK
    <3> QED
      BY <1>3, <3>1 DEF Backed
  <2>4. CASE Flat
    BY <2>4 DEF Flat, Backed
  <2> QED
    BY <2>2, <2>3, <2>4
<1>7. ~Remote /\ TRUE \notin Flattens => failures' = 0 /\ resting # NoStop /\ ~flatten
  BY IInvFacts DEF PaperCover
<1>8. ~Remote /\ TRUE \notin Flattens /\ ~Stops(pos, next) => resting' # NoStop
  BY <1>4, <1>7
<1>9. CASE Onward(qty, pos, next)
  <2>1. ~Stops(pos, next)
    BY <1>9 DEF Onward, Stops, LiveStates
  <2> QED
    BY <1>3, <1>5, <1>6, <1>7, <1>8, <1>9, <2>1, IInvFacts, OnwardKeeps DEF BrokerTypeOK
<1>10. CASE Ends(qty, pos, next)
  <2> DEFINE p == next.pos
             where == next.pc
  <2>1. /\ p \in Managed(qty) /\ p.state = "EXITED" /\ p.stop = pos.stop
        /\ p.remaining = pos.remaining /\ p.stopId = pos.stopId /\ p.taken = pos.taken
        /\ where \in {"idle", "exitCancel"}
        /\ where = "exitCancel" => p.exit = "active" /\ ~Stops(pos, next)
        /\ where = "idle" => p.exit = "stop_hit"
    BY <1>10 DEF Ends, Exits, Stops
  <2>2. Resume(Go(p, where))
    BY <1>5 DEF Resume, Go
  <2>3. /\ BookTypeOK' /\ Carving' /\ pos' = p /\ pc' = where /\ Remote' = Remote
    <3>1. pos.remaining >= Left(pos.taken)
      BY IInvFacts DEF Carving, Live
    <3>2. where \in Pcs \ {"sell", "attaching"} /\ where \notin {"replace", "place"}
      BY <2>1 DEF Pcs
    <3> HIDE DEF p, where
    <3> QED
      BY <1>3, <2>1, <2>2, <3>1, <3>2, NoRungTaken DEF Ready, LiveStates
  <2> HIDE DEF p, where
  <2>4. Stations' /\ BookLeads'
    BY <1>3, <2>1, <2>3 DEF Stations, BookLeads, Live, ModifyCalls, BarCalls
  <2>5. pos.stopId >= 1
    BY LiveWorkable
  <2>6. failures' = 0 => held' = resting'.lots /\ (Covers(pos.remaining)' \/ Flat')
    BY <1>6, <2>1, <2>3, <2>5 DEF Backed, Covers, Flat, NoStop
  <2>7. Cover'
    BY <2>1, <2>3, <2>6 DEF Cover, Live, ModifyCalls
  <2>8. PaperCover'
    BY <1>7, <1>8, <2>1, <2>3, <2>6 DEF PaperCover, Live, ModifyCalls
  <2> QED
    BY <2>3, <2>4, <2>7, <2>8 DEF BookIInv
<1> QED
  BY <1>4, <1>9, <1>10

\* A step of the market alone leaves the book as it is.
LEMMA BookStays ==
    ASSUME ExitIInv, UNCHANGED <<venue, qty, pos, pc, asked, lastId>>
    PROVE  BookTypeOK' /\ Stations' /\ Carving'
<1>1. PartialLots' = PartialLots
  BY DEF PartialLots
<1> QED
  BY <1>1, IInvFacts DEF BookTypeOK, Stations, Carving, Live, Rung, Left, Count, One

LEMMA BarWithin ==
    ASSUME NEW b \in [high : Prices, low : Prices, close : Prices] \union {EmptyBar},
           NEW price \in Prices
    PROVE  /\ Extended(b, price) \in [high : Prices, low : Prices, close : Prices]
           /\ Extended(b, price).low <= price
<1>1. price \in Nat /\ \A x \in Prices : x \in Nat
  BY ConstantsAreNumbers
<1>2. CASE b = EmptyBar
  BY <1>1, <1>2 DEF Extended, EmptyBar, Greater
<1>3. CASE b # EmptyBar
  <2>1. b.high \in Prices /\ b.low \in Prices
    BY <1>3
  <2>2. Greater(b.high, price) \in Prices /\ Lesser(b.low, price) \in Prices
    BY <2>1 DEF Greater, Lesser
  <2>3. Lesser(b.low, price) <= price
    <3>1. b.low \in Nat
      BY <1>1, <2>1
    <3> QED
      BY <1>1, <3>1 DEF Lesser
  <2> QED
    BY <1>3, <2>2, <2>3 DEF Extended
<1> QED
  BY <1>2, <1>3

LEMMA StartBarTypes ==
    ASSUME ExitIInv, NEW b \in [high : Prices, low : Prices, close : Prices],
           StartBar(b), failures' = failures
    PROVE  BarTypeOK'
<1>1. trail' \in Trails \union {0} /\ bar' \in {b, EmptyBar}
  BY DEF StartBar, Cleared
<1> QED
  BY <1>1, IInvFacts DEF BarTypeOK

LEMMA PaperTickKeeps == ExitIInv /\ PaperTick => BookIInv' /\ BrokerTypeOK' /\ BarTypeOK'
<1> SUFFICES ASSUME ExitIInv, PaperTick
             PROVE  BookIInv' /\ BrokerTypeOK' /\ BarTypeOK'
  OBVIOUS
<1>1. PICK price \in Prices :
        /\ Trigger(price)
        /\ \/ Live /\ \E candle \in {bar, EmptyBar} : StartBar(Extended(candle, price))
           \/ ~Live /\ UNCHANGED <<venue, qty, pos, pc, bar, trail, asked>>
  BY DEF PaperTick
<1>2. ~Remote /\ pc = "idle" /\ failures' = failures
  BY DEF PaperTick
<1>3. /\ BrokerTypeOK' /\ lastId' = lastId /\ resting'.trigger <= pos.stop
      /\ \/ resting' = resting /\ held' = held
         \/ /\ resting # NoStop /\ price <= resting.trigger
            /\ resting' = NoStop /\ held' = held - resting.lots
  BY <1>1, TriggerEffect
<1>4. CASE Live /\ \E candle \in {bar, EmptyBar} : StartBar(Extended(candle, price))
  <2>1. PICK candle \in {bar, EmptyBar} : StartBar(Extended(candle, price))
    BY <1>4
  <2> DEFINE b == Extended(candle, price)
  <2>2. b \in [high : Prices, low : Prices, close : Prices] /\ b.low <= price
    BY BarWithin, IInvFacts DEF BarTypeOK
  <2>3. StartBar(b)
    BY <2>1
  <2> HIDE DEF b
  <2>4. price <= resting.trigger => b.low <= pos.stop
    <3>1. b.low \in Nat /\ price \in Nat
      BY <2>2, ConstantsAreNumbers
    <3>2. resting.trigger \in Nat /\ pos.stop \in Nat /\ resting.trigger <= pos.stop
      BY IInvFacts DEF BookLeads, Managed, BrokerTypeOK
    <3> QED
      BY <2>2, <3>1, <3>2
  <2>5. BarTypeOK'
    BY <1>2, <2>2, <2>3, StartBarTypes
  <2>6. BookIInv'
    BY <1>2, <1>3, <1>4, <2>2, <2>3, <2>4, StartBarKeeps
  <2> QED
    BY <1>3, <2>5, <2>6
<1>5. CASE ~Live /\ UNCHANGED <<venue, qty, pos, pc, bar, trail, asked>>
  <2>1. BookTypeOK' /\ Stations' /\ Carving' /\ Remote' = Remote /\ Live' = Live
    BY <1>3, <1>5, BookStays DEF Remote, Live
  <2>2. BookLeads'
    BY <1>3, <1>5 DEF BookLeads
  <2>3. Cover'
    BY <1>2, <1>3, <1>5, <2>1, IInvFacts DEF Cover, Flat, ModifyCalls
  <2>4. PaperCover'
    BY <1>2, <1>3, <1>5, <2>1, IInvFacts DEF PaperCover, NoStop, BrokerTypeOK
  <2>5. BarTypeOK'
    BY <1>2, <1>5, IInvFacts DEF BarTypeOK
  <2> QED
    BY <1>3, <2>1, <2>2, <2>3, <2>4, <2>5 DEF BookIInv
<1> QED
  BY <1>1, <1>4, <1>5

LEMMA MarketTickKeeps == ExitIInv /\ MarketTick => BookIInv' /\ BrokerTypeOK' /\ BarTypeOK'
<1> SUFFICES ASSUME ExitIInv, MarketTick
             PROVE  BookIInv' /\ BrokerTypeOK' /\ BarTypeOK'
  OBVIOUS
<1>1. PICK price \in Prices : Trigger(price)
  BY DEF MarketTick
<1>2. Remote /\ UNCHANGED <<venue, qty, pos, pc, bar, trail, asked, failures>>
  BY DEF MarketTick
<1>3. /\ BrokerTypeOK' /\ lastId' = lastId /\ resting'.trigger <= pos.stop
      /\ \/ resting' = resting /\ held' = held
         \/ /\ resting # NoStop /\ price <= resting.trigger
            /\ resting' = NoStop /\ held' = held - resting.lots
  BY <1>1, TriggerEffect
<1>4. BookTypeOK' /\ Stations' /\ Carving' /\ Remote' /\ Live' = Live
      /\ PartialLots' = PartialLots
  BY <1>2, <1>3, BookStays DEF Remote, Live, PartialLots
<1>5. BookLeads' /\ PaperCover' /\ BarTypeOK'
  BY <1>2, <1>3, <1>4, IInvFacts DEF BookLeads, PaperCover, BarTypeOK
<1>6. Cover'
  <2>1. CASE resting' = resting /\ held' = held
    BY <1>2, <1>4, <2>1, IInvFacts DEF Cover, Covers, CoversAtBook, Flat
  <2>2. CASE resting # NoStop /\ resting' = NoStop /\ held' = held - resting.lots
    <3>1. failures = 0 => (Covers(pos.remaining) => Flat')
      BY <2>2, IInvFacts DEF Covers, Flat, BrokerTypeOK
    <3> QED
      BY <1>2, <1>4, <2>2, <3>1, IInvFacts DEF Cover, CoversAtBook, Flat
  <2> QED
    BY <1>3, <2>1, <2>2
<1> QED
  BY <1>3, <1>4, <1>5, <1>6 DEF BookIInv

LEMMA StreamTickKeeps == ExitIInv /\ StreamTick => BookIInv' /\ BrokerTypeOK' /\ BarTypeOK'
<1> SUFFICES ASSUME ExitIInv, StreamTick
             PROVE  BookIInv' /\ BrokerTypeOK' /\ BarTypeOK'
  OBVIOUS
<1>1. UNCHANGED <<venue, qty, pos, pc, trail, asked, failures, held, resting, lastId>>
  BY DEF StreamTick, brokerVars
<1>2. PICK price \in Prices : bar' = Extended(bar, price)
  BY DEF StreamTick
<1>3. BarTypeOK'
  BY <1>1, <1>2, BarWithin, IInvFacts DEF BarTypeOK
<1>4. BookTypeOK' /\ Stations' /\ Carving' /\ PartialLots' = PartialLots
  BY <1>1, BookStays DEF PartialLots
<1>5. BrokerTypeOK' /\ BookLeads' /\ Cover' /\ PaperCover'
  BY <1>1, <1>4, IInvFacts
     DEF BrokerTypeOK, BookLeads, Cover, PaperCover, Live, Remote, Covers, CoversAtBook, Flat
<1> QED
  BY <1>3, <1>4, <1>5 DEF BookIInv

LEMMA WindowFullKeeps == ExitIInv /\ WindowFull => BookIInv' /\ BrokerTypeOK' /\ BarTypeOK'
<1> SUFFICES ASSUME ExitIInv, WindowFull
             PROVE  BookIInv' /\ BrokerTypeOK' /\ BarTypeOK'
  OBVIOUS
<1>1. /\ Remote /\ pc = "idle" /\ Live /\ StartBar(bar)
      /\ UNCHANGED <<held, resting, lastId, failures>>
  BY DEF WindowFull, brokerVars
<1>2. bar \in [high : Prices, low : Prices, close : Prices]
  BY IInvFacts DEF WindowFull, BarTypeOK
<1>3. BrokerTypeOK' /\ resting'.trigger <= pos.stop
  BY <1>1, IInvFacts DEF BrokerTypeOK, BookLeads
<1>4. BarTypeOK'
  BY <1>1, <1>2, StartBarTypes
<1>5. BookIInv'
  BY <1>1, <1>2, <1>3, StartBarKeeps
<1> QED
  BY <1>3, <1>4, <1>5

LEMMA ManualExitKeeps == ExitIInv /\ ManualExit => BookIInv' /\ BrokerTypeOK' /\ BarTypeOK'
<1> SUFFICES ASSUME ExitIInv, ManualExit
             PROVE  BookIInv' /\ BrokerTypeOK' /\ BarTypeOK'
  OBVIOUS
<1> DEFINE p == [pos EXCEPT !.state = "EXITED", !.exit = "active"]
<1>1. /\ ~Remote /\ pc = "idle" /\ Live /\ Resume(Go(p, "exitCancel"))
      /\ UNCHANGED <<bar, trail, held, resting, lastId, failures>>
  BY DEF ManualExit, ActiveExit, brokerVars
<1>2. /\ p \in Managed(qty) /\ p.state = "EXITED" /\ p.exit = "active"
      /\ p.stop = pos.stop /\ p.taken = pos.taken /\ p.stopId = pos.stopId
      /\ p.remaining = pos.remaining
  BY IInvFacts DEF Managed
<1> HIDE DEF p
<1>3. /\ BookTypeOK' /\ Carving' /\ pos' = p /\ pc' = "exitCancel" /\ Remote' = Remote
  BY <1>1, <1>2, LiveWorkable, NoRungTaken DEF Pcs, LiveStates, Ready
<1>4. Stations' /\ BookLeads'
  BY <1>1, <1>2, <1>3, IInvFacts DEF Stations, BookLeads, Live, ModifyCalls, BarCalls
<1>5. Cover'
  BY <1>1, <1>2, <1>3, IInvFacts DEF Cover, Live, CoversAtBook, Covers, Flat, ModifyCalls
<1>6. PaperCover'
  BY <1>1, <1>2, <1>3, IInvFacts DEF PaperCover, Live, ModifyCalls
<1>7. BrokerTypeOK' /\ BarTypeOK'
  BY <1>1, IInvFacts DEF BrokerTypeOK, BarTypeOK
<1> QED
  BY <1>3, <1>4, <1>5, <1>6, <1>7 DEF BookIInv

LEMMA ForceStopKeeps == ExitIInv /\ ForceStop => BookIInv' /\ BrokerTypeOK' /\ BarTypeOK'
<1> SUFFICES ASSUME ExitIInv, ForceStop
             PROVE  BookIInv' /\ BrokerTypeOK' /\ BarTypeOK'
  OBVIOUS
<1>1. /\ pc = "idle" /\ Live
      /\ UNCHANGED <<bar, trail, held, resting, lastId, failures>>
  BY DEF ForceStop, brokerVars
<1>2. PICK level \in Prices : Moves(pos, level) /\ Resume(Ratchet(pos, level, "forced"))
  BY DEF ForceStop
<1>3. /\ Workable(qty, pos) /\ pos.stop \in Nat /\ lastId \in Nat /\ Ready(pos, lastId)
      /\ pos.stopId >= 1
  BY <1>1, LiveWorkable
<1>4. Onward(qty, pos, Ratchet(pos, level, "forced"))
  BY <1>2, <1>3, ConstantsAreNumbers
     DEF Onward, Ratchet, Go, Moves, Workable, Managed, LiveStates, ModifyCalls
<1>5. BrokerTypeOK' /\ BarTypeOK' /\ resting'.trigger <= pos.stop /\ resting'.trigger \in Nat
  BY <1>1, IInvFacts DEF BrokerTypeOK, BarTypeOK, BookLeads
<1>6. failures' = 0 => Backed(pos, held', resting')
  BY <1>1, IInvFacts DEF Cover, CoversAtBook, Covers, Flat, Backed, BrokerTypeOK
<1>7. ~Remote /\ TRUE \notin Flattens => failures' = 0 /\ resting' # NoStop
  BY <1>1, IInvFacts DEF PaperCover, ModifyCalls
<1>8. BookIInv'
  BY <1>1, <1>2, <1>3, <1>4, <1>5, <1>6, <1>7, IInvFacts, OnwardKeeps
<1> QED
  BY <1>5, <1>8

LEMMA RestartWorkerKeeps ==
    ExitIInv /\ RestartWorker => BookIInv' /\ BrokerTypeOK' /\ BarTypeOK'
<1> SUFFICES ASSUME ExitIInv, RestartWorker
             PROVE  BookIInv' /\ BrokerTypeOK' /\ BarTypeOK'
  OBVIOUS
<1>1. /\ pc = "down" /\ Resume(Go(pos, "idle"))
      /\ UNCHANGED <<bar, trail, held, resting, lastId, failures>>
  BY DEF RestartWorker, brokerVars
<1>2. failures' # 0 /\ (Remote \/ TRUE \in Flattens)
  BY <1>1, IInvFacts DEF Cover, PaperCover
<1>3. /\ pos.state # "NONE" /\ lastId' \in Nat /\ pos.stopId <= lastId'
      /\ lastId' <= 1 + Count(pos.taken) /\ resting'.trigger <= pos.stop
  BY <1>1, IInvFacts DEF Stations, Carving, BrokerTypeOK, BookLeads
<1>4. BrokerTypeOK' /\ BarTypeOK'
  BY <1>1, IInvFacts DEF BrokerTypeOK, BarTypeOK
<1> QED
  BY <1>1, <1>2, <1>3, <1>4, BrokenKeeps

------------------------------------------------------------------------------
(* The theorems.                                                            *)

LEMMA InitExitIInv == ExitInit => ExitIInv
<1> SUFFICES ASSUME ExitInit
             PROVE  ExitIInv
  OBVIOUS
<1>1. /\ venue \in Venues /\ qty \in Quantities /\ qty \in Nat /\ qty > 0
      /\ pos = Unattached /\ pc = "attaching" /\ trail = 0 /\ held = qty
      /\ resting = NoStop /\ lastId = 0 /\ failures = 0
      /\ asked = [rung \in {1, 2} |-> 0]
  BY ConstantsAreNumbers DEF ExitInit
<1>2. /\ Unattached \in Managed(qty) /\ Unattached.state = "NONE" /\ Unattached.stopId = 0
      /\ Unattached.taken = {} /\ Unattached.remaining = 0 /\ Unattached.exit = "none"
      /\ Unattached.noProgress = 0 /\ Unattached.stop \in Nat
  BY <1>1, ConstantsAreNumbers DEF Unattached, Managed
<1>3. BookTypeOK
  BY <1>1, <1>2 DEF BookTypeOK, Pcs
<1>4. NoStop \in [id : 0 .. 3, lots : Nat, trigger : Nat] /\ NoStop.trigger = 0
  BY DEF NoStop
<1>5. BrokerTypeOK
  BY <1>1, <1>4 DEF BrokerTypeOK
<1>6. BarTypeOK
  <2>1. bar \in [high : Prices, low : Prices, close : Prices] \union {EmptyBar}
    BY ConstantsAreNumbers DEF ExitInit
  <2> QED
    BY <1>1, <2>1, ConstantsAreNumbers DEF BarTypeOK
<1>7. Stations
  BY <1>1, <1>2, ConstantsAreNumbers DEF Stations, Live, ModifyCalls, BarCalls
<1>8. Carving
  <2>1. Count({}) = 0
    BY DEF Count, One
  <2> QED
    BY <1>1, <1>2, <2>1 DEF Carving, One, Live
<1>9. BookLeads
  BY <1>1, <1>2, <1>4 DEF BookLeads
<1>10. Cover
  BY <1>1, <1>2 DEF Cover, Live, ModifyCalls
<1>11. PaperCover
  BY <1>1, <1>2 DEF PaperCover, Live, ModifyCalls
<1>12. RestartsTypeOK
  BY ExitAssumption DEF ExitInit, RestartsTypeOK
<1> QED
  BY <1>3, <1>5, <1>6, <1>7, <1>8, <1>9, <1>10, <1>11, <1>12, TypeParts DEF ExitIInv

LEMMA PartsOfIInv == ExitIInv <=> BookIInv /\ BrokerTypeOK /\ BarTypeOK /\ RestartsTypeOK
BY TypeParts DEF ExitIInv, BookIInv

\* The worker is restarted MaxRestarts times at most.
LEMMA RestartsBounded == ExitIInv /\ [ExitNext]_exitVars => RestartsTypeOK'
<1> SUFFICES ASSUME ExitIInv, [ExitNext]_exitVars
             PROVE  RestartsTypeOK'
  OBVIOUS
<1>1. restarts \in 0 .. MaxRestarts /\ MaxRestarts \in Nat
  BY ExitAssumption, TypeParts DEF ExitIInv, RestartsTypeOK
<1>2. restarts' = restarts \/ (RestartWorker /\ restarts' = restarts + 1)
  BY DEF ExitNext, exitVars, Attach, ModifyStop, SellPartial, ReplaceStop, PlaceAgain,
         CancelStop, SellRest, Done, Failed, RestartWorker, PaperTick,
         MarketTick, StreamTick, WindowFull, ManualExit, ForceStop
<1> QED
  BY <1>1, <1>2 DEF RestartWorker, RestartsTypeOK

LEMMA StepExitIInv == ExitIInv /\ [ExitNext]_exitVars => ExitIInv'
<1>1. ExitIInv /\ (Call \/ RestartWorker \/ PaperTick \/ MarketTick \/ StreamTick \/ WindowFull
                   \/ ManualExit \/ ForceStop)
      => BookIInv' /\ BrokerTypeOK' /\ BarTypeOK'
  BY CallKeeps, RestartWorkerKeeps, PaperTickKeeps, MarketTickKeeps, StreamTickKeeps,
     WindowFullKeeps, ManualExitKeeps, ForceStopKeeps
<1>2. ExitIInv /\ UNCHANGED exitVars => BookIInv' /\ BrokerTypeOK' /\ BarTypeOK'
  <2>1. ExitIInv /\ UNCHANGED exitVars => BookTypeOK' /\ Stations' /\ Carving'
    BY BookStays DEF exitVars, brokerVars
  <2>2. ExitIInv /\ UNCHANGED exitVars
        => BrokerTypeOK' /\ BarTypeOK' /\ BookLeads' /\ Cover' /\ PaperCover'
    BY IInvFacts DEF exitVars, brokerVars, BrokerTypeOK, BarTypeOK, BookLeads, Cover,
       PaperCover, Covers, CoversAtBook, Flat, Live, Remote, PartialLots
  <2> QED
    BY <2>1, <2>2 DEF BookIInv
<1>3. ExitIInv /\ [ExitNext]_exitVars => BookIInv' /\ BrokerTypeOK' /\ BarTypeOK'
  BY <1>1, <1>2 DEF ExitNext, Call
<1> QED
  BY <1>3, RestartsBounded, PartsOfIInv, PTL

\* The inductive invariant holds throughout.
THEOREM ExitInvariance == ExitSpec => []ExitIInv
BY InitExitIInv, StepExitIInv, PTL DEF ExitSpec

\* Every variable keeps its type: quantities, order ids and the bars without
\* progress stay in their bounds.
THEOREM ExitTypeCorrect == ExitSpec => []ExitTypeOK
<1>1. ExitIInv => ExitTypeOK
  BY DEF ExitIInv
<1> QED
  BY <1>1, ExitInvariance, PTL

\* No partial is sold twice (_take_partial, exit_manager.py:159).
THEOREM PartialOnceAlways == ExitSpec => []PartialOnce
<1>1. ExitIInv => PartialOnce
  <2> SUFFICES ASSUME ExitIInv, NEW rung \in {1, 2}
               PROVE  asked[rung] <= 1
    BY DEF PartialOnce
  <2>1. asked[rung] <= One(rung, pos.taken) /\ asked[rung] \in Nat
    BY IInvFacts DEF Carving, BookTypeOK
  <2> QED
    BY <2>1 DEF One
<1> QED
  BY <1>1, ExitInvariance, PTL

\* A managed position has a stop at the broker for exactly what is held, at the
\* book's price, until it triggers or a call fails (exit_manager.py:17).
THEOREM AlwaysProtected == ExitSpec => []Protected
<1>1. ExitIInv => Protected
  <2> SUFFICES ASSUME ExitIInv
               PROVE  Protected
    OBVIOUS
  <2>1. pc \in {"attaching", "place"} => resting = NoStop
    BY IInvFacts DEF Cover
  <2>2. ASSUME Live, pc = "idle", failures = 0
        PROVE  \/ /\ held = pos.remaining
                  /\ resting = [id |-> pos.stopId, lots |-> pos.remaining, trigger |-> pos.stop]
               \/ held = 0 /\ resting = NoStop
    BY <2>2, IInvFacts DEF Cover, CoversAtBook, Covers, Flat, BrokerTypeOK
  <2> QED
    BY <2>1, <2>2 DEF Protected
<1> QED
  BY <1>1, ExitInvariance, PTL

\* An exit of our own leaves neither a position nor a stop, so long as no call
\* fails (exit_manager.py:205).
THEOREM CleanExitAlways == ExitSpec => []CleanExit
<1>1. ExitIInv => CleanExit
  BY IInvFacts DEF Cover, CleanExit, Flat
<1> QED
  BY <1>1, ExitInvariance, PTL

\* On the paper venues nothing is sold that is not held. Where a bar may fall
\* under the weekend flatten policy this fails (README, Divergences); nothing
\* in the repository asks for that policy.
THEOREM NeverOversoldOnPaper ==
    ASSUME TRUE \notin Flattens
    PROVE  ExitSpec => []NeverOversold
<1>1. ExitIInv => NeverOversold
  <2> SUFFICES ASSUME ExitIInv, ~Remote
               PROVE  held >= 0
    BY DEF NeverOversold
  <2>1. failures = 0
    BY IInvFacts DEF PaperCover
  <2>2. pos.remaining \in Nat /\ resting.lots \in Nat /\ qty \in Nat
    BY IInvFacts, Lots DEF Managed, BrokerTypeOK
  <2>3. Covers(pos.remaining) \/ Flat => held >= 0
    BY <2>2 DEF Covers, Flat
  <2>4. CASE (Live /\ pc \in ModifyCalls \union {"idle", "sell"}) \/ pc = "exitCancel"
    BY <2>1, <2>3, <2>4, IInvFacts DEF Cover, CoversAtBook
  <2>5. CASE pc = "replace"
    <3>1. resting # NoStop
      BY <2>5, IInvFacts DEF PaperCover, Stations, BarCalls
    <3>2. held = pos.remaining
      BY <2>1, <2>5, <3>1, IInvFacts DEF Cover, CoversAtBook, Covers
    <3> QED
      BY <2>2, <3>2
  <2>6. CASE pc \in {"attaching", "place", "exitSell"}
    BY <2>1, <2>2, <2>6, IInvFacts DEF Cover
  <2>7. CASE pos.state = "EXITED" /\ pc = "idle"
    BY <2>2, <2>7, IInvFacts DEF PaperCover
  <2>8. pc \in Pcs /\ pc \notin {"down", "unmanaged"}
    BY <2>1, IInvFacts DEF Cover, BookTypeOK
  <2>9. pos.state \in LiveStates \/ pos.state = "EXITED" \/ pos.state = "NONE"
    BY IInvFacts DEF Managed, LiveStates
  <2> QED
    BY <2>4, <2>5, <2>6, <2>7, <2>8, <2>9, IInvFacts
       DEF Stations, Live, LiveStates, Pcs, ModifyCalls, BarCalls
<1> QED
  BY <1>1, ExitInvariance, PTL

\* The engine never lowers the stop of the book, whatever it is called with.
LEMMA EngineRaises ==
    ASSUME ExitIInv, Live, NEW k \in Trails, NEW b, b.high \in Prices, NEW flatten \in Flattens
    PROVE  LET next == OnBar(pos, [high |-> b.high, low |-> b.low, close |-> b.close,
                                   trail |-> k], flatten)
           IN  next.pos.stop >= pos.stop
<1> DEFINE seen == [high |-> b.high, low |-> b.low, close |-> b.close, trail |-> k]
           next == OnBar(pos, seen, flatten)
<1>1. seen.trail \in Nat /\ seen.high \in Prices /\ flatten \in BOOLEAN
  BY ExitAssumption
<1>2. Workable(qty, pos) /\ pos.stop \in Nat
  BY LiveWorkable
<1> HIDE DEF seen
<1>3. Onward(qty, pos, next) \/ Ends(qty, pos, next)
  BY <1>1, <1>2, BarOutcome
<1> HIDE DEF next
<1>4. next.pos.stop >= pos.stop
  BY <1>2, <1>3 DEF Onward, Ends
<1> QED
  BY <1>4 DEF next, seen

LEMMA BookRises == ExitIInv /\ ExitNext => pos'.stop >= pos.stop
<1> SUFFICES ASSUME ExitIInv, ExitNext
             PROVE  pos'.stop >= pos.stop
  OBVIOUS
<1>1. pos.stop \in Nat
  BY IInvFacts DEF Managed
<1>2. CASE Attach \/ SellPartial \/ CancelStop \/ SellRest \/ RestartWorker \/ ManualExit
  <2>1. \/ pos' = pos
        \/ pos' = [pos EXCEPT !.state = "RISK_ON", !.stopId = lastId + 1, !.remaining = qty]
        \/ pos' = [pos EXCEPT !.remaining = @ - PartialLots]
        \/ pos' = [pos EXCEPT !.state = "EXITED", !.exit = "active"]
    BY <1>2
       DEF Attach, SellPartial, CancelStop, SellRest, RestartWorker, ManualExit, ActiveExit,
           Done, Failed, Resume, Go
  <2>2. pos'.stop = pos.stop
    BY <2>1, IInvFacts DEF Managed
  <2> QED
    BY <1>1, <2>2
<1>3. CASE MarketTick \/ StreamTick
  BY <1>1, <1>3 DEF MarketTick, StreamTick
<1>4. CASE ModifyStop
  <2>1. Live /\ Workable(qty, pos) /\ Seen.trail \in Nat
    BY <1>4, SeenTrail, LiveWorkable, IInvFacts DEF ModifyStop, Stations
  <2>2. pos' = pos \/ pos' = AfterModify.pos
    BY <1>4 DEF ModifyStop, Done, Failed, Resume, Go
  <2>3. AfterModify.pos.stop >= pos.stop
    <3>1. CASE pc = "breakeven"
      <4>1. Onward(qty, pos, FromFirst(pos, Seen))
        BY <2>1, <3>1, FirstOnward, IInvFacts DEF Stations
      <4> QED
        BY <3>1, <4>1 DEF AfterModify, Onward
    <3>2. CASE pc = "lock"
      <4> DEFINE p == [pos EXCEPT !.locked = TRUE]
      <4>1. Workable(qty, p) /\ p.stop = pos.stop
        BY <2>1 DEF Workable, Managed
      <4>2. Onward(qty, p, FromTrail(p, Seen))
        BY <2>1, <4>1, TrailOnward
      <4>3. AfterModify = FromTrail(p, Seen)
        BY <3>2 DEF AfterModify
      <4> HIDE DEF p
      <4> QED
        BY <4>1, <4>2, <4>3 DEF Onward
    <3>3. CASE pc \notin {"breakeven", "lock"}
      BY <1>1, <3>3 DEF AfterModify, Go
    <3> QED
      BY <3>1, <3>2, <3>3
  <2> QED
    BY <1>1, <2>2, <2>3
<1>5. CASE ReplaceStop
  <2>1. Workable(qty, pos) /\ Seen.trail \in Nat
    BY <1>5, SeenTrail, LiveWorkable, IInvFacts DEF ReplaceStop, Stations, BarCalls
  <2>2. pos' = pos \/ pos' = FromPartial(pos, Seen).pos
    BY <1>5 DEF ReplaceStop, Done, Failed, Resume, Go
  <2>3. Onward(qty, pos, FromPartial(pos, Seen))
    BY <2>1, PartialOnward
  <2> QED
    BY <1>1, <2>2, <2>3 DEF Onward
<1>6. CASE PlaceAgain
  <2> DEFINE p == [pos EXCEPT !.stopId = lastId + 1]
  <2>1. /\ Workable(qty, pos) /\ Seen.trail \in Nat
        /\ lastId <= Count(pos.taken) /\ Count(pos.taken) \in 0 .. 2 /\ lastId \in Nat
    BY <1>6, SeenTrail, LiveWorkable, IInvFacts, CountBounds
       DEF PlaceAgain, Stations, BarCalls, Carving, Managed, BrokerTypeOK
  <2>2. lastId + 1 \in 0 .. 3
    BY <2>1
  <2>3. Workable(qty, p) /\ p.stop = pos.stop
    BY <2>1, <2>2 DEF Workable, Managed
  <2>4. pos' = pos \/ pos' = FromPartial(p, Seen).pos
    BY <1>6 DEF PlaceAgain, Done, Failed, Resume, Go
  <2>5. Onward(qty, p, FromPartial(p, Seen))
    BY <2>1, <2>3, PartialOnward
  <2> HIDE DEF p
  <2> QED
    BY <1>1, <2>3, <2>4, <2>5 DEF Onward
<1>7. ASSUME NEW b \in [high : Prices, low : Prices, close : Prices], Live, StartBar(b)
      PROVE  pos'.stop >= pos.stop
  BY <1>7, EngineRaises DEF StartBar, Resume
<1>8. CASE PaperTick
  <2>1. PICK price \in Prices :
          \/ Live /\ \E candle \in {bar, EmptyBar} : StartBar(Extended(candle, price))
          \/ pos' = pos
    BY <1>8 DEF PaperTick
  <2>2. ASSUME Live, NEW candle \in {bar, EmptyBar}, StartBar(Extended(candle, price))
        PROVE  pos'.stop >= pos.stop
    BY <1>7, <2>2, BarWithin, IInvFacts DEF BarTypeOK
  <2> QED
    BY <1>1, <2>1, <2>2
<1>9. CASE WindowFull
  BY <1>7, <1>9, IInvFacts DEF WindowFull, BarTypeOK
<1>10. CASE ForceStop
  <2>1. PICK level \in Prices : level > pos.stop /\ pos' = [pos EXCEPT !.stop = level]
    BY <1>10 DEF ForceStop, Moves, Resume, Ratchet, Go
  <2> QED
    BY <1>1, <2>1, ConstantsAreNumbers, IInvFacts DEF Managed
<1> QED
  BY <1>2, <1>3, <1>4, <1>5, <1>6, <1>8, <1>9, <1>10 DEF ExitNext

\* What any step does to the order that rests.
LEMMA OrdersFollow ==
    ASSUME ExitIInv, ExitNext
    PROVE  \/ resting' = resting
           \/ resting' = NoStop
           \/ resting = NoStop /\ resting'.trigger = pos.stop
           \/ resting'.id = resting.id /\ resting'.trigger = pos.stop
<1>1. CASE Attach \/ PlaceAgain
  <2>1. resting = NoStop
    BY <1>1, IInvFacts DEF Attach, PlaceAgain, Cover
  <2> QED
    BY <1>1, <2>1 DEF Attach, PlaceAgain, Done, Failed, Place, brokerVars
<1>2. CASE ModifyStop \/ ReplaceStop \/ CancelStop
  <2>1. Modify \/ Cancel \/ UNCHANGED resting
    BY <1>2 DEF ModifyStop, ReplaceStop, CancelStop, Done, Failed, brokerVars
  <2>2. Modify => resting'.id = resting.id /\ resting'.trigger = pos.stop
    BY IInvFacts DEF Modify, BrokerTypeOK
  <2> QED
    BY <2>1, <2>2 DEF Cancel
<1>3. CASE SellPartial \/ SellRest
  BY <1>3 DEF SellPartial, SellRest, Done, Failed, Sell, brokerVars
<1>4. CASE PaperTick \/ MarketTick
  BY <1>4 DEF PaperTick, MarketTick, Trigger
<1>5. CASE RestartWorker \/ StreamTick \/ WindowFull \/ ManualExit \/ ForceStop
  BY <1>5 DEF RestartWorker, StreamTick, WindowFull, ManualExit, ForceStop, brokerVars
<1> QED
  BY <1>1, <1>2, <1>3, <1>4, <1>5 DEF ExitNext

\* never_widen_stop: neither the book's stop nor a trigger at the broker is ever
\* lowered, and a new order is at the book's stop (exit_manager.py:15).
THEOREM StopNeverWidens == ExitSpec => StopNeverLoosens
<1> DEFINE Raised ==
      /\ pos'.stop >= pos.stop
      /\ resting # NoStop /\ resting' # NoStop => resting'.trigger >= resting.trigger
      /\ resting'.id # resting.id /\ resting' # NoStop => resting'.trigger = pos.stop
<1>1. ExitIInv /\ [ExitNext]_exitVars => [Raised]_exitVars
  <2> SUFFICES ASSUME ExitIInv, ExitNext
               PROVE  Raised
    OBVIOUS
  <2>1. pos'.stop >= pos.stop
    BY BookRises
  <2>2. resting.trigger \in Nat /\ resting.trigger <= pos.stop /\ pos.stop \in Nat
    BY IInvFacts DEF BrokerTypeOK, BookLeads, Managed
  <2> QED
    BY <2>1, <2>2, OrdersFollow
<1> QED
  BY <1>1, ExitInvariance, PTL DEF ExitSpec, StopNeverLoosens
=============================================================================
