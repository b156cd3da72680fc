------------------------ MODULE PortfolioGuards_proofs ------------------------
(***************************************************************************)
(* Proofs about PortfolioGuards: for any symbols, percentages, values of   *)
(* the account and flows. The latches agree with the lines met (Latched),  *)
(* the account is the baseline, the flows and the trading (Accounted), an  *)
(* entry's risk is counted once on its way to its position (OnePlace), and *)
(* at the highest mark since the last admission our own lines leave room   *)
(* (RoomLeft). The library has no theorem about sums that these provers    *)
(* can use: those needed come first.                                       *)
(*                                                                         *)
(* The second part is about the sizes that ask to pass these guards, and   *)
(* the slices they are sent in: it is how Formulas rounds that keeps them  *)
(* to every limit at once.                                                 *)
(***************************************************************************)
EXTENDS MCPortfolioGuards, FiniteSetTheorems, WellFoundedInduction, TLAPS

Latched ==
    /\ "day" \in crossed => session.tripped # ""
    /\ session.tripped # "" => GuardsSession
    /\ "firm" \in crossed => prop.breached # ""

Accounted ==
    /\ baseline = 0 => unrecorded = 0
    /\ baseline # 0 => traded = equity - baseline - unrecorded

OnePlace ==
    \A s \in Symbols : /\ check[s].at # "admitted" => check[s].risk = 0
                       /\ check[s].at # "open" => risk[s] = 0
                       /\ check[s].at = "asked" => check[s].equity # 0

RoomLeft ==
    last.cap # 0 => ~ DailyUsed(prop, peak, SoftPct) /\ ~ TotalUsed(prop, peak, SoftPct)

GuardIInv ==
    /\ GuardTypeOK /\ Latched /\ Accounted /\ OnePlace /\ RoomLeft
    /\ HeatBounded

------------------------------------------------------------------------------
(* Sums.                                                                    *)

First(s) == CHOOSE x \in s : TRUE

Adds(g, f, S) ==
    g = [s \in SUBSET S |-> IF s = {} THEN 0 ELSE f[First(s)] + g[s \ {First(s)}]]

One(g, f, s) == g[s] = IF s = {} THEN 0 ELSE f[First(s)] + g[s \ {First(s)}]

LEMMA SumIs ==
    ASSUME NEW f
    PROVE  SumFunction(f) = (CHOOSE g : Adds(g, f, DOMAIN f))[DOMAIN f]
BY DEF SumFunction, SumFunctionOnSet, FoldFunctionOnSet, MapThenFoldSet, Adds, First

\* What holds of the empty set, and of a set when it holds of the set without
\* its first element, holds of all subsets of a finite set.
LEMMA SubsetsOneByOne ==
    ASSUME NEW S, IsFiniteSet(S), NEW G,
           {} \in G,
           \A s \in SUBSET S : s # {} /\ s \ {First(s)} \in G => s \in G
    PROVE  SUBSET S \subseteq G
<1> DEFINE R   == StrictSubsetOrdering(S)
           Bad == (SUBSET S) \ G
<1>1. IsWellFoundedOn(R, SUBSET S)
  BY FS_StrictSubsetOrderingWellFounded, FS_FiniteSubsetsOfFinite
<1>2. SUFFICES ASSUME Bad # {}
               PROVE  FALSE
  OBVIOUS
<1>3. Bad \subseteq SUBSET S
  OBVIOUS
<1> HIDE DEF Bad, R
<1>4. PICK s \in Bad : \A t \in Bad : ~ (<<t, s>> \in R)
  BY <1>1, <1>2, <1>3, WFMin
<1>5. s \in SUBSET S /\ s \notin G /\ s # {}
  BY <1>4 DEF Bad
<1>6. First(s) \in s
  BY <1>5 DEF First
<1>7. s \ {First(s)} \in SUBSET S /\ <<s \ {First(s)}, s>> \in R
  BY <1>5, <1>6 DEF R, StrictSubsetOrdering
<1>8. s \ {First(s)} \in G
  BY <1>4, <1>7 DEF Bad
<1> QED
  BY <1>5, <1>8

LEMMA NumbersOneByOne ==
    ASSUME NEW G, 0 \in G, \A n \in Nat : n \in G => n + 1 \in G
    PROVE  Nat \subseteq G
<1> DEFINE R   == OpToRel(<, Nat)
           Bad == Nat \ G
<1>1. SUFFICES ASSUME Bad # {}
               PROVE  FALSE
  OBVIOUS
<1>2. IsWellFoundedOn(R, Nat) /\ Bad \subseteq Nat
  BY NatLessThanWellFounded
<1>3. R = {x \in Nat \X Nat : x[1] < x[2]}
  BY DEF OpToRel
<1> HIDE DEF Bad, R
<1>4. PICK n \in Bad : \A m \in Bad : ~ (<<m, n>> \in R)
  BY <1>1, <1>2, WFMin
<1>5. n \in Nat /\ n \notin G /\ n # 0
  BY <1>4 DEF Bad
<1>6. n - 1 \in Nat /\ n - 1 < n
  BY <1>5
<1>7. <<n - 1, n>> \in R
  BY <1>3, <1>5, <1>6
<1>8. n - 1 \in G
  BY <1>4, <1>6, <1>7 DEF Bad
<1>9. (n - 1) + 1 \in G
  BY <1>6, <1>8
<1> QED
  BY <1>5, <1>9

\* There is a function that adds.
LEMMA AddsExists ==
    ASSUME NEW S, IsFiniteSet(S), NEW f
    PROVE  \E g : Adds(g, f, S)
<1> DEFINE Fits(g, n) == \A s \in SUBSET S : Cardinality(s) <= n => One(g, f, s)
           Next(g) == [s \in SUBSET S |-> IF s = {} THEN 0 ELSE f[First(s)] + g[s \ {First(s)}]]
           G == {n \in Nat : \E g : Fits(g, n)}
<1>0. \A s \in SUBSET S : IsFiniteSet(s) /\ Cardinality(s) \in Nat
                          /\ (Cardinality(s) = 0 <=> s = {})
  BY FS_Subset, FS_CardinalityType, FS_EmptySet
<1>1. \A s \in SUBSET S : s # {} =>
         /\ First(s) \in s /\ s \ {First(s)} \in SUBSET S
         /\ Cardinality(s \ {First(s)}) = Cardinality(s) - 1
  <2> SUFFICES ASSUME NEW s \in SUBSET S, s # {}
               PROVE  /\ First(s) \in s /\ s \ {First(s)} \in SUBSET S
                      /\ Cardinality(s \ {First(s)}) = Cardinality(s) - 1
    OBVIOUS
  <2>1. First(s) \in s
    BY DEF First
  <2> QED
    BY <1>0, <2>1, FS_RemoveElement
<1>2. 0 \in G
  <2>1. Fits([s \in SUBSET S |-> 0], 0)
    BY <1>0 DEF One
  <2> QED
    BY <2>1
<1>3. ASSUME NEW n \in Nat, NEW g, Fits(g, n)
      PROVE  Fits(Next(g), n + 1)
  <2> SUFFICES ASSUME NEW s \in SUBSET S, Cardinality(s) <= n + 1
               PROVE  One(Next(g), f, s)
    OBVIOUS
  <2>1. CASE s = {}
    BY <2>1 DEF One
  <2>2. CASE s # {}
    <3> DEFINE t == s \ {First(s)}
    <3>1. t \in SUBSET S /\ Cardinality(t) <= n
      BY <1>0, <1>1, <2>2
    <3>2. One(g, f, t)
      BY <1>3, <3>1
    <3>3. Next(g)[t] = g[t]
      BY <3>1, <3>2 DEF One
    <3>4. Next(g)[s] = f[First(s)] + g[t]
      BY <2>2
    <3> QED
      BY <2>2, <3>3, <3>4 DEF One
  <2> QED
    BY <2>1, <2>2
<1>4. ASSUME NEW n \in Nat, n \in G
      PROVE  n + 1 \in G
  <2>1. PICK g : Fits(g, n)
    BY <1>4
  <2>2. Fits(Next(g), n + 1)
    BY <1>3, <2>1
  <2> HIDE DEF Fits, Next
  <2> QED
    BY <2>2
<1>5. Cardinality(S) \in G
  <2> HIDE DEF G
  <2> QED
    BY <1>0, <1>2, <1>4, NumbersOneByOne
<1>6. PICK g : Fits(g, Cardinality(S))
  BY <1>5
<1>7. \A s \in SUBSET S : Cardinality(s) <= Cardinality(S)
  BY FS_Subset
<1>8. Adds(Next(g), f, S)
  <2>1. \A s \in SUBSET S : One(g, f, s)
    BY <1>6, <1>7
  <2>2. \A s \in SUBSET S : Next(g)[s] = g[s]
    BY <2>1 DEF One
  <2>3. \A s \in SUBSET S : s # {} => Next(g)[s \ {First(s)}] = g[s \ {First(s)}]
    BY <1>1, <2>2
  <2> QED
    BY <2>3 DEF Adds
<1> QED
  BY <1>8

\* A sum of natural numbers, one by one.
LEMMA SumFacts ==
    ASSUME NEW S, IsFiniteSet(S), NEW f \in [S -> Nat]
    PROVE  \E g : /\ g \in [SUBSET S -> Nat] /\ SumFunction(f) = g[S]
                  /\ \A s \in SUBSET S : One(g, f, s)
<1> DEFINE g == CHOOSE h : Adds(h, f, S)
           G == {s \in SUBSET S : g[s] \in Nat}
<1>1. Adds(g, f, S)
  BY AddsExists
<1>2. SumFunction(f) = g[S]
  BY SumIs
<1> HIDE DEF g
<1>3. DOMAIN g = SUBSET S /\ \A s \in SUBSET S : One(g, f, s)
  BY <1>1 DEF Adds, One
<1>4. {} \in G
  <2>1. g[{}] = 0
    BY <1>3 DEF One
  <2> QED
    BY <2>1
<1>5. ASSUME NEW s \in SUBSET S, s # {}, s \ {First(s)} \in G
      PROVE  s \in G
  <2>1. f[First(s)] \in Nat
    BY <1>5 DEF First
  <2> QED
    BY <1>3, <1>5, <2>1 DEF One
<1>6. SUBSET S \subseteq G
  <2> HIDE DEF G
  <2> QED
    BY <1>4, <1>5, SubsetsOneByOne
<1>7. g = [s \in SUBSET S |-> g[s]]
  BY <1>1 DEF Adds
<1>8. g \in [SUBSET S -> Nat]
  BY <1>6, <1>7
<1> QED
  BY <1>2, <1>3, <1>8

LEMMA SumIsNat ==
    ASSUME NEW S, IsFiniteSet(S), NEW f \in [S -> Nat]
    PROVE  SumFunction(f) \in Nat
<1>1. PICK g : g \in [SUBSET S -> Nat] /\ SumFunction(f) = g[S]
  BY SumFacts
<1> QED
  BY <1>1

\* One term of a sum is another.
LEMMA SumMoves ==
    ASSUME NEW S, IsFiniteSet(S), NEW f \in [S -> Nat], NEW h \in [S -> Nat],
           NEW x \in S, \A y \in S : y # x => h[y] = f[y]
    PROVE  SumFunction(h) = SumFunction(f) + h[x] - f[x]
<1>1. PICK a : /\ a \in [SUBSET S -> Nat] /\ SumFunction(f) = a[S]
               /\ \A s \in SUBSET S : One(a, f, s)
  BY SumFacts
<1>2. PICK b : /\ b \in [SUBSET S -> Nat] /\ SumFunction(h) = b[S]
               /\ \A s \in SUBSET S : One(b, h, s)
  BY SumFacts
<1> DEFINE G == {s \in SUBSET S : b[s] = a[s] + IF x \in s THEN h[x] - f[x] ELSE 0}
<1>3. f[x] \in Nat /\ h[x] \in Nat
  OBVIOUS
<1>4. {} \in G
  BY <1>1, <1>2 DEF One
<1>5. ASSUME NEW s \in SUBSET S, s # {}, s \ {First(s)} \in G
      PROVE  s \in G
  <2> DEFINE t == s \ {First(s)}
  <2>1. First(s) \in s /\ First(s) \in S /\ t \in SUBSET S
    BY <1>5 DEF First
  <2>2. a[s] = f[First(s)] + a[t] /\ b[s] = h[First(s)] + b[t]
    BY <1>1, <1>2, <1>5 DEF One
  <2>3. a[t] \in Nat /\ b[t] \in Nat /\ f[First(s)] \in Nat /\ h[First(s)] \in Nat
    BY <1>1, <1>2, <2>1
  <2>4. CASE First(s) = x
    <3>1. x \in s /\ x \notin t
      BY <2>1, <2>4
    <3>2. b[t] = a[t]
      BY <1>1, <1>5, <2>3, <3>1
    <3> QED
      BY <1>3, <2>2, <2>3, <2>4, <3>1, <3>2
  <2>5. CASE First(s) # x
    <3>1. x \in s <=> x \in t
      BY <2>1, <2>5
    <3>2. h[First(s)] = f[First(s)]
      BY <2>1, <2>5
    <3>3. b[t] = a[t] + IF x \in t THEN h[x] - f[x] ELSE 0
      BY <1>5
    <3> QED
      BY <1>3, <2>2, <2>3, <3>1, <3>2, <3>3
  <2> QED
    BY <2>4, <2>5
<1>6. SUBSET S \subseteq G
  <2> HIDE DEF G
  <2> QED
    BY <1>4, <1>5, SubsetsOneByOne
<1> QED
  BY <1>1, <1>2, <1>3, <1>6

LEMMA SumOfNothing ==
    ASSUME NEW S, IsFiniteSet(S)
    PROVE  SumFunction([s \in S |-> 0]) = 0
<1> DEFINE f == [s \in S |-> 0]
<1>1. PICK a : /\ a \in [SUBSET S -> Nat] /\ SumFunction(f) = a[S]
               /\ \A s \in SUBSET S : One(a, f, s)
  BY SumFacts
<1> DEFINE G == {s \in SUBSET S : a[s] = 0}
<1>2. {} \in G
  BY <1>1 DEF One
<1>3. ASSUME NEW s \in SUBSET S, s # {}, s \ {First(s)} \in G
      PROVE  s \in G
  <2>1. First(s) \in S
    BY <1>3 DEF First
  <2> QED
    BY <1>1, <1>3, <2>1 DEF One
<1>4. SUBSET S \subseteq G
  <2> HIDE DEF G
  <2> QED
    BY <1>2, <1>3, SubsetsOneByOne
<1> QED
  BY <1>1, <1>4

------------------------------------------------------------------------------
(* Lines: x is what a loss is measured from, a a mark.                      *)

Used(x, a, pct, fraction) == 10000 * (x - a) >= fraction * pct * x

\* From a mark at a to one at b lies more than what our line keeps back of a budget.
Apart(budget, a, b, soft) == 10000 * (a - b) > (100 - soft) * budget

LEMMA LineProducts ==
    ASSUME NEW x \in Nat \ {0}, NEW pct \in 1 .. 100, NEW soft \in 1 .. 100
    PROVE  /\ soft * pct * x \in Nat /\ soft * pct * x > 0 /\ 100 * pct * x \in Nat
           /\ (100 - soft) * (pct * x) = 100 * pct * x - soft * pct * x
<1> DEFINE d == pct * x
<1>1. d \in Nat /\ d > 0
  OBVIOUS
<1>2. soft * pct * x = soft * d /\ 100 * pct * x = 100 * d
  OBVIOUS
<1> HIDE DEF d
<1>3. soft * d \in Nat /\ soft * d > 0 /\ (100 - soft) * d = 100 * d - soft * d
  BY <1>1
<1> QED
  BY <1>1, <1>2, <1>3 DEF d

\* A mark at x or above it, or above one that had room, has room.
LEMMA LineKeeps ==
    ASSUME NEW x \in Nat \ {0}, NEW pct \in 1 .. 100, NEW soft \in 1 .. 100,
           NEW a \in Nat, NEW b \in Nat
    PROVE  /\ a >= x => ~ Used(x, a, pct, soft)
           /\ ~ Used(x, a, pct, soft) /\ b >= a => ~ Used(x, b, pct, soft)
<1> DEFINE d == soft * pct * x
<1>1. d \in Nat /\ d > 0
  BY LineProducts
<1>2. \A c : Used(x, c, pct, soft) <=> 10000 * (x - c) >= d
  BY DEF Used
<1> HIDE DEF d
<1> QED
  BY <1>1, <1>2

\* From a mark within our line to one beyond the firm's lies what ours keeps back.
LEMMA LineRoom ==
    ASSUME NEW x \in Nat \ {0}, NEW pct \in 1 .. 100, NEW soft \in 1 .. 100,
           NEW a \in Nat, NEW b \in Nat,
           ~ Used(x, a, pct, soft), Used(x, b, pct, 100)
    PROVE  Apart(pct * x, a, b, soft)
<1> DEFINE d == soft * pct * x
           f == 100 * pct * x
<1>1. d \in Nat /\ f \in Nat /\ (100 - soft) * (pct * x) = f - d
  BY LineProducts
<1>2. 10000 * (x - a) < d /\ 10000 * (x - b) >= f
  BY <1>1 DEF Used
<1> HIDE DEF d, f
<1> QED
  BY <1>1, <1>2 DEF Apart

\* No mark is beyond a line measured from nothing.
LEMMA LineOfNothing ==
    ASSUME NEW pct \in 1 .. 100, NEW a \in Nat \ {0}
    PROVE  ~ Used(0, a, pct, 100)
<1>1. 100 * pct \in Int
  OBVIOUS
<1>2. 100 * pct * 0 = 0
  BY <1>1
<1>3. 10000 * (0 - a) < 0
  OBVIOUS
<1> QED
  BY <1>2, <1>3 DEF Used

LEMMA Constants ==
    /\ IsFiniteSet(Symbols) /\ Opening \in Equities
    /\ \A e \in Equities : e \in Nat \ {0}
    /\ Budget \in Nat \ {0} /\ FloorPct \in 0 .. 99
    /\ BankPct \in Nat /\ CutPct \in Nat /\ RiskPct \in Nat /\ HeatPct \in Nat \ {0}
    /\ DailyPct \in 1 .. 100 /\ TotalPct \in 1 .. 100 /\ SoftPct \in 1 .. 100
    /\ Trailing \in BOOLEAN /\ Flows \subseteq Int /\ LastHalfDay \in Nat
BY GuardAssumption

SessionType == [day : -1 .. LastHalfDay, start : Equities \cup {0},
                tripped : {"", "profit_banked", "loss_stopped"}]
PropType    == [day : -1 .. LastHalfDay, start : Equities \cup {0}, high : Equities,
                breached : {"", "daily_loss_breached", "max_drawdown_breached"}]
CheckType   == [at : {"idle", "asked", "admitted", "open"},
                equity : Equities \cup {0}, risk : Nat]

LEMMA GuardFacts ==
    ASSUME GuardIInv
    PROVE  /\ now \in 0 .. LastHalfDay /\ equity \in Equities /\ unrecorded \in Flows \cup {0}
           /\ baseline \in Int /\ traded \in Int /\ peak \in Equities \cup {0}
           /\ crossed \subseteq {"day", "firm"} /\ unrecorded \in Int
           /\ session \in SessionType /\ prop \in PropType
           /\ check \in [Symbols -> CheckType] /\ risk \in [Symbols -> Nat]
           /\ last \in [cap : Nat, others : Nat]
           /\ Latched /\ Accounted /\ OnePlace /\ RoomLeft /\ HeatBounded
<1>1. GuardTypeOK /\ Latched /\ Accounted /\ OnePlace /\ RoomLeft /\ HeatBounded
  BY DEF GuardIInv
<1>2. session \in SessionType /\ prop \in PropType /\ check \in [Symbols -> CheckType]
  BY <1>1 DEF GuardTypeOK, SessionType, PropType, CheckType
<1>3. unrecorded \in Int
  <2>1. unrecorded \in Flows \cup {0}
    BY <1>1 DEF GuardTypeOK
  <2>2. Flows \subseteq Int /\ 0 \in Int
    BY Constants
  <2> QED
    BY <2>1, <2>2
<1> QED
  BY <1>1, <1>2, <1>3 DEF GuardTypeOK

LEMMA DailyUsedIs == \A p, e, fraction : DailyUsed(p, e, fraction) <=> Used(p.start, e, DailyPct, fraction)
BY DEF DailyUsed, Used

LEMMA TotalUsedIs == \A p, e, fraction : TotalUsed(p, e, fraction) <=> Used(Base(p), e, TotalPct, fraction)
BY DEF TotalUsed, Used

\* on_equity: the day and the peak, and the lines looked at after them.
LEMMA MarkedFacts ==
    ASSUME GuardIInv, NEW e \in Equities
    PROVE  LET p == Marked(e)
           IN  /\ p \in PropType
               /\ p.start = IF prop.day = FirmDay THEN prop.start ELSE e
               /\ p.high = Larger(prop.high, e)
               /\ prop.breached # "" => p.breached # ""
               /\ MeetsFirmLine(e) => p.breached # ""
               /\ prop.breached = "" /\ p.breached # "" =>
                    \/ p.breached = "daily_loss_breached" /\ Used(p.start, e, DailyPct, 100)
                    \/ p.breached = "max_drawdown_breached" /\ Used(Base(p), e, TotalPct, 100)
<1> DEFINE q == [Rolled(e) EXCEPT !.high = Larger(@, e)]
<1>1. FirmDay \in -1 .. LastHalfDay
  BY GuardFacts, Constants DEF FirmDay
<1>2. q = [day |-> FirmDay, start |-> IF prop.day = FirmDay THEN prop.start ELSE e,
           high |-> Larger(prop.high, e), breached |-> prop.breached]
  <2>1. prop = [day |-> prop.day, start |-> prop.start, high |-> prop.high,
                breached |-> prop.breached]
    BY GuardFacts DEF PropType
  <2>2. Rolled(e) = [day |-> FirmDay, start |-> IF prop.day = FirmDay THEN prop.start ELSE e,
                     high |-> prop.high, breached |-> prop.breached]
    <3>1. CASE prop.day = FirmDay
      BY <2>1, <3>1 DEF Rolled
    <3>2. CASE prop.day # FirmDay
      BY <2>1, <3>2 DEF Rolled
    <3> QED
      BY <3>1, <3>2
  <2> QED
    BY <2>2
<1>3. q \in PropType
  BY <1>1, <1>2, GuardFacts DEF PropType, Larger
<1> DEFINE breach == IF q.breached # "" THEN q.breached
                     ELSE IF DailyUsed(q, e, 100) THEN "daily_loss_breached"
                     ELSE IF TotalUsed(q, e, 100) THEN "max_drawdown_breached" ELSE ""
<1>4. Marked(e) = [q EXCEPT !.breached = breach]
  BY DEF Marked
<1>5. MeetsFirmLine(e) <=> DailyUsed(q, e, 100) \/ TotalUsed(q, e, 100)
  BY DEF MeetsFirmLine
<1>6. breach \in {"", "daily_loss_breached", "max_drawdown_breached"}
  BY <1>3 DEF PropType
<1>7. /\ prop.breached = q.breached
      /\ q.start = IF prop.day = FirmDay THEN prop.start ELSE e
      /\ q.high = Larger(prop.high, e)
  BY <1>2
<1> HIDE DEF q
<1>8. /\ prop.breached # "" => breach # ""
      /\ MeetsFirmLine(e) => breach # ""
      /\ prop.breached = "" /\ breach # "" =>
           \/ breach = "daily_loss_breached" /\ Used(q.start, e, DailyPct, 100)
           \/ breach = "max_drawdown_breached" /\ Used(Base(q), e, TotalPct, 100)
  BY <1>5, <1>7, DailyUsedIs, TotalUsedIs
<1> HIDE DEF breach
<1>9. /\ Marked(e) \in PropType /\ Marked(e).breached = breach
      /\ Marked(e).start = q.start /\ Marked(e).high = q.high
  BY <1>3, <1>4, <1>6 DEF PropType
<1>10. Base(Marked(e)) = Base(q)
  BY <1>9 DEF Base
<1> QED
  BY <1>7, <1>8, <1>9, <1>10

\* Any mark after the last admission leaves our lines as much room as before, at
\* the highest of them.
LEMMA MarkLeavesRoom ==
    ASSUME GuardIInv, NEW e \in Equities, last.cap # 0
    PROVE  LET high == Larger(peak, e)
           IN  /\ high \in Equities
               /\ ~ DailyUsed(Marked(e), high, SoftPct)
               /\ ~ TotalUsed(Marked(e), high, SoftPct)
<1> DEFINE p    == Marked(e)
           high == Larger(peak, e)
<1>1. /\ p.start = IF prop.day = FirmDay THEN prop.start ELSE e
      /\ p.high = Larger(prop.high, e)
  BY MarkedFacts
<1>2. /\ prop.start \in Equities \cup {0} /\ prop.high \in Equities /\ peak \in Equities \cup {0}
      /\ Opening \in Equities /\ DailyPct \in 1 .. 100 /\ TotalPct \in 1 .. 100
      /\ SoftPct \in 1 .. 100 /\ \A x \in Equities : x \in Nat \ {0}
  BY GuardFacts, Constants DEF PropType
<1>3. peak \in Nat /\ e \in Nat \ {0} /\ prop.start \in Nat
  BY <1>2
<1>4. high \in Equities /\ high \in Nat /\ high >= peak /\ high >= e
  BY <1>2, <1>3 DEF Larger
<1>5. ~ Used(prop.start, peak, DailyPct, SoftPct) /\ ~ Used(Base(prop), peak, TotalPct, SoftPct)
  BY DailyUsedIs, TotalUsedIs, GuardFacts DEF RoomLeft
<1> HIDE DEF p, high
<1>6. ASSUME NEW x \in Equities, NEW pct \in 1 .. 100,
             x = e \/ ~ Used(x, peak, pct, SoftPct)
      PROVE  ~ Used(x, high, pct, SoftPct)
  <2>1. x \in Nat \ {0} /\ SoftPct \in 1 .. 100
    BY <1>2
  <2>2. high >= x => ~ Used(x, high, pct, SoftPct)
    BY ONLY <2>1, <1>4, pct \in 1 .. 100, LineKeeps
  <2>3. ~ Used(x, peak, pct, SoftPct) /\ high >= peak => ~ Used(x, high, pct, SoftPct)
    BY ONLY <2>1, <1>3, <1>4, pct \in 1 .. 100, LineKeeps
  <2> QED
    BY <1>4, <1>6, <2>2, <2>3
<1>7. ~ Used(p.start, high, DailyPct, SoftPct)
  <2>1. CASE p.start = e
    BY <1>2, <1>6, <2>1
  <2>2. CASE p.start = prop.start /\ prop.start # 0
    BY <1>2, <1>5, <1>6, <2>2
  <2>3. CASE p.start = prop.start /\ prop.start = 0
    <3>1. peak # 0
      BY <1>2, <1>5, <2>3 DEF Used
    <3> QED
      BY <1>2, <1>4, <2>3, <3>1, <1>3 DEF Used
  <2> QED
    BY <1>1, <2>1, <2>2, <2>3
<1>8. ~ Used(Base(p), high, TotalPct, SoftPct)
  <2>1. CASE Trailing /\ p.high = e
    BY <1>2, <1>6, <2>1 DEF Base
  <2>2. CASE Trailing /\ p.high = prop.high
    BY <1>2, <1>5, <1>6, <2>2 DEF Base
  <2>3. CASE ~ Trailing
    BY <1>2, <1>5, <1>6, <2>3 DEF Base
  <2> QED
    BY <1>1, <2>1, <2>2, <2>3, Constants DEF Larger
<1> QED
  BY <1>4, <1>7, <1>8, DailyUsedIs, TotalUsedIs DEF p, high

\* The day guard: a line met is latched, and what was latched stays.
LEMMA SessionFacts ==
    ASSUME GuardIInv, NEW e \in Equities
    PROVE  /\ SessionAfter(e) \in SessionType
           /\ session.tripped # "" => SessionAfter(e).tripped # ""
           /\ SessionAfter(e).tripped # "" => GuardsSession
           /\ MeetsDayLine(e) => SessionAfter(e).tripped # "" /\ ~ SessionAllows(e)
           /\ "day" \in crossed => ~ SessionAllows(e)
<1> DEFINE trip == IF Banked(e) THEN "profit_banked" ELSE IF Cut(e) THEN "loss_stopped" ELSE ""
<1>1. Latched /\ session \in SessionType
  BY GuardFacts
<1>2. MeetsDayLine(e) => GuardsSession /\ session.start > 0 /\ trip # ""
  BY DEF MeetsDayLine, GuardsSession, Banked, Cut
<1>3. trip \in {"", "profit_banked", "loss_stopped"}
  OBVIOUS
<1> HIDE DEF trip
<1>4. CASE GuardsSession /\ session.start > 0 /\ session.tripped = ""
  <2>1. SessionAfter(e) = [session EXCEPT !.tripped = trip]
    BY <1>4 DEF SessionAfter, trip
  <2>2. SessionAfter(e) \in SessionType /\ SessionAfter(e).tripped = trip
    BY <1>1, <1>3, <2>1 DEF SessionType
  <2>3. MeetsDayLine(e) => ~ SessionAllows(e)
    BY <1>4 DEF MeetsDayLine, SessionAllows
  <2> QED
    BY <1>1, <1>2, <1>4, <2>2, <2>3 DEF Latched
<1>5. CASE ~ (GuardsSession /\ session.start > 0 /\ session.tripped = "")
  <2>1. SessionAfter(e) = session
    BY <1>5 DEF SessionAfter
  <2>2. MeetsDayLine(e) => session.tripped # ""
    BY <1>2, <1>5
  <2>3. session.tripped # "" => GuardsSession /\ ~ SessionAllows(e)
    BY <1>1 DEF Latched, SessionAllows
  <2> QED
    BY <1>1, <2>1, <2>2, <2>3 DEF Latched
<1> QED
  BY <1>4, <1>5

\* Our lines of the firm's rules: whoever passes them leaves no latch behind.
LEMMA PropFacts ==
    ASSUME GuardIInv, NEW e \in Equities, PropAllows(e)
    PROVE  /\ Marked(e).breached = "" /\ ~ MeetsFirmLine(e) /\ "firm" \notin crossed
           /\ ~ DailyUsed(Marked(e), e, SoftPct) /\ ~ TotalUsed(Marked(e), e, SoftPct)
BY MarkedFacts, GuardFacts DEF PropAllows, Latched

------------------------------------------------------------------------------
(* The guard. *)

EquityOf(s)   == check[s].equity
BaseOf(s)     == IF baseline = 0 THEN EquityOf(s) ELSE baseline
Tradable(s)   == Effective(EquityOf(s), BaseOf(s))
Reaches2(s)   == BudgetAllows(EquityOf(s), BaseOf(s))
Reaches3(s)   == Reaches2(s) /\ SessionAllows(EquityOf(s))
Allowed(s)    == Reaches3(s) /\ PropAllows(EquityOf(s)) /\ HeatAllows(Tradable(s))
Refused       == [at |-> "idle", equity |-> 0, risk |-> 0]
AdmittedAs(s)   == [at |-> "admitted", equity |-> 0, risk |-> Tradable(s) * RiskPct]

LEMMA DecideIs ==
    ASSUME NEW s \in Symbols, Decide(s)
    PROVE  /\ check[s].at = "asked" /\ UNCHANGED <<account, risk>>
           /\ baseline' = BaseOf(s)
           /\ traded' = IF baseline = 0 THEN equity - EquityOf(s) - unrecorded ELSE traded
           /\ session' = IF Reaches2(s) THEN SessionAfter(EquityOf(s)) ELSE session
           /\ crossed' = crossed \cup {l \in {"day", "firm"} :
                                         \/ l = "day" /\ Reaches2(s) /\ MeetsDayLine(EquityOf(s))
                                         \/ l = "firm" /\ Reaches3(s) /\ MeetsFirmLine(EquityOf(s))}
           /\ prop' = IF Reaches3(s) THEN Marked(EquityOf(s)) ELSE prop
           /\ check' = [check EXCEPT ![s] = IF Allowed(s) THEN AdmittedAs(s) ELSE Refused]
           /\ peak' = IF Allowed(s) THEN EquityOf(s)
                      ELSE IF Reaches3(s) THEN Larger(peak, EquityOf(s)) ELSE peak
           /\ last' = IF Allowed(s) THEN [cap |-> Tradable(s) * HeatPct, others |-> OnItsWay]
                      ELSE last
BY DEF Decide, EquityOf, BaseOf, Tradable, Reaches2, Reaches3, Allowed, Refused, AdmittedAs

LEMMA DecideNumbers ==
    ASSUME GuardIInv, NEW s \in Symbols, check[s].at = "asked"
    PROVE  /\ EquityOf(s) \in Equities /\ EquityOf(s) \in Nat \ {0}
           /\ BaseOf(s) \in Int /\ (BaseOf(s) # 0 \/ baseline # 0)
           /\ Tradable(s) \in Nat /\ Tradable(s) * RiskPct \in Nat /\ Tradable(s) * HeatPct \in Nat
           /\ (Allowed(s) => OpenRisk + Tradable(s) * RiskPct <= Tradable(s) * HeatPct)
<1>1. EquityOf(s) \in Equities
  BY GuardFacts DEF EquityOf, OnePlace, CheckType
<1>2. EquityOf(s) \in Nat \ {0}
  BY <1>1, Constants
<1>3. BaseOf(s) \in Int /\ (BaseOf(s) # 0 \/ baseline # 0)
  BY <1>2, GuardFacts DEF BaseOf
<1>4. Tradable(s) \in Nat
  BY <1>2, <1>3, Constants DEF Tradable, Effective, Larger, Smaller
<1>5. Tradable(s) * RiskPct \in Nat /\ Tradable(s) * HeatPct \in Nat
  BY <1>4, Constants
<1> QED
  BY <1>1, <1>2, <1>3, <1>4, <1>5 DEF Allowed, HeatAllows

Risks == [s \in Symbols |-> check[s].risk]

LEMMA Sums ==
    ASSUME GuardIInv
    PROVE  /\ OpenRisk \in Nat /\ OnItsWay \in Nat
           /\ Risks \in [Symbols -> Nat] /\ risk \in [Symbols -> Nat]
           /\ last.cap \in Nat /\ last.others \in Nat
           /\ OpenRisk = SumFunction(risk) /\ OnItsWay = SumFunction(Risks)
           /\ OpenRisk + OnItsWay <= last.cap + last.others
<1>1. \A s \in Symbols : check[s].risk \in Nat
  BY GuardFacts DEF CheckType
<1>2. Risks \in [Symbols -> Nat] /\ risk \in [Symbols -> Nat]
  BY <1>1, GuardFacts DEF Risks
<1>3. OpenRisk = SumFunction(risk) /\ OnItsWay = SumFunction(Risks)
  BY DEF OpenRisk, OnItsWay, Risks
<1>4. OpenRisk \in Nat /\ OnItsWay \in Nat
  BY <1>2, <1>3, SumIsNat, Constants
<1> QED
  BY <1>2, <1>3, <1>4, GuardFacts DEF HeatBounded

\* The sums after a step that moves the risk of one symbol.
LEMMA SumsMove ==
    ASSUME GuardIInv, NEW s \in Symbols, risk' \in [Symbols -> Nat],
           check' \in [Symbols -> CheckType],
           \A t \in Symbols : t # s => risk'[t] = risk[t] /\ check'[t].risk = check[t].risk
    PROVE  /\ OpenRisk' = OpenRisk + risk'[s] - risk[s]
           /\ OnItsWay' = OnItsWay + check'[s].risk - check[s].risk
           /\ OpenRisk' \in Nat /\ OnItsWay' \in Nat
<1>1. Risks' \in [Symbols -> Nat]
  <2>1. \A t \in Symbols : check'[t].risk \in Nat
    BY DEF CheckType
  <2> QED
    BY <2>1 DEF Risks
<1>2. \A t \in Symbols : Risks'[t] = check'[t].risk /\ Risks[t] = check[t].risk
  BY DEF Risks
<1>3. OpenRisk' = SumFunction(risk') /\ OnItsWay' = SumFunction(Risks')
  BY DEF OpenRisk, OnItsWay, Risks
<1>4. OpenRisk' = OpenRisk + risk'[s] - risk[s]
  <2>1. \A t \in Symbols : t # s => risk'[t] = risk[t]
    OBVIOUS
  <2> QED
    BY <2>1, <1>3, Sums, SumMoves, Constants
<1>5. OnItsWay' = OnItsWay + Risks'[s] - Risks[s]
  <2>1. \A t \in Symbols : t # s => Risks'[t] = Risks[t]
    BY <1>2
  <2> QED
    BY <2>1, <1>1, <1>3, Sums, SumMoves, Constants
<1>6. OpenRisk' \in Nat /\ OnItsWay' \in Nat
  BY <1>1, <1>3, SumIsNat, Constants
<1> QED
  BY <1>2, <1>4, <1>5, <1>6

------------------------------------------------------------------------------
(* The steps. *)

\* A step that touches neither the entries, the risk nor the last admission.
LEMMA HeatStays ==
    ASSUME GuardIInv, UNCHANGED <<check, risk, last>>
    PROVE  HeatBounded'
BY GuardFacts DEF HeatBounded, OpenRisk, OnItsWay

\* A step that touches only the entries and the risk.
LEMMA RestStays ==
    ASSUME GuardIInv,
           UNCHANGED <<account, baseline, session, prop, traded, crossed, peak, last>>
    PROVE  Latched' /\ Accounted' /\ RoomLeft'
<1>1. Latched'
  BY GuardFacts DEF Latched, GuardsSession
<1>2. Accounted'
  BY GuardFacts DEF Accounted, account
<1>3. RoomLeft'
  BY GuardFacts DEF RoomLeft, DailyUsed, TotalUsed, Base
<1> QED
  BY <1>1, <1>2, <1>3

LEMMA RoomStays ==
    ASSUME GuardIInv, UNCHANGED <<prop, peak, last>>
    PROVE  RoomLeft'
BY GuardFacts DEF RoomLeft, DailyUsed, TotalUsed, Base

LEMMA AskKeeps ==
    ASSUME GuardIInv, NEW s \in Symbols, Ask(s)
    PROVE  GuardIInv'
<1> DEFINE asked == [at |-> "asked", equity |-> equity, risk |-> 0]
<1>1. /\ check' = [check EXCEPT ![s] = asked] /\ check[s].at = "idle"
      /\ UNCHANGED <<account, baseline, session, prop, risk, traded, crossed, peak, last>>
  BY DEF Ask
<1>2. asked \in CheckType /\ asked.at = "asked" /\ asked.risk = 0 /\ asked.equity # 0
  BY GuardFacts, Constants DEF CheckType
<1> HIDE DEF asked
<1>3. /\ check' \in [Symbols -> CheckType] /\ check'[s] = asked
      /\ \A t \in Symbols : t # s => check'[t] = check[t]
  BY <1>1, <1>2, GuardFacts
<1>4. GuardTypeOK'
  BY <1>1, <1>3, GuardFacts DEF GuardTypeOK, account, SessionType, PropType, CheckType
<1>5. OnePlace'
  BY <1>1, <1>2, <1>3, GuardFacts DEF OnePlace
<1>6. Latched' /\ Accounted' /\ RoomLeft'
  BY <1>1, RestStays
<1>7. HeatBounded'
  <2>1. check[s].risk = 0
    BY <1>1, GuardFacts DEF OnePlace
  <2>2. OpenRisk' = OpenRisk + risk'[s] - risk[s] /\ OnItsWay' = OnItsWay + check'[s].risk - check[s].risk
    BY <1>1, <1>3, GuardFacts, SumsMove
  <2>3. risk'[s] = risk[s] /\ risk[s] \in Nat /\ last' = last
    BY <1>1, GuardFacts
  <2> QED
    BY <1>2, <1>3, <2>1, <2>2, <2>3, Sums DEF HeatBounded
<1> QED
  BY <1>4, <1>5, <1>6, <1>7 DEF GuardIInv

LEMMA FillKeeps ==
    ASSUME GuardIInv, NEW s \in Symbols, Fill(s)
    PROVE  GuardIInv'
<1> DEFINE open == [at |-> "open", equity |-> 0, risk |-> 0]
<1>1. /\ check' = [check EXCEPT ![s] = open] /\ check[s].at = "admitted"
      /\ risk' = [risk EXCEPT ![s] = check[s].risk]
      /\ UNCHANGED <<account, baseline, session, prop, traded, crossed, peak, last>>
  BY DEF Fill
<1>2. open \in CheckType /\ open.at = "open" /\ open.risk = 0
  BY DEF CheckType
<1>3. check[s].risk \in Nat
  BY GuardFacts DEF CheckType
<1> HIDE DEF open
<1>4. /\ check' \in [Symbols -> CheckType] /\ check'[s] = open
      /\ \A t \in Symbols : t # s => check'[t] = check[t]
  BY <1>1, <1>2, GuardFacts
<1>5. /\ risk' \in [Symbols -> Nat] /\ risk'[s] = check[s].risk
      /\ \A t \in Symbols : t # s => risk'[t] = risk[t]
  BY <1>1, <1>3, GuardFacts
<1>6. GuardTypeOK'
  BY <1>1, <1>4, <1>5, GuardFacts DEF GuardTypeOK, account, SessionType, PropType, CheckType
<1>7. OnePlace'
  BY <1>2, <1>4, <1>5, GuardFacts DEF OnePlace
<1>8. Latched' /\ Accounted' /\ RoomLeft'
  BY <1>1, RestStays
<1>9. HeatBounded'
  <2>1. risk[s] = 0
    BY <1>1, GuardFacts DEF OnePlace
  <2>2. OpenRisk' = OpenRisk + risk'[s] - risk[s] /\ OnItsWay' = OnItsWay + check'[s].risk - check[s].risk
    BY <1>4, <1>5, SumsMove
  <2>3. last' = last
    BY <1>1
  <2> QED
    BY <1>2, <1>3, <1>4, <1>5, <2>1, <2>2, <2>3, Sums DEF HeatBounded
<1> QED
  BY <1>6, <1>7, <1>8, <1>9 DEF GuardIInv

LEMMA EndKeeps ==
    ASSUME GuardIInv, NEW s \in Symbols, End(s)
    PROVE  GuardIInv'
<1>1. /\ check' = [check EXCEPT ![s] = Refused] /\ risk' = [risk EXCEPT ![s] = 0]
      /\ UNCHANGED <<account, baseline, session, prop, traded, crossed, peak, last>>
  BY DEF End, Refused
<1>2. Refused \in CheckType /\ Refused.at = "idle" /\ Refused.risk = 0
  BY DEF CheckType, Refused
<1>3. check[s].risk \in Nat /\ risk[s] \in Nat
  BY GuardFacts DEF CheckType
<1>4. /\ check' \in [Symbols -> CheckType] /\ check'[s] = Refused
      /\ \A t \in Symbols : t # s => check'[t] = check[t]
  BY <1>1, <1>2, GuardFacts
<1>5. /\ risk' \in [Symbols -> Nat] /\ risk'[s] = 0
      /\ \A t \in Symbols : t # s => risk'[t] = risk[t]
  BY <1>1, GuardFacts
<1>6. GuardTypeOK'
  BY <1>1, <1>4, <1>5, GuardFacts DEF GuardTypeOK, account, SessionType, PropType, CheckType
<1>7. OnePlace'
  BY <1>2, <1>4, <1>5, GuardFacts DEF OnePlace
<1>8. Latched' /\ Accounted' /\ RoomLeft'
  BY <1>1, RestStays
<1>9. HeatBounded'
  <2>1. OpenRisk' = OpenRisk + risk'[s] - risk[s] /\ OnItsWay' = OnItsWay + check'[s].risk - check[s].risk
    BY <1>4, <1>5, SumsMove
  <2>2. last' = last
    BY <1>1
  <2> QED
    BY <1>2, <1>3, <1>4, <1>5, <2>1, <2>2, Sums DEF HeatBounded
<1> QED
  BY <1>6, <1>7, <1>8, <1>9 DEF GuardIInv

LEMMA RatchetKeeps ==
    ASSUME GuardIInv, NEW s \in Symbols, Ratchet(s)
    PROVE  GuardIInv'
<1>1. /\ risk' = [risk EXCEPT ![s] = 0] /\ risk[s] > 0
      /\ UNCHANGED <<account, baseline, session, prop, check, traded, crossed, peak, last>>
  BY DEF Ratchet
<1>2. /\ risk' \in [Symbols -> Nat] /\ risk'[s] = 0 /\ risk[s] \in Nat
      /\ \A t \in Symbols : t # s => risk'[t] = risk[t]
  BY <1>1, GuardFacts
<1>3. GuardTypeOK'
  BY <1>1, <1>2, GuardFacts DEF GuardTypeOK, account, SessionType, PropType, CheckType
<1>4. OnePlace'
  BY <1>1, <1>2, GuardFacts DEF OnePlace
<1>5. Latched' /\ Accounted' /\ RoomLeft'
  BY <1>1, RestStays
<1>6. HeatBounded'
  <2>1. check' \in [Symbols -> CheckType] /\ check[s].risk \in Nat
    BY <1>1, GuardFacts DEF CheckType
  <2>2. OpenRisk' = OpenRisk + risk'[s] - risk[s] /\ OnItsWay' = OnItsWay + check'[s].risk - check[s].risk
    BY <1>1, <1>2, <2>1, SumsMove
  <2>3. last' = last /\ check'[s].risk = check[s].risk
    BY <1>1
  <2> QED
    BY <1>2, <2>1, <2>2, <2>3, Sums DEF HeatBounded
<1> QED
  BY <1>3, <1>4, <1>5, <1>6 DEF GuardIInv

\* A step that touches only the account and what is anchored in it.
LEMMA AccountStep ==
    ASSUME GuardIInv, UNCHANGED <<now, session, prop, check, risk, crossed, peak, last>>,
           equity' \in Equities, unrecorded' \in Flows \cup {0},
           baseline' \in Int, traded' \in Int, Accounted'
    PROVE  GuardIInv'
<1>1. GuardTypeOK'
  BY GuardFacts DEF GuardTypeOK, SessionType, PropType, CheckType
<1>2. Latched'
  BY GuardFacts DEF Latched, GuardsSession
<1>3. OnePlace'
  BY GuardFacts DEF OnePlace
<1>4. RoomLeft'
  BY GuardFacts DEF RoomLeft, DailyUsed, TotalUsed, Base
<1>5. HeatBounded'
  BY HeatStays
<1> QED
  BY <1>1, <1>2, <1>3, <1>4, <1>5 DEF GuardIInv

LEMMA Numbers ==
    ASSUME GuardIInv
    PROVE  /\ equity \in Int /\ unrecorded \in Int /\ baseline \in Int /\ traded \in Int
           /\ \A e \in Equities : e \in Int
           /\ \A amount \in Flows : amount \in Int
BY GuardFacts, Constants

LEMMA TradeKeeps ==
    ASSUME GuardIInv, NEW e \in Equities, Trade(e)
    PROVE  GuardIInv'
<1>1. /\ equity' = e /\ traded' = IF baseline = 0 THEN 0 ELSE traded + e - equity
      /\ UNCHANGED <<now, unrecorded, baseline, session, prop, check, risk, crossed, peak, last>>
  BY DEF Trade
<1>2. traded' \in Int /\ unrecorded' \in Flows \cup {0} /\ baseline' \in Int
  BY <1>1, Numbers, GuardFacts
<1>3. Accounted'
  BY <1>1, Numbers, GuardFacts DEF Accounted
<1> QED
  BY <1>1, <1>2, <1>3, AccountStep

LEMMA FlowKeeps ==
    ASSUME GuardIInv, NEW amount \in Flows, Flow(amount)
    PROVE  GuardIInv'
<1>1. /\ unrecorded = 0 /\ baseline # 0
      /\ equity' = equity + amount /\ equity' \in Equities /\ unrecorded' = amount
      /\ UNCHANGED <<now, baseline, session, prop, check, risk, traded, crossed, peak, last>>
  BY DEF Flow
<1>2. traded' \in Int /\ unrecorded' \in Flows \cup {0} /\ baseline' \in Int
  BY <1>1, Numbers
<1>3. Accounted'
  BY <1>1, Numbers, GuardFacts DEF Accounted
<1> QED
  BY <1>1, <1>2, <1>3, AccountStep

LEMMA ExternalFlowKeeps ==
    ASSUME GuardIInv, ExternalFlow
    PROVE  GuardIInv'
<1>1. /\ unrecorded # 0 /\ baseline' = baseline + unrecorded /\ unrecorded' = 0
      /\ UNCHANGED <<now, equity, session, prop, check, risk, traded, crossed, peak, last>>
  BY DEF ExternalFlow, BaselineAfterFlow
<1>2. traded' \in Int /\ unrecorded' \in Flows \cup {0} /\ baseline' \in Int /\ equity' \in Equities
  BY <1>1, Numbers, GuardFacts
<1>3. Accounted'
  BY <1>1, Numbers, GuardFacts DEF Accounted
<1> QED
  BY <1>1, <1>2, <1>3, AccountStep

LEMMA MarkKeeps ==
    ASSUME GuardIInv, Mark
    PROVE  GuardIInv'
<1>1. /\ prop' = Marked(equity) /\ peak' = Larger(peak, equity)
      /\ crossed' = crossed \cup {l \in {"firm"} : MeetsFirmLine(equity)}
      /\ UNCHANGED <<account, baseline, session, check, risk, traded, last>>
  BY DEF Mark
<1>2. equity \in Equities
  BY GuardFacts
<1>3. /\ prop' \in PropType
      /\ prop.breached # "" => prop'.breached # ""
      /\ MeetsFirmLine(equity) => prop'.breached # ""
  BY <1>1, <1>2, MarkedFacts
<1>4. peak' \in Equities \cup {0}
  BY <1>1, GuardFacts DEF Larger
<1>5. GuardTypeOK'
  <2>1. crossed' \subseteq {"day", "firm"}
    BY <1>1, GuardFacts
  <2> QED
    BY <1>1, <1>3, <1>4, <2>1, GuardFacts DEF GuardTypeOK, account, SessionType, PropType, CheckType
<1>6. Latched'
  BY <1>1, <1>3, GuardFacts DEF Latched, GuardsSession
<1>7. Accounted' /\ OnePlace'
  BY <1>1, GuardFacts DEF Accounted, OnePlace, account
<1>8. RoomLeft'
  <2> SUFFICES ASSUME last'.cap # 0
               PROVE  ~ DailyUsed(prop', peak', SoftPct) /\ ~ TotalUsed(prop', peak', SoftPct)
    BY DEF RoomLeft, DailyUsed, TotalUsed, Base
  <2>1. last.cap # 0
    BY <1>1
  <2> QED
    BY <1>1, <1>2, <2>1, MarkLeavesRoom
<1>9. HeatBounded'
  BY <1>1, HeatStays
<1> QED
  BY <1>5, <1>6, <1>7, <1>8, <1>9 DEF GuardIInv

LEMMA StartSessionKeeps ==
    ASSUME GuardIInv, StartSession
    PROVE  GuardIInv'
<1>1. /\ session' = [day |-> now \div 2, start |-> equity, tripped |-> ""]
      /\ crossed' = crossed \ {"day"}
      /\ UNCHANGED <<account, baseline, prop, check, risk, traded, peak, last>>
  BY DEF StartSession
<1>2. now \div 2 \in -1 .. LastHalfDay
  BY GuardFacts, Constants
<1>3. session' \in SessionType
  BY <1>1, <1>2, GuardFacts DEF SessionType
<1>4. GuardTypeOK'
  <2>1. crossed' \subseteq {"day", "firm"}
    BY <1>1, GuardFacts
  <2> QED
    BY <1>1, <1>3, <2>1, GuardFacts DEF GuardTypeOK, account, SessionType, PropType, CheckType
<1>5. Latched'
  BY <1>1, GuardFacts DEF Latched, GuardsSession
<1>6. Accounted' /\ OnePlace'
  BY <1>1, GuardFacts DEF Accounted, OnePlace, account
<1>7. RoomLeft'
  BY <1>1, RoomStays
<1>8. HeatBounded'
  BY <1>1, HeatStays
<1> QED
  BY <1>4, <1>5, <1>6, <1>7, <1>8 DEF GuardIInv

LEMMA HalfDayKeeps ==
    ASSUME GuardIInv, HalfDay
    PROVE  GuardIInv'
<1>1. /\ now < LastHalfDay /\ now' = now + 1
      /\ UNCHANGED <<equity, unrecorded, baseline, session, prop, check, risk,
                     traded, crossed, peak, last>>
  BY DEF HalfDay
<1>2. now' \in 0 .. LastHalfDay
  BY <1>1, GuardFacts, Constants
<1>3. GuardTypeOK'
  BY <1>1, <1>2, GuardFacts DEF GuardTypeOK, SessionType, PropType, CheckType
<1>4. Latched'
  BY <1>1, GuardFacts DEF Latched, GuardsSession
<1>5. Accounted' /\ OnePlace'
  BY <1>1, GuardFacts DEF Accounted, OnePlace
<1>6. RoomLeft'
  BY <1>1, RoomStays
<1>7. HeatBounded'
  BY <1>1, HeatStays
<1> QED
  BY <1>3, <1>4, <1>5, <1>6, <1>7 DEF GuardIInv

LEMMA DecideKeeps ==
    ASSUME GuardIInv, NEW s \in Symbols, Decide(s)
    PROVE  GuardIInv'
<1> DEFINE e    == EquityOf(s)
           next == IF Allowed(s) THEN AdmittedAs(s) ELSE Refused
<1>1. /\ check[s].at = "asked" /\ UNCHANGED <<account, risk>>
      /\ check' = [check EXCEPT ![s] = next]
  BY DecideIs
<1>2. /\ e \in Equities /\ e \in Nat \ {0}
      /\ BaseOf(s) \in Int /\ (BaseOf(s) # 0 \/ baseline # 0)
      /\ Tradable(s) \in Nat /\ Tradable(s) * RiskPct \in Nat /\ Tradable(s) * HeatPct \in Nat
  BY <1>1, DecideNumbers
<1>3. /\ next \in CheckType /\ next.at # "asked" /\ next.at # "open"
      /\ next.risk = IF Allowed(s) THEN Tradable(s) * RiskPct ELSE 0
      /\ next.at # "admitted" => next.risk = 0
  BY <1>2 DEF CheckType, AdmittedAs, Refused
<1> HIDE DEF next
<1>4. /\ check' \in [Symbols -> CheckType] /\ check'[s] = next
      /\ \A t \in Symbols : t # s => check'[t] = check[t]
  BY <1>1, <1>3, GuardFacts
<1> HIDE DEF e
<1>5. /\ session' = IF Reaches2(s) THEN SessionAfter(e) ELSE session
      /\ prop' = IF Reaches3(s) THEN Marked(e) ELSE prop
      /\ crossed' \subseteq {"day", "firm"}
      /\ "day" \in crossed' => "day" \in crossed \/ (Reaches2(s) /\ MeetsDayLine(e))
      /\ "firm" \in crossed' => "firm" \in crossed \/ (Reaches3(s) /\ MeetsFirmLine(e))
  BY DecideIs, GuardFacts DEF e
<1>6. session' \in SessionType /\ prop' \in PropType
  BY <1>2, <1>5, SessionFacts, MarkedFacts, GuardFacts
<1>7. Latched'
  <2>1. "day" \in crossed' => session'.tripped # ""
    BY <1>2, <1>5, SessionFacts, GuardFacts DEF Latched
  <2>2. session'.tripped # "" => GuardsSession
    BY <1>2, <1>5, SessionFacts, GuardFacts DEF Latched
  <2>3. "firm" \in crossed' => prop'.breached # ""
    BY <1>2, <1>5, MarkedFacts, GuardFacts DEF Latched
  <2> QED
    BY <2>1, <2>2, <2>3 DEF Latched, GuardsSession
<1>8. /\ baseline' = IF baseline = 0 THEN e ELSE baseline
      /\ traded' = IF baseline = 0 THEN equity - e - unrecorded ELSE traded
  BY DecideIs DEF BaseOf, e
<1>9. traded' \in Int /\ baseline' \in Int
  BY <1>2, <1>8, Numbers
<1>10. Accounted'
  BY <1>1, <1>2, <1>8, Numbers, GuardFacts DEF Accounted, account
<1>11. OnePlace'
  BY <1>1, <1>3, <1>4, GuardFacts DEF OnePlace
<1>12. /\ peak' = IF Allowed(s) THEN e ELSE IF Reaches3(s) THEN Larger(peak, e) ELSE peak
       /\ last' = IF Allowed(s) THEN [cap |-> Tradable(s) * HeatPct, others |-> OnItsWay]
                  ELSE last
  BY DecideIs DEF e
<1>13. peak' \in Equities \cup {0} /\ last' \in [cap : Nat, others : Nat]
  BY <1>2, <1>12, GuardFacts, Sums DEF Larger
<1>14. GuardTypeOK'
  BY <1>1, <1>4, <1>5, <1>6, <1>9, <1>13, GuardFacts
     DEF GuardTypeOK, account, SessionType, PropType, CheckType
<1>15. RoomLeft'
  <2> SUFFICES ASSUME last'.cap # 0
               PROVE  ~ DailyUsed(prop', peak', SoftPct) /\ ~ TotalUsed(prop', peak', SoftPct)
    BY DEF RoomLeft, DailyUsed, TotalUsed, Base
  <2>1. CASE Allowed(s)
    <3>1. Reaches3(s) /\ PropAllows(e)
      BY <2>1 DEF Allowed, e
    <3> QED
      BY <1>2, <1>5, <1>12, <2>1, <3>1, PropFacts
  <2>2. CASE ~ Allowed(s) /\ Reaches3(s)
    BY <1>2, <1>5, <1>12, <2>2, MarkLeavesRoom
  <2>3. CASE ~ Allowed(s) /\ ~ Reaches3(s)
    BY <1>5, <1>12, <2>3, GuardFacts DEF RoomLeft
  <2> QED
    BY <2>1, <2>2, <2>3
<1>16. HeatBounded'
  <2>1. check[s].risk = 0 /\ risk'[s] = risk[s] /\ risk[s] \in Nat /\ risk' \in [Symbols -> Nat]
    BY <1>1, GuardFacts DEF OnePlace
  <2>2. OpenRisk' = OpenRisk + risk'[s] - risk[s] /\ OnItsWay' = OnItsWay + check'[s].risk - check[s].risk
    BY <1>1, <1>4, <2>1, SumsMove
  <2>3. OpenRisk' = OpenRisk
    BY <2>1, <2>2, Sums
  <2>4. CASE Allowed(s)
    <3>1. OnItsWay' = OnItsWay + Tradable(s) * RiskPct
      BY <1>2, <1>3, <1>4, <2>1, <2>2, <2>4, Sums
    <3>2. OpenRisk + Tradable(s) * RiskPct <= Tradable(s) * HeatPct
      BY <1>1, <2>4, DecideNumbers
    <3>3. last'.cap = Tradable(s) * HeatPct /\ last'.others = OnItsWay
      BY <1>12, <2>4
    <3> DEFINE own == Tradable(s) * RiskPct
               cap == Tradable(s) * HeatPct
    <3>4. own \in Nat /\ cap \in Nat
      BY <1>2
    <3> HIDE DEF own, cap
    <3>5. OpenRisk + OnItsWay + own <= cap + OnItsWay
      BY <3>2, <3>4, Sums DEF own, cap
    <3> QED
      BY <2>3, <3>1, <3>3, <3>4, <3>5, Sums DEF HeatBounded, own, cap
  <2>5. CASE ~ Allowed(s)
    BY <1>3, <1>4, <1>12, <2>1, <2>2, <2>3, <2>5, Sums DEF HeatBounded
  <2> QED
    BY <2>4, <2>5
<1> QED
  BY <1>7, <1>10, <1>11, <1>14, <1>15, <1>16 DEF GuardIInv

LEMMA GuardInitially == GuardInit => GuardIInv
<1> SUFFICES ASSUME GuardInit
             PROVE  GuardIInv
  OBVIOUS
<1>1. /\ Opening \in Equities /\ LastHalfDay \in Nat
      /\ -1 \in -1 .. LastHalfDay /\ 0 \in 0 .. LastHalfDay
  BY Constants
<1>2. GuardTypeOK
  <2>1. session \in SessionType /\ prop \in PropType
    BY <1>1 DEF GuardInit, SessionType, PropType
  <2>2. check \in [Symbols -> CheckType] /\ risk \in [Symbols -> Nat]
    BY DEF GuardInit, CheckType
  <2>3. last \in [cap : Nat, others : Nat]
    BY DEF GuardInit
  <2>4. /\ now \in 0 .. LastHalfDay /\ equity \in Equities /\ unrecorded \in Flows \cup {0}
        /\ baseline \in Int /\ traded \in Int /\ peak \in Equities \cup {0}
        /\ crossed \subseteq {"day", "firm"}
    <3>1. /\ now = 0 /\ equity = Opening /\ unrecorded = 0 /\ baseline = 0
          /\ traded = 0 /\ peak = 0 /\ crossed = {}
      BY DEF GuardInit
    <3> QED
      BY ONLY <1>1, <3>1
  <2> QED
    BY <2>1, <2>2, <2>3, <2>4 DEF GuardTypeOK, SessionType, PropType, CheckType
<1>3. Latched /\ Accounted /\ OnePlace /\ RoomLeft
  BY DEF GuardInit, Latched, Accounted, OnePlace, RoomLeft
<1>4. HeatBounded
  <2>1. Risks = [s \in Symbols |-> 0] /\ risk = [s \in Symbols |-> 0]
    BY DEF GuardInit, Risks
  <2>2. OpenRisk = 0 /\ OnItsWay = 0
    BY <2>1, SumOfNothing, Constants DEF OpenRisk, OnItsWay, Risks
  <2>3. last.cap = 0 /\ last.others = 0
    BY DEF GuardInit
  <2> QED
    BY <2>2, <2>3 DEF HeatBounded
<1> QED
  BY <1>2, <1>3, <1>4 DEF GuardIInv

LEMMA GuardSteps == GuardIInv /\ [GuardNext]_guardVars => GuardIInv'
<1> SUFFICES ASSUME GuardIInv, [GuardNext]_guardVars
             PROVE  GuardIInv'
  OBVIOUS
<1>1. CASE \E s \in Symbols : Ask(s) \/ Decide(s) \/ Fill(s) \/ End(s) \/ Ratchet(s)
  BY <1>1, AskKeeps, DecideKeeps, FillKeeps, EndKeeps, RatchetKeeps
<1>2. CASE \E e \in Equities : Trade(e)
  BY <1>2, TradeKeeps
<1>3. CASE \E amount \in Flows : Flow(amount)
  BY <1>3, FlowKeeps
<1>4. CASE ExternalFlow \/ Mark \/ StartSession \/ HalfDay
  BY <1>4, ExternalFlowKeeps, MarkKeeps, StartSessionKeeps, HalfDayKeeps
<1>5. CASE UNCHANGED guardVars
  <2>1. UNCHANGED <<now, equity, unrecorded, baseline, session, prop, check, risk, traded,
                    crossed, peak, last>>
    BY <1>5 DEF guardVars, account
  <2>2. /\ equity' \in Equities /\ unrecorded' \in Flows \cup {0}
        /\ baseline' \in Int /\ traded' \in Int
    BY <2>1, GuardFacts
  <2>3. Accounted'
    BY <2>1, GuardFacts DEF Accounted
  <2> QED
    BY <2>1, <2>2, <2>3, AccountStep
<1> QED
  BY <1>1, <1>2, <1>3, <1>4, <1>5 DEF GuardNext

\* The invariant the others rest on: it holds whatever the equity does between
\* the question and the answer of make_portfolio_guard (guard_stack.py).
THEOREM GuardInvariance == GuardSpec => []GuardIInv
<1> QED
  BY GuardInitially, GuardSteps, PTL DEF GuardSpec

\* The types of the guards' state, and of an entry's way to its position.
THEOREM GuardTypeCorrect == GuardSpec => []GuardTypeOK
<1>1. GuardIInv => GuardTypeOK
  BY DEF GuardIInv
<1> QED
  BY <1>1, GuardInvariance, PTL

\* The heat of what is open and of what is on its way stays under the cap of
\* the last admission and what was then on its way, for any number of entries
\* asked for at once (portfolio_heat.py:59, positions_fn).
THEOREM HeatStaysBounded == GuardSpec => []HeatBounded
<1>1. GuardIInv => HeatBounded
  BY DEF GuardIInv
<1> QED
  BY <1>1, GuardInvariance, PTL

\* No flow that is recorded has a part in the budget, at whatever equity the
\* baseline was anchored (budget_manager.py:19, external_flow).
THEOREM BudgetIsTrue == GuardSpec => []BudgetIsTradingOnly
<1>1. GuardIInv => BudgetIsTradingOnly
  <2> SUFFICES ASSUME GuardIInv, baseline # 0, unrecorded = 0
               PROVE  Effective(equity, baseline) = Larger(0, Smaller(Budget + traded, equity))
    BY DEF BudgetIsTradingOnly
  <2>1. traded = equity - baseline
    BY Numbers, GuardFacts DEF Accounted
  <2>2. Budget + traded = Budget + equity - baseline
    BY <2>1, Numbers, Constants
  <2> QED
    BY <2>2 DEF Effective
<1> QED
  BY <1>1, GuardInvariance, PTL

LEMMA AdmissionIsAllowed ==
    ASSUME GuardIInv, [GuardNext]_guardVars, NEW s \in Symbols, Admits(s)
    PROVE  Decide(s) /\ Allowed(s)
<1>1. check[s].at # "admitted" /\ check'[s].at = "admitted" /\ check \in [Symbols -> CheckType]
  BY GuardFacts DEF Admits
<1>2. ASSUME NEW t \in Symbols, Ask(t) \/ Fill(t) \/ End(t)
      PROVE  FALSE
  BY <1>1, <1>2 DEF Ask, Fill, End
<1>3. ASSUME NEW t \in Symbols, Decide(t)
      PROVE  Decide(s) /\ Allowed(s)
  <2>1. check' = [check EXCEPT ![t] = IF Allowed(t) THEN AdmittedAs(t) ELSE Refused]
    BY <1>3, DecideIs
  <2>2. t = s
    BY <1>1, <2>1
  <2>3. Allowed(t)
    BY <1>1, <2>1, <2>2 DEF Refused
  <2> QED
    BY <1>3, <2>2, <2>3
<1>4. ASSUME UNCHANGED check
      PROVE  FALSE
  BY <1>1, <1>4
<1>5. /\ \A t \in Symbols : Ratchet(t) => UNCHANGED check
      /\ \A e : Trade(e) => UNCHANGED check
      /\ \A amount : Flow(amount) => UNCHANGED check
      /\ ExternalFlow \/ Mark \/ StartSession \/ HalfDay \/ UNCHANGED guardVars => UNCHANGED check
  BY DEF Ratchet, Trade, Flow, ExternalFlow, Mark, StartSession, HalfDay, guardVars
<1> QED
  BY <1>2, <1>3, <1>4, <1>5 DEF GuardNext

\* No entry is admitted after a line was met, in the session for the day's
\* guard and ever after for the firm's, on the newest or on an old answer
\* (session_guard.py:52, prop_rules.py:64).
THEOREM LatchesHold == GuardSpec => RefusalsHold
<1>1. ASSUME GuardIInv, [GuardNext]_guardVars, NEW s \in Symbols, Admits(s)
      PROVE  crossed' = {}
  <2> DEFINE e == EquityOf(s)
  <2>1. Decide(s) /\ Allowed(s)
    BY <1>1, AdmissionIsAllowed
  <2>2. SessionAllows(e) /\ PropAllows(e)
    BY <2>1 DEF Allowed, Reaches3
  <2>3. e \in Equities
    BY <1>1, <2>1, DecideIs, DecideNumbers
  <2> HIDE DEF e
  <2>4. "day" \notin crossed /\ ~ MeetsDayLine(e)
    BY <1>1, <2>2, <2>3, SessionFacts
  <2>5. "firm" \notin crossed /\ ~ MeetsFirmLine(e)
    BY <1>1, <2>2, <2>3, PropFacts
  <2>6. crossed = {}
    BY <1>1, <2>4, <2>5, GuardFacts
  <2>7. crossed' = crossed \cup {l \in {"day", "firm"} :
                                   \/ l = "day" /\ Reaches2(s) /\ MeetsDayLine(e)
                                   \/ l = "firm" /\ Reaches3(s) /\ MeetsFirmLine(e)}
    BY <2>1, DecideIs DEF e
  <2> QED
    BY <2>4, <2>5, <2>6, <2>7
<1>2. GuardIInv /\ [GuardNext]_guardVars => [\A s \in Symbols : Admits(s) => crossed' = {}]_guardVars
  BY <1>1
<1> QED
  BY <1>2, GuardInvariance, PTL DEF GuardSpec, RefusalsHold

\* What RoomBeforeLine says of the marks high and e, when e breaches p.
Falls(high, e, p) == Apart(LineBudget(p), high, e, SoftPct)

LEMMA BreachLeavesRoom ==
    ASSUME GuardIInv, NEW e \in Equities, last.cap # 0,
           prop.breached = "", Marked(e).breached # ""
    PROVE  Falls(Larger(peak, e), e, Marked(e))
<1> DEFINE p    == Marked(e)
           high == Larger(peak, e)
<1>1. /\ high \in Equities /\ ~ Used(p.start, high, DailyPct, SoftPct)
      /\ ~ Used(Base(p), high, TotalPct, SoftPct)
  BY MarkLeavesRoom, DailyUsedIs, TotalUsedIs
<1>2. /\ p \in PropType
      /\ \/ p.breached = "daily_loss_breached" /\ Used(p.start, e, DailyPct, 100)
         \/ p.breached = "max_drawdown_breached" /\ Used(Base(p), e, TotalPct, 100)
  BY MarkedFacts
<1> HIDE DEF p, high
<1>3. high \in Nat /\ e \in Nat \ {0} /\ SoftPct \in 1 .. 100
  BY <1>1, Constants
<1>4. ASSUME NEW x \in Equities \cup {0}, NEW pct \in 1 .. 100,
             ~ Used(x, high, pct, SoftPct), Used(x, e, pct, 100)
      PROVE  Apart(pct * x, high, e, SoftPct)
  <2>1. x # 0
    <3>1. ~ Used(0, e, pct, 100)
      BY ONLY <1>3, pct \in 1 .. 100, LineOfNothing
    <3> QED
      BY <1>4, <3>1
  <2>2. x \in Nat \ {0}
    BY <2>1, Constants
  <2> QED
    BY ONLY <1>3, ~ Used(x, high, pct, SoftPct), Used(x, e, pct, 100), <2>2,
            pct \in 1 .. 100, LineRoom
<1>5. p.start \in Equities \cup {0} /\ Base(p) \in Equities \cup {0}
  BY <1>2, Constants DEF PropType, Base
<1>6. p.breached = "daily_loss_breached" /\ Used(p.start, e, DailyPct, 100) => Falls(high, e, p)
  <2> SUFFICES ASSUME p.breached = "daily_loss_breached", Used(p.start, e, DailyPct, 100)
               PROVE  Falls(high, e, p)
    OBVIOUS
  <2>1. Apart(DailyPct * p.start, high, e, SoftPct)
    BY <1>1, <1>4, <1>5, Constants
  <2>2. LineBudget(p) = DailyPct * p.start
    BY DEF LineBudget
  <2> QED
    BY <2>1, <2>2 DEF Falls
<1>7. p.breached = "max_drawdown_breached" /\ Used(Base(p), e, TotalPct, 100) => Falls(high, e, p)
  <2> SUFFICES ASSUME p.breached = "max_drawdown_breached", Used(Base(p), e, TotalPct, 100)
               PROVE  Falls(high, e, p)
    OBVIOUS
  <2>1. Apart(TotalPct * Base(p), high, e, SoftPct)
    BY <1>1, <1>4, <1>5, Constants
  <2>2. LineBudget(p) = TotalPct * Base(p)
    BY DEF LineBudget
  <2> QED
    BY <2>1, <2>2 DEF Falls
<1>8. Falls(high, e, p)
  BY <1>2, <1>6, <1>7
<1> QED
  BY <1>8 DEF p, high

\* Between the highest mark since the last admission and the one that meets
\* the firm's line lies more than what our line keeps back of that budget, for
\* any percentages, flows and days (prop_rules.py:12).
THEOREM OurLineComesFirst == GuardSpec => RoomBeforeLine
<1>1. ASSUME GuardIInv, [GuardNext]_guardVars,
             prop.breached = "", prop'.breached # "", last.cap # 0
      PROVE  Falls(peak', MarkedAt, prop')
  <2>1. CASE Mark
    <3>1. /\ prop' = Marked(equity) /\ peak' = Larger(peak, equity) /\ UNCHANGED check
      BY <2>1 DEF Mark
    <3>2. MarkedAt = equity
      BY <3>1 DEF MarkedAt
    <3> QED
      BY <1>1, <3>1, <3>2, BreachLeavesRoom, GuardFacts
  <2>2. ASSUME NEW s \in Symbols, Decide(s)
        PROVE  Falls(peak', MarkedAt, prop')
    <3> DEFINE e == EquityOf(s)
    <3>1. /\ check[s].at = "asked"
          /\ check' = [check EXCEPT ![s] = IF Allowed(s) THEN AdmittedAs(s) ELSE Refused]
          /\ prop' = IF Reaches3(s) THEN Marked(e) ELSE prop
          /\ peak' = IF Allowed(s) THEN e ELSE IF Reaches3(s) THEN Larger(peak, e) ELSE peak
      BY <2>2, DecideIs
    <3>2. {t \in Symbols : check'[t] # check[t]} = {s}
      <4>1. check'[s].at # "asked"
        BY <1>1, <3>1, GuardFacts DEF AdmittedAs, Refused
      <4>2. \A t \in Symbols : t # s => check'[t] = check[t]
        BY <1>1, <3>1, GuardFacts
      <4>3. check'[s] # check[s]
        BY <3>1, <4>1
      <4> QED
        BY <4>2, <4>3
    <3>3. MarkedAt = e
      BY <3>2 DEF MarkedAt, EquityOf
    <3>4. e \in Equities
      BY <1>1, <3>1, DecideNumbers
    <3>5. Reaches3(s) /\ prop' = Marked(e)
      BY <1>1, <3>1
    <3>6. ~ Allowed(s)
      BY <1>1, <3>5 DEF Allowed, PropAllows
    <3> QED
      BY <1>1, <3>1, <3>3, <3>4, <3>5, <3>6, BreachLeavesRoom
  <2>3. ASSUME UNCHANGED prop
        PROVE  FALSE
    BY <1>1, <2>3
  <2>4. /\ \A t \in Symbols : Ask(t) \/ Fill(t) \/ End(t) \/ Ratchet(t) => UNCHANGED prop
        /\ \A e : Trade(e) => UNCHANGED prop
        /\ \A amount : Flow(amount) => UNCHANGED prop
        /\ ExternalFlow \/ StartSession \/ HalfDay \/ UNCHANGED guardVars => UNCHANGED prop
    BY DEF Ask, Fill, End, Ratchet, Trade, Flow, ExternalFlow, StartSession, HalfDay, guardVars
  <2> QED
    BY <1>1, <2>1, <2>2, <2>3, <2>4 DEF GuardNext
<1>2. GuardIInv /\ [GuardNext]_guardVars =>
        [(prop.breached = "" /\ prop'.breached # "" /\ last.cap # 0) =>
            Falls(peak', MarkedAt, prop')]_guardVars
  BY <1>1
<1> QED
  BY <1>2, GuardInvariance, PTL DEF GuardSpec, RoomBeforeLine, Falls, Apart

------------------------------------------------------------------------------
(* The sizes that ask to pass the guards.                                   *)

\* The entries a caller may ask for: a stop on either side or none, any range and
\* any edge; a lot is a whole number of units.
EntryType == [entry : Int, stop : Int, atr : Int, lot : Nat \ {0}, pWin : Int, payoff : Int]

LEMMA MinOfTwo ==
    ASSUME NEW x \in Int, NEW y \in Int
    PROVE  Min({x, y}) \in {x, y} /\ Min({x, y}) <= x /\ Min({x, y}) <= y
<1>1. \E z \in {x, y} : \A w \in {x, y} : z <= w
  OBVIOUS
<1> QED
  BY <1>1 DEF Min

LEMMA MinOfThree ==
    ASSUME NEW x \in Int, NEW y \in Int, NEW z \in Int
    PROVE  /\ Min({x, y, z}) \in {x, y, z}
           /\ Min({x, y, z}) <= x /\ Min({x, y, z}) <= y /\ Min({x, y, z}) <= z
<1>1. \E u \in {x, y, z} : \A w \in {x, y, z} : u <= w
  OBVIOUS
<1> QED
  BY <1>1 DEF Min

LEMMA MaxOfTwo ==
    ASSUME NEW x \in Int, NEW y \in Int
    PROVE  Max({x, y}) \in {x, y} /\ Max({x, y}) >= x /\ Max({x, y}) >= y
<1>1. \E z \in {x, y} : \A w \in {x, y} : z >= w
  OBVIOUS
<1> QED
  BY <1>1 DEF Max

LEMMA Products ==
    ASSUME NEW x \in Nat, NEW y \in Nat
    PROVE  x * y \in Nat /\ (x > 0 /\ y > 0 => x * y > 0)
OBVIOUS

LEMMA Scaled ==
    ASSUME NEW x \in Nat, NEW y \in Nat, NEW c \in Nat, x <= y
    PROVE  c * x <= c * y
OBVIOUS

LEMMA Unscaled ==
    ASSUME NEW x \in Int, NEW y \in Int, NEW c \in Nat \ {0}, c * x <= c * y
    PROVE  x <= y
<1> SUFFICES ASSUME x >= y + 1
             PROVE  FALSE
  OBVIOUS
<1>1. c * x >= c * (y + 1) /\ c * (y + 1) = c * y + c
  OBVIOUS
<1> QED
  BY <1>1

\* A number of lots that was rounded down fits what it was rounded from.
LEMMA RoundedFits ==
    ASSUME NEW x \in Nat, NEW y \in Nat \ {0}, NEW m \in Nat, m <= x \div y
    PROVE  y * m <= x
<1> DEFINE q == x \div y
<1>1. q \in Nat /\ y * q <= x
  OBVIOUS
<1> HIDE DEF q
<1>2. m <= q
  BY DEF q
<1>3. y * m <= y * q
  BY <1>1, <1>2
<1>4. y * m \in Nat /\ y * q \in Nat
  BY <1>1
<1> QED
  BY <1>1, <1>3, <1>4

LEMMA RoundedIsNat ==
    ASSUME NEW x \in Nat, NEW y \in Nat \ {0}
    PROVE  x \div y \in Nat
OBVIOUS

LEMMA WholeLotsDivide ==
    ASSUME NEW l \in Nat \ {0}, NEW m \in Nat
    PROVE  (l * m) % l = 0
OBVIOUS

LEMMA KellyFacts ==
    ASSUME NEW e \in EntryType
    PROVE  Kelly(e).num \in Nat /\ Kelly(e).den \in Nat \ {0} /\ Kelly(e).num <= Kelly(e).den
<1>1. e.payoff \in Int /\ e.pWin \in Int /\ KellyCap \in Nat /\ KellyCap <= 100
  BY FormulasAssumption DEF EntryType
<1> DEFINE full == e.pWin * e.payoff - 10 * (100 - e.pWin)
<1>2. CASE e.pWin = Absent \/ e.payoff = Absent
  BY <1>2 DEF Kelly
<1>3. CASE ~ (e.pWin = Absent \/ e.payoff = Absent) /\ (e.payoff <= 0 \/ full <= 0)
  BY <1>3 DEF Kelly
<1>4. CASE ~ (e.pWin = Absent \/ e.payoff = Absent) /\ ~ (e.payoff <= 0 \/ full <= 0)
  <2> DEFINE cap == KellyCap * e.payoff
  <2>1. Kelly(e) = [num |-> Min({full, cap}), den |-> 100 * e.payoff]
    BY <1>4 DEF Kelly
  <2>2. full \in Int /\ full > 0
    BY <1>1, <1>4
  <2>3. e.payoff \in Nat /\ e.payoff > 0
    BY <1>1, <1>4
  <2>4. cap \in Nat /\ cap <= 100 * e.payoff
    <3>1. e.payoff * KellyCap <= e.payoff * 100
      BY <1>1, <2>3, Scaled
    <3>2. cap \in Nat
      BY <1>1, <2>3, Products
    <3> QED
      BY <1>1, <2>3, <3>1, <3>2
  <2> HIDE DEF full, cap
  <2>5. Min({full, cap}) \in {full, cap} /\ Min({full, cap}) <= cap
    <3>1. full \in Int /\ cap \in Int
      BY <2>2, <2>4
    <3> QED
      BY ONLY <3>1, MinOfTwo
  <2>6. Min({full, cap}) \in Nat
    BY <2>2, <2>4, <2>5
  <2> QED
    BY <2>1, <2>3, <2>4, <2>5, <2>6
<1> QED
  BY <1>2, <1>3, <1>4

LEMMA HeadroomFacts ==
    ASSUME NEW var \in Int
    PROVE  Headroom(var) \in Nat /\ Headroom(var) <= MaxVar /\ MaxVar \in Nat /\ MaxVar > 0
<1>1. MaxVar \in Nat /\ MaxVar > 0
  BY FormulasAssumption
<1> DEFINE low == Min({MaxVar, MaxVar - var})
<1>2. low \in Int /\ low <= MaxVar
  BY <1>1, MinOfTwo
<1> HIDE DEF low
<1>3. Max({0, low}) \in {0, low} /\ Max({0, low}) >= 0
  BY <1>2, MaxOfTwo
<1> QED
  BY <1>1, <1>2, <1>3 DEF Headroom, low

\* A size that is not refused: whole lots, and no more than each bound has.
LEMMA SizeFacts ==
    ASSUME NEW e \in EntryType, NEW balance \in Nat, NEW var \in Int, NEW net
    PROVE  \/ SizeOf(e, balance, var, net) = 0
           \/ /\ e.entry > 0 /\ RiskPerUnit(e) \in Nat \ {0} /\ GapLoss(e) \in Nat \ {0}
              /\ \E m \in Nat : /\ SizeOf(e, balance, var, net) = e.lot * m
                                /\ m <= BaseLots(e, balance, var)
                                /\ m <= CapLots(e, balance, var) /\ m <= GapLots(e, balance)
<1>1. /\ e.entry \in Int /\ e.stop \in Int /\ e.atr \in Int /\ e.lot \in Nat /\ e.lot > 0
      /\ {MaxRiskPct, MaxPositionPct, MaxDailyLossPct, GapAtr} \subseteq Nat
  BY FormulasAssumption DEF EntryType
<1>2. CASE e.entry <= 0 \/ balance <= 0 \/ e.atr < 0 \/ e.lot <= 0 \/ e.entry = e.stop \/ ~ net
  BY <1>2 DEF SizeOf
<1>3. CASE ~ (e.entry <= 0 \/ balance <= 0 \/ e.atr < 0 \/ e.lot <= 0 \/ e.entry = e.stop \/ ~ net)
  <2>1. e.entry \in Nat \ {0} /\ e.atr \in Nat /\ e.lot \in Nat \ {0} /\ e.entry # e.stop
    BY <1>1, <1>3
  <2>2. RiskPerUnit(e) \in Nat \ {0}
    BY <1>1, <2>1 DEF RiskPerUnit
  <2>3. GapLoss(e) \in Nat \ {0}
    <3>1. GapAtr * e.atr \in Nat
      BY <1>1, <2>1, Products
    <3> QED
      BY <2>2, <3>1 DEF GapLoss
  <2>4. /\ Kelly(e).num \in Nat /\ Kelly(e).den \in Nat \ {0}
        /\ Headroom(var) \in Nat /\ MaxVar \in Nat \ {0}
    BY KellyFacts, HeadroomFacts
  <2>5. BaseLots(e, balance, var) \in Nat
    <3> DEFINE x == balance * MaxRiskPct * Kelly(e).num * Headroom(var)
               y == 100 * RiskPerUnit(e) * Kelly(e).den * MaxVar * e.lot
    <3>1. x \in Nat
      BY <1>1, <2>4, Products
    <3>2. y \in Nat \ {0}
      <4>1. 100 * RiskPerUnit(e) \in Nat \ {0}
        BY <2>2
      <4>2. 100 * RiskPerUnit(e) * Kelly(e).den \in Nat \ {0}
        BY <2>4, <4>1, Products
      <4>3. 100 * RiskPerUnit(e) * Kelly(e).den * MaxVar \in Nat \ {0}
        BY <2>4, <4>2, Products
      <4> QED
        BY <2>1, <4>3, Products
    <3> HIDE DEF x, y
    <3>3. x \div y \in Nat
      BY <3>1, <3>2, RoundedIsNat
    <3> QED
      BY <3>3 DEF BaseLots, x, y
  <2>6. CapLots(e, balance, var) \in Nat
    <3> DEFINE x == balance * MaxPositionPct * Headroom(var)
               y == 100 * e.entry * MaxVar * e.lot
    <3>1. x \in Nat
      BY <1>1, <2>4, Products
    <3>2. y \in Nat \ {0}
      <4>1. 100 * e.entry \in Nat \ {0}
        BY <2>1
      <4>2. 100 * e.entry * MaxVar \in Nat \ {0}
        BY <2>4, <4>1, Products
      <4> QED
        BY <2>1, <4>2, Products
    <3> HIDE DEF x, y
    <3>3. x \div y \in Nat
      BY <3>1, <3>2, RoundedIsNat
    <3> QED
      BY <3>3 DEF CapLots, x, y
  <2>7. GapLots(e, balance) \in Nat
    <3> DEFINE x == balance * MaxDailyLossPct
               y == 100 * GapLoss(e) * e.lot
    <3>1. x \in Nat
      BY <1>1, Products
    <3>2. y \in Nat \ {0}
      <4>1. 100 * GapLoss(e) \in Nat \ {0}
        BY <2>3
      <4> QED
        BY <2>1, <4>1, Products
    <3> HIDE DEF x, y
    <3>3. x \div y \in Nat
      BY <3>1, <3>2, RoundedIsNat
    <3> QED
      BY <3>3 DEF GapLots, x, y
  <2> DEFINE m == Min({BaseLots(e, balance, var), CapLots(e, balance, var), GapLots(e, balance)})
  <2>8. /\ m \in Nat /\ m <= BaseLots(e, balance, var)
        /\ m <= CapLots(e, balance, var) /\ m <= GapLots(e, balance)
    <3> DEFINE x == BaseLots(e, balance, var)
               y == CapLots(e, balance, var)
               z == GapLots(e, balance)
    <3>1. x \in Nat /\ y \in Nat /\ z \in Nat
      BY <2>5, <2>6, <2>7
    <3> HIDE DEF x, y, z
    <3>2. x \in Int /\ y \in Int /\ z \in Int
      BY <3>1
    <3>3. /\ Min({x, y, z}) \in {x, y, z}
          /\ Min({x, y, z}) <= x /\ Min({x, y, z}) <= y /\ Min({x, y, z}) <= z
      BY ONLY <3>2, MinOfThree
    <3> QED
      BY <3>1, <3>3 DEF x, y, z
  <2>9. SizeOf(e, balance, var, net) = e.lot * m
    BY <1>3 DEF SizeOf
  <2> HIDE DEF m
  <2> QED
    BY <2>1, <2>2, <2>3, <2>8, <2>9
<1> QED
  BY <1>2, <1>3

\* The loss at the stop keeps to the risk per trade ...
LEMMA RiskKept ==
    ASSUME NEW e \in EntryType, NEW balance \in Nat, NEW var \in Int, NEW m \in Nat,
           RiskPerUnit(e) \in Nat \ {0}, m <= BaseLots(e, balance, var)
    PROVE  100 * (e.lot * m) * RiskPerUnit(e) <= MaxRiskPct * balance
<1> DEFINE n == Kelly(e).num
           d == Kelly(e).den
           h == Headroom(var)
           r == RiskPerUnit(e)
           x == balance * MaxRiskPct * n * h
           y == 100 * r * d * MaxVar * e.lot
<1>1. /\ n \in Nat /\ d \in Nat \ {0} /\ n <= d
      /\ h \in Nat /\ h <= MaxVar /\ MaxVar \in Nat \ {0}
  BY KellyFacts, HeadroomFacts
<1>2. r \in Nat \ {0} /\ e.lot \in Nat \ {0} /\ MaxRiskPct \in Nat
  BY FormulasAssumption DEF EntryType
<1>3. m <= x \div y
  BY DEF BaseLots
<1> DEFINE l == e.lot
           v == MaxVar
           p == MaxRiskPct
<1> SUFFICES 100 * (l * m) * r <= p * balance
  OBVIOUS
<1> HIDE DEF n, d, h, r, l, v, p
<1>4. n \in Nat /\ d \in Nat \ {0} /\ n <= d /\ h \in Nat /\ h <= v /\ v \in Nat \ {0}
  BY <1>1 DEF v
<1>5. r \in Nat \ {0} /\ l \in Nat \ {0} /\ p \in Nat
  BY <1>2 DEF l, p
<1>6. x = balance * p * n * h /\ y = 100 * r * d * v * l
  BY DEF l, v, p
<1> HIDE DEF x, y
<1> DEFINE g == balance * p
           k == 100 * (l * m) * r
<1>7. g \in Nat /\ k \in Nat
  <2>1. g \in Nat
    BY <1>5, Products
  <2>2. l * m \in Nat
    BY <1>5, Products
  <2>3. 100 * (l * m) \in Nat
    BY <2>2
  <2> QED
    BY <1>5, <2>1, <2>3, Products
<1>8. x \in Nat /\ y \in Nat \ {0}
  <2>1. x = (g * n) * h
    BY <1>6
  <2>2. g * n \in Nat
    BY <1>4, <1>7, Products
  <2>3. x \in Nat
    BY <1>4, <2>1, <2>2, Products
  <2>4. 100 * r \in Nat \ {0}
    BY <1>5
  <2>5. 100 * r * d \in Nat \ {0}
    BY <1>4, <2>4, Products
  <2>6. 100 * r * d * v \in Nat \ {0}
    BY <1>4, <2>5, Products
  <2>7. 100 * r * d * v * l \in Nat \ {0}
    BY <1>5, <2>6, Products
  <2> QED
    BY <1>6, <2>3, <2>7
<1>9. y * m <= x
  BY <1>3, <1>8, RoundedFits
<1>10. x <= (d * v) * g
  <2>1. n * h <= d * v
    <3>1. n * h <= n * v
      BY <1>4, Scaled
    <3>2. v * n <= v * d
      BY <1>4, Scaled
    <3>3. n * h \in Nat /\ n * v \in Nat /\ d * v \in Nat
      BY <1>4, Products
    <3> QED
      BY <1>4, <3>1, <3>2, <3>3
  <2>2. n * h \in Nat /\ d * v \in Nat
    BY <1>4, Products
  <2>3. g * (n * h) <= g * (d * v)
    BY <1>7, <2>1, <2>2, Scaled
  <2>4. x = g * (n * h)
    BY <1>4, <1>6, <1>7
  <2>5. g * (d * v) = (d * v) * g
    BY <1>7, <2>2
  <2> QED
    BY <2>3, <2>4, <2>5
<1>11. y * m = (d * v) * k
  BY <1>4, <1>5, <1>6
<1>12. d * v \in Nat \ {0}
  BY <1>4, Products
<1>13. (d * v) * k <= (d * v) * g
  <2>1. (d * v) * k \in Int /\ (d * v) * g \in Int
    BY <1>7, <1>12
  <2> HIDE DEF k, g
  <2> QED
    BY <1>8, <1>9, <1>10, <1>11, <2>1
<1>14. k <= g
  <2> HIDE DEF k, g
  <2> DEFINE c == d * v
  <2>1. c \in Nat \ {0} /\ c * k <= c * g
    BY <1>12, <1>13
  <2> HIDE DEF c
  <2> QED
    BY <1>7, <2>1, Unscaled
<1> QED
  BY <1>5, <1>14

\* ... its value to the cap ...
LEMMA CapKept ==
    ASSUME NEW e \in EntryType, NEW balance \in Nat, NEW var \in Int, NEW m \in Nat,
           e.entry > 0, m <= CapLots(e, balance, var)
    PROVE  100 * (e.lot * m) * e.entry <= MaxPositionPct * balance
<1> DEFINE h == Headroom(var)
           x == balance * MaxPositionPct * h
           y == 100 * e.entry * MaxVar * e.lot
<1>1. h \in Nat /\ h <= MaxVar /\ MaxVar \in Nat \ {0}
  BY HeadroomFacts
<1>2. e.entry \in Nat \ {0} /\ e.lot \in Nat \ {0} /\ MaxPositionPct \in Nat
  BY FormulasAssumption DEF EntryType
<1>3. m <= x \div y
  BY DEF CapLots
<1> DEFINE a == e.entry
           l == e.lot
           v == MaxVar
           p == MaxPositionPct
<1> SUFFICES 100 * (l * m) * a <= p * balance
  OBVIOUS
<1> HIDE DEF h, a, l, v, p
<1>4. h \in Nat /\ h <= v /\ v \in Nat \ {0}
  BY <1>1 DEF v
<1>5. a \in Nat \ {0} /\ l \in Nat \ {0} /\ p \in Nat
  BY <1>2 DEF a, l, p
<1>6. x = balance * p * h /\ y = 100 * a * v * l
  BY DEF a, l, v, p
<1> HIDE DEF x, y
<1> DEFINE g == balance * p
           k == 100 * (l * m) * a
<1>7. g \in Nat /\ k \in Nat
  <2>1. g \in Nat
    BY <1>5, Products
  <2>2. l * m \in Nat
    BY <1>5, Products
  <2>3. 100 * (l * m) \in Nat
    BY <2>2
  <2> QED
    BY <1>5, <2>1, <2>3, Products
<1>8. x \in Nat /\ y \in Nat \ {0}
  <2>1. x \in Nat
    BY <1>4, <1>6, <1>7, Products
  <2>2. 100 * a \in Nat \ {0}
    BY <1>5
  <2>3. 100 * a * v \in Nat \ {0}
    BY <1>4, <2>2, Products
  <2> QED
    BY <1>5, <1>6, <2>1, <2>3, Products
<1>9. y * m <= x
  BY <1>3, <1>8, RoundedFits
<1>10. x <= v * g
  <2>1. g * h <= g * v
    BY <1>4, <1>7, Scaled
  <2> QED
    BY <1>4, <1>6, <1>7, <2>1
<1>11. y * m = v * k
  BY <1>4, <1>5, <1>6
<1>12. v * k <= v * g
  <2>1. v * k \in Int /\ v * g \in Int
    BY <1>4, <1>7
  <2> HIDE DEF k, g
  <2> QED
    BY <1>8, <1>9, <1>10, <1>11, <2>1
<1>13. k <= g
  <2> HIDE DEF k, g
  <2> QED
    BY <1>4, <1>7, <1>12, Unscaled
<1> QED
  BY <1>5, <1>13

\* ... and its loss over a gap to the budget of the day.
LEMMA GapKept ==
    ASSUME NEW e \in EntryType, NEW balance \in Nat, NEW m \in Nat,
           GapLoss(e) \in Nat \ {0}, m <= GapLots(e, balance)
    PROVE  100 * (e.lot * m) * GapLoss(e) <= MaxDailyLossPct * balance
<1> DEFINE a == GapLoss(e)
           x == balance * MaxDailyLossPct
           y == 100 * a * e.lot
<1>1. a \in Nat \ {0} /\ e.lot \in Nat \ {0} /\ MaxDailyLossPct \in Nat
  BY FormulasAssumption DEF EntryType
<1>2. m <= x \div y
  BY DEF GapLots
<1> HIDE DEF a
<1>3. x \in Nat /\ y \in Nat \ {0}
  <2>1. 100 * a \in Nat \ {0}
    BY <1>1
  <2> QED
    BY <1>1, <2>1, Products
<1>4. y * m <= x
  <2> HIDE DEF x, y
  <2> QED
    BY <1>2, <1>3, RoundedFits
<1>5. y * m = 100 * (e.lot * m) * a
  BY <1>1
<1> QED
  BY <1>1, <1>4, <1>5 DEF a

\* For every price, stop on either side, range, lot, edge, balance and cached VaR,
\* negative or absent ones included, and whatever the broker answers of its
\* margin: what route_order sends is made of whole lots, fits the margin that was
\* read, and keeps to the risk per trade, the cap of a position and the budget of
\* the day at once (position_sizer.py:72-110).
THEOREM SizesAlwaysKeepLimits ==
    ASSUME NEW leg, NEW e \in EntryType, NEW balance \in Nat,
           NEW cached \in Int, NEW available \in Int
    PROVE  SizeKeepsLimits(leg, e, balance, cached, available)
<1> DEFINE size == SizeOf(e, balance, cached, TRUE)
           qty  == Admitted(leg, e, balance, cached, available)
<1>1. /\ e.entry \in Int /\ e.lot \in Nat \ {0}
      /\ {MaxRiskPct, MaxPositionPct, MaxDailyLossPct, Buffer, FreeMargin} \subseteq Nat
  BY FormulasAssumption DEF EntryType
<1>2. CASE qty = 0
  <2>1. /\ 0 <= MaxRiskPct * balance /\ 0 <= MaxPositionPct * balance
        /\ 0 <= MaxDailyLossPct * balance
    BY <1>1, Products
  <2>2. RiskPerUnit(e) \in Int /\ GapLoss(e) \in Int
    BY FormulasAssumption DEF RiskPerUnit, GapLoss, EntryType
  <2>3. 0 % e.lot = 0
    BY <1>1
  <2> HIDE DEF qty
  <2>4. /\ 100 * qty * RiskPerUnit(e) = 0 /\ 100 * qty * e.entry = 0 /\ 100 * qty * GapLoss(e) = 0
    BY <1>1, <1>2, <2>2
  <2> QED
    BY <1>2, <2>1, <2>3, <2>4 DEF SizeKeepsLimits, qty
<1>3. CASE qty # 0
  <2>1. qty = size /\ size # 0 /\ VarAllows(cached)
    BY <1>3 DEF Admitted
  <2>2. IF leg = "india" THEN CheckIndia(size, e.entry, e.lot, available, size * e.entry)
                         ELSE CheckMt5(size, available, balance, size * e.entry)
    BY <1>3 DEF Admitted
  <2>3. /\ e.entry > 0 /\ RiskPerUnit(e) \in Nat \ {0} /\ GapLoss(e) \in Nat \ {0}
        /\ \E m \in Nat : /\ size = e.lot * m
                          /\ m <= BaseLots(e, balance, cached)
                          /\ m <= CapLots(e, balance, cached) /\ m <= GapLots(e, balance)
    BY <2>1, SizeFacts
  <2>4. PICK m \in Nat : /\ size = e.lot * m
                         /\ m <= BaseLots(e, balance, cached)
                         /\ m <= CapLots(e, balance, cached) /\ m <= GapLots(e, balance)
    BY <2>3
  <2>5. size \in Nat /\ size % e.lot = 0
    BY <1>1, <2>4, Products, WholeLotsDivide
  <2>6. /\ 100 * (e.lot * m) * RiskPerUnit(e) <= MaxRiskPct * balance
        /\ 100 * (e.lot * m) * e.entry <= MaxPositionPct * balance
        /\ 100 * (e.lot * m) * GapLoss(e) <= MaxDailyLossPct * balance
    BY <2>3, <2>4, RiskKept, CapKept, GapKept
  <2>7. cached # Absent /\ available # Absent
    BY <2>1, <2>2 DEF VarAllows, CheckIndia, CheckMt5
  <2> HIDE DEF size, qty
  <2> DEFINE value == size * e.entry
  <2>8. value \in Nat
    <3>1. e.entry \in Nat /\ size \in Nat
      BY <1>1, <2>3, <2>5
    <3> QED
      BY <3>1, Products
  <2>9. value <= available
    <3>1. CASE leg = "india"
      <4>1. 100 * available >= value * (100 + Buffer)
        BY <2>2, <3>1 DEF CheckIndia
      <4> HIDE DEF value
      <4>2. value * Buffer \in Nat
        BY <1>1, <2>8, Products
      <4>3. value * (100 + Buffer) = 100 * value + value * Buffer
        BY <1>1, <2>8
      <4> QED
        BY <2>8, <4>1, <4>2, <4>3
    <3>2. CASE leg # "india"
      <4>1. 100 * (available - value) >= FreeMargin * balance
        BY <2>2, <3>2 DEF CheckMt5
      <4> HIDE DEF value
      <4>2. FreeMargin * balance \in Nat
        BY <1>1, Products
      <4> QED
        BY <2>8, <4>1, <4>2
    <3> QED
      BY <3>1, <3>2
  <2> QED
    BY <2>1, <2>4, <2>5, <2>6, <2>7, <2>9 DEF SizeKeepsLimits, qty
<1> QED
  BY <1>2, <1>3

------------------------------------------------------------------------------
(* The slices of an order.                                                  *)

\* A sum of equal terms is their product.
LEMMA SumOfEquals ==
    ASSUME NEW S, IsFiniteSet(S), NEW x \in Nat
    PROVE  SumFunction([k \in S |-> x]) = Cardinality(S) * x
<1> DEFINE f == [k \in S |-> x]
<1>1. PICK a : /\ a \in [SUBSET S -> Nat] /\ SumFunction(f) = a[S]
               /\ \A s \in SUBSET S : One(a, f, s)
  BY SumFacts
<1> DEFINE G == {s \in SUBSET S : a[s] = Cardinality(s) * x}
<1>2. {} \in G
  <2>1. a[{}] = 0
    BY <1>1 DEF One
  <2>2. Cardinality({}) = 0
    BY FS_EmptySet
  <2>3. Cardinality({}) * x = 0
    BY <2>2
  <2> QED
    BY <2>1, <2>3
<1>3. ASSUME NEW s \in SUBSET S, s # {}, s \ {First(s)} \in G
      PROVE  s \in G
  <2> DEFINE t == s \ {First(s)}
  <2>1. First(s) \in s /\ First(s) \in S
    BY <1>3 DEF First
  <2>2. a[s] = x + a[t] /\ a[t] = Cardinality(t) * x
    BY <1>1, <1>3, <2>1 DEF One
  <2>3. IsFiniteSet(s)
    BY FS_Subset
  <2>4. Cardinality(s) \in Nat \ {0} /\ Cardinality(t) = Cardinality(s) - 1
    BY <1>3, <2>1, <2>3, FS_EmptySet, FS_RemoveElement, FS_CardinalityType
  <2>5. \A c \in Nat \ {0} : x + (c - 1) * x = c * x
    OBVIOUS
  <2> QED
    BY <2>2, <2>4, <2>5
<1>4. SUBSET S \subseteq G
  <2> HIDE DEF G
  <2> QED
    BY <1>2, <1>3, SubsetsOneByOne
<1> QED
  BY <1>1, <1>4

LEMMA LotsTakenOff ==
    ASSUME NEW l \in Nat \ {0}, NEW m \in Nat, NEW q \in Nat, l * m <= q
    PROVE  /\ (q - l * m) \div l = q \div l - m
           /\ WholeLots(q - l * m, l) = WholeLots(q, l) - l * m
           /\ WholeLots(q - l * m, l) \in Nat /\ WholeLots(q - l * m, l) % l = 0
<1> DEFINE d == q \div l
<1>1. d \in Nat /\ l * d <= q /\ q < l * (d + 1)
  OBVIOUS
<1>2. q - l * m \in Nat
  OBVIOUS
<1>3. l * (d - m) <= q - l * m /\ q - l * m < l * (d - m + 1)
  BY <1>1
<1>4. d - m \in Nat
  <2>1. CASE m <= d
    BY <1>1, <2>1
  <2>2. CASE d + 1 <= m
    <3>1. l * (d + 1) <= l * m
      BY <1>1, <2>2, Scaled
    <3> QED
      BY <1>1, <3>1
  <2> QED
    BY <1>1, <2>1, <2>2
<1>5. (q - l * m) \div l = d - m
  BY <1>2, <1>3, <1>4
<1>6. (d - m) * l = d * l - l * m
  BY <1>1
<1>7. (d - m) * l \in Nat /\ ((d - m) * l) % l = 0
  BY <1>4, Products, WholeLotsDivide
<1> QED
  BY <1>5, <1>6, <1>7 DEF WholeLots

LEMMA ChildFacts ==
    ASSUME NEW qty \in Nat, NEW volume \in Nat, NEW lot \in Nat \ {0}
    PROVE  /\ MaxChild(volume, lot) \in Nat \ {0}
           /\ Children(qty, volume, lot) \in 1 .. MaxSlices
<1> DEFINE child  == MaxChild(volume, lot)
           wanted == (qty + child - 1) \div child
<1>1. Participation \in Nat /\ MaxSlices \in Nat \ {0}
  BY FormulasAssumption
<1>2. ((volume * Participation) \div (100 * lot)) * lot \in Int
  <2>1. volume * Participation \in Nat /\ 100 * lot \in Nat \ {0}
    BY <1>1, Products
  <2>2. (volume * Participation) \div (100 * lot) \in Nat
    BY <2>1
  <2> QED
    BY <2>2, Products
<1>3. child \in Nat \ {0}
  <2> DEFINE most == ((volume * Participation) \div (100 * lot)) * lot
  <2>1. child = Max({lot, most}) /\ most \in Int
    BY <1>2 DEF MaxChild
  <2> HIDE DEF child, most
  <2>2. Max({lot, most}) \in {lot, most} /\ Max({lot, most}) >= lot
    BY <2>1, MaxOfTwo
  <2> QED
    BY <2>1, <2>2
<1> HIDE DEF child
<1>4. wanted \in Int
  BY <1>3
<1> HIDE DEF wanted
<1> DEFINE most == Max({1, wanted})
<1>5. most \in Int /\ most >= 1
  BY <1>4, MaxOfTwo
<1> HIDE DEF most
<1>6. Min({MaxSlices, most}) \in 1 .. MaxSlices
  BY <1>1, <1>5, MinOfTwo
<1> QED
  BY <1>3, <1>6 DEF Children, child, wanted, most

LEMMA SliceFacts ==
    ASSUME NEW qty \in Nat, NEW n \in Nat \ {0}, NEW lot \in Nat \ {0}
    PROVE  LET b    == (qty \div n) \div lot
               end == LastSlice(qty, n, b * lot, lot)
           IN  /\ b \in Nat /\ b * lot \in Nat /\ (b * lot) % lot = 0
               /\ end \in Nat /\ end >= b * lot /\ end % lot = 0
               /\ n * (b * lot) + end - b * lot = WholeLots(qty, lot)
<1> DEFINE share == qty \div n
           b     == share \div lot
           base  == b * lot
           m     == b * n
           end  == LastSlice(qty, n, base, lot)
<1>1. share \in Nat /\ share * n <= qty
  <2>1. share \in Nat /\ n * share <= qty
    OBVIOUS
  <2> QED
    BY <2>1
<1> HIDE DEF share
<1>2. b \in Nat /\ base \in Nat /\ base <= share /\ base = lot * b
  <2>1. b \in Nat /\ lot * b <= share
    BY <1>1
  <2>2. lot * b \in Nat
    BY <2>1, Products
  <2> QED
    BY <2>1, <2>2
<1> HIDE DEF b
<1>3. m \in Nat /\ base * n = lot * m
  BY <1>2, Products
<1>4. base * n <= qty
  <2>1. n * base <= n * share
    BY <1>1, <1>2, Scaled
  <2>2. n * base = base * n /\ n * share = share * n
    BY <1>1, <1>2
  <2>3. base * n \in Int /\ share * n \in Int
    BY <1>1, <1>2
  <2> QED
    BY <1>1, <2>1, <2>2, <2>3
<1> HIDE DEF m
<1>5. /\ WholeLots(qty - base * n, lot) = WholeLots(qty, lot) - base * n
      /\ WholeLots(qty - base * n, lot) \in Nat /\ WholeLots(qty - base * n, lot) % lot = 0
  <2> HIDE DEF base
  <2>1. lot * m <= qty
    BY <1>3, <1>4
  <2> QED
    <3>1. /\ WholeLots(qty - lot * m, lot) = WholeLots(qty, lot) - lot * m
          /\ WholeLots(qty - lot * m, lot) \in Nat /\ WholeLots(qty - lot * m, lot) % lot = 0
      BY <1>3, <2>1, LotsTakenOff
    <3>2. base * n = lot * m
      BY <1>3
    <3> QED
      BY <3>1, <3>2, Zenon
<1>6. WholeLots(qty, lot) \in Nat /\ base * n \in Nat /\ n * base = base * n
  <2>1. qty \div lot \in Nat
    OBVIOUS
  <2> QED
    BY <1>2, <2>1, Products DEF WholeLots
<1> DEFINE rest == WholeLots(qty - base * n, lot)
           p    == base * n
<1>7. PICK r \in Nat : rest = lot * r
  BY <1>5
<1>8. end = base + rest
  BY DEF LastSlice
<1>9. end = lot * (b + r)
  BY <1>2, <1>7, <1>8
<1>10. end % lot = 0 /\ base % lot = 0
  BY <1>2, <1>9, WholeLotsDivide
<1>11. n * base + end - base = WholeLots(qty, lot)
  <2> HIDE DEF base, end
  <2> DEFINE w == WholeLots(qty, lot)
  <2>1. rest = w - p /\ n * base = p /\ p \in Nat /\ w \in Nat /\ rest \in Nat /\ base \in Nat
    BY <1>2, <1>5, <1>6
  <2> HIDE DEF rest, p, w
  <2>2. n * base + end - base = w
    BY <1>8, <2>1
  <2> QED
    BY <2>2 DEF w
<1>12. end \in Nat /\ end >= base
  BY <1>2, <1>5, <1>8
<1> QED
  BY <1>2, <1>10, <1>11, <1>12 DEF b, share

\* What is sent of an order in slices, over how many intervals it may be: slices
\* of whole lots, no more than MaxSlices of them, and together all the whole
\* lots there are in the order (order_slicer.py:36-52).
THEOREM SlicesAlwaysAddUp ==
    ASSUME NEW qty \in Nat, NEW volume \in Nat \ {0}, NEW lot \in Nat \ {0}
    PROVE  SlicesAddUp(qty, volume, lot)
<1> DEFINE n     == Children(qty, volume, lot)
           b     == (qty \div n) \div lot
           base  == b * lot
           end  == LastSlice(qty, n, base, lot)
           whole == WholeLots(qty, lot)
           plan  == [k \in 1 .. n |-> IF k < n THEN base ELSE end]
<1>1. n \in Nat \ {0} /\ n <= MaxSlices /\ MaxSlices \in Nat \ {0}
  <2>1. MaxSlices \in Nat \ {0}
    BY FormulasAssumption
  <2>2. n \in 1 .. MaxSlices
    BY ChildFacts
  <2> HIDE DEF n
  <2> QED
    BY <2>1, <2>2
<1> HIDE DEF n
<1>2. /\ b \in Nat /\ base \in Nat /\ base % lot = 0
      /\ end \in Nat /\ end >= base /\ end % lot = 0
      /\ n * base + end - base = whole
  BY <1>1, SliceFacts
<1>3. whole \in Nat /\ whole % lot = 0
  <2>1. qty \div lot \in Nat /\ whole = lot * (qty \div lot)
    BY DEF WholeLots
  <2> QED
    BY <2>1, Products, WholeLotsDivide
<1> HIDE DEF b, base, end, whole
<1>4. CASE qty > 0 /\ base > 0
  <2>1. PlanSlices(qty, volume, lot) = plan
    BY <1>4 DEF PlanSlices, n, b, base, end
  <2>2. plan \in Seq(Nat) /\ Len(plan) = n /\ DOMAIN plan = 1 .. n
    BY <1>1, <1>2
  <2>3. \A k \in 1 .. n : plan[k] > 0 /\ plan[k] % lot = 0
    <3>1. base > 0 /\ base % lot = 0 /\ end > 0 /\ end % lot = 0
      BY <1>2, <1>4
    <3>2. \A k \in 1 .. n : plan[k] \in {base, end}
      OBVIOUS
    <3> QED
      BY <3>1, <3>2
  <2>4. SumFunction(plan) = whole
    <3> DEFINE even == [k \in 1 .. n |-> base]
    <3>1. IsFiniteSet(1 .. n) /\ Cardinality(1 .. n) = n
      BY <1>1, FS_Interval
    <3>2. SumFunction(even) = n * base
      BY <1>2, <3>1, SumOfEquals
    <3>3. /\ even \in [1 .. n -> Nat] /\ plan \in [1 .. n -> Nat] /\ n \in 1 .. n
          /\ \A k \in 1 .. n : k # n => plan[k] = even[k]
      BY <1>1, <1>2
    <3>4. plan[n] = end /\ even[n] = base
      BY <1>1
    <3> HIDE DEF plan, even
    <3>5. SumFunction(plan) = SumFunction(even) + plan[n] - even[n]
      BY <3>1, <3>3, SumMoves
    <3> QED
      BY <1>2, <3>2, <3>4, <3>5
  <2> QED
    BY <1>1, <2>1, <2>2, <2>3, <2>4 DEF SlicesAddUp, whole
<1>5. CASE (qty = 0 \/ base = 0) /\ whole > 0
  <2>1. qty > 0
    BY <1>5 DEF whole, WholeLots
  <2>2. PlanSlices(qty, volume, lot) = <<whole>>
    BY <1>5, <2>1 DEF PlanSlices, n, b, base, whole
  <2>3. SumFunction(<<whole>>) = whole
    <3>1. <<whole>> = [k \in 1 .. 1 |-> whole]
      OBVIOUS
    <3>2. IsFiniteSet(1 .. 1) /\ Cardinality(1 .. 1) = 1
      <4>1. 1 .. 1 = {1}
        OBVIOUS
      <4>2. IsFiniteSet({1}) /\ Cardinality({1}) = 1
        BY FS_Singleton, Zenon
      <4> QED
        BY <4>1, <4>2
    <3>3. SumFunction([k \in 1 .. 1 |-> whole]) = 1 * whole
      BY <1>3, <3>2, SumOfEquals
    <3> QED
      BY <1>3, <3>1, <3>3
  <2> QED
    BY <1>1, <1>3, <1>5, <2>2, <2>3 DEF SlicesAddUp, whole
<1>6. CASE (qty = 0 \/ base = 0) /\ whole = 0
  <2>1. PlanSlices(qty, volume, lot) = <<>>
    BY <1>6 DEF PlanSlices, n, b, base, whole
  <2>2. SumFunction(<<>>) = 0
    <3>1. <<>> = [k \in {} |-> 0] /\ IsFiniteSet({})
      BY FS_EmptySet
    <3> QED
      BY <3>1, SumOfNothing
  <2> QED
    BY <1>1, <1>6, <2>1, <2>2 DEF SlicesAddUp, whole
<1> QED
  BY <1>2, <1>3, <1>4, <1>5, <1>6

\* What the run looks at on a grid is an instance of both.
THEOREM GridKeepsLimits == SizesKeepLimits
<1>1. ASSUME NEW e \in Entries, NEW balance \in {50, 1000, 3333},
             NEW cached \in -3 .. MaxVar + 1 \cup {Absent},
             NEW leg \in {"india", "mt5_forex"}, NEW share \in {Absent, 25, 100}
      PROVE  SizeKeepsLimits(leg, e, balance, cached,
                             IF share = Absent THEN Absent ELSE (balance * share) \div 100)
  <2> DEFINE available == IF share = Absent THEN Absent ELSE (balance * share) \div 100
  <2>1. Absent \in Int /\ MaxVar \in Int
    BY FormulasAssumption DEF Absent
  <2>2. e \in EntryType
    BY <2>1 DEF Entries, Edges, EntryType
  <2>3. cached \in Int /\ available \in Int /\ balance \in Nat
    BY <2>1
  <2> HIDE DEF available
  <2>4. SizeKeepsLimits(leg, e, balance, cached, available)
    BY <2>2, <2>3, SizesAlwaysKeepLimits
  <2> QED
    BY <2>4 DEF available
<1>2. ASSUME NEW qty \in 1 .. 60, NEW volume \in {1, 40, 200}, NEW lot \in {1, 3, 7}
      PROVE  SlicesAddUp(qty, volume, lot)
  BY SlicesAlwaysAddUp
<1> QED
  BY <1>1, <1>2 DEF SizesKeepLimits
==============================================================================
