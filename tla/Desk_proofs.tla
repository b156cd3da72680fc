----------------------------- MODULE Desk_proofs -----------------------------
(***************************************************************************)
(* Proofs about Desk: for any universe, legs, registry and number of       *)
(* entries. What covers the lots is that on the mt5 leg all of a symbol    *)
(* are of one side while nothing went astray on it (LotAt): the stops and  *)
(* the closes, which look at the net position, then take the lot they are  *)
(* for. What makes the ledger balance is that a sleeve only ever gets to a *)
(* symbol without a claim, or with one that outlived an exit that raised,  *)
(* although the operator may enter it while the sleeve awaits its route    *)
(* (EngineStands), and that any other claim lasts no longer than a         *)
(* position (CreditAt).                                                    *)
(*                                                                         *)
(* The second part is about the signals the sleeves follow: each is the    *)
(* same on two histories that agree before the current bar.                *)
(*                                                                         *)
(* The third is about the paper broker: what it says it is worth is what   *)
(* its fills are worth (Money), through any sequence of calls. A fold over *)
(* them is followed by its greatest position (Positions, FoldStays).       *)
(***************************************************************************)
EXTENDS MCDesk, FiniteSetTheorems, SequenceTheorems, WellFoundedInduction, TLAPS

\* What there is of a symbol at the broker: while nothing went astray on it, every
\* lot has its stop, the one of the book's position closes its side, and on the
\* mt5 leg all lots are of one side.
LotAt(s) ==
    /\ IsOpen(s) => pos[s].side \in Sides
    /\ ~ IsOpen(s) => pos[s].stop = 0
    /\ s \notin astray =>
         /\ held[s] = (orphans[s][1] - orphans[s][-1]) + pos[s].stop
         /\ pos[s].stop \in {0, pos[s].side}
         /\ LegOf[s] = "mt5" => \/ orphans[s][1] = 0 /\ pos[s].stop <= 0
                                \/ orphans[s][-1] = 0 /\ pos[s].stop >= 0

PosTypes == pos \in [Symbols -> [open : BOOLEAN, side : Sides \cup {0}, stop : Sides \cup {0},
                                 opener : Sleeves \cup {Manual}]]
LotTypes ==
    /\ held \in [Symbols -> Int] /\ orphans \in [Symbols -> [Sides -> Nat]]
    /\ astray \subseteq Symbols
LotsHold == PosTypes /\ LotTypes /\ \A s \in Symbols : LotAt(s)

\* Who is credited on a symbol: unless its claim is stale, it lasts no longer than
\* the position.
CreditAt(s) ==
    /\ s \notin parted \cup stale => sleeveOf[s] = IF IsOpen(s) THEN pos[s].opener ELSE Manual
    /\ s \notin stale /\ sleeveOf[s] # Manual => IsOpen(s)

CreditTypes ==
    /\ sleeveOf \in [Symbols -> Sleeves \cup {Manual}]
    /\ parted \subseteq Symbols /\ stale \subseteq Symbols
CreditsHold == CreditTypes /\ \A s \in Symbols : CreditAt(s)

\* The ledger: a sleeve that is on has had no entry since it was last off.
Ledger == [enabled : BOOLEAN, entries : Nat, closed : Nat, late : Nat, lost : Nat]

EnabledOnTime == \A name \in Sleeves : sleeve[name].enabled => sleeve[name].late = 0

LedgerHolds == sleeve \in [Sleeves -> Ledger] /\ EnabledOnTime /\ LedgerBalances

\* A symbol the engine looks for an entry on is unclaimed, or its claim is stale,
\* and the sleeve it routes for has not had an entry since it was last off.
Free(s) == sleeveOf[s] = Manual \/ s \in stale

EngineStands ==
    /\ engine.at \in {"signals", "routing"} => engine.i \in DOMAIN Universe /\ Free(Symbol)
    /\ engine.at = "routing" =>
         /\ engine.k \in DOMAIN Registry /\ engine.side \in Sides
         /\ sleeve[Name].late = 0

TicketStands == ticket.at = "routing" => ticket.side \in Sides

\* There is room for the entry that each of the two callers is routing.
Routing(at) == IF at = "routing" THEN 1 ELSE 0
EntriesBounded == entries + Routing(engine.at) + Routing(ticket.at) <= MaxEntries + 1

ActorTypes ==
    /\ fresh \subseteq Symbols
    /\ engine \in [at : {"feed", "dead", "scan", "signals", "routing"}, i : 1 .. Len(Universe) + 1,
                   k : 1 .. Len(Registry) + 1, side : Sides \cup {0}]
    /\ ticket \in [at : {"idle", "routing"}, sym : Symbols, side : Sides \cup {0}]
    /\ entries \in 0 .. MaxEntries + 1
ActorsHold == ActorTypes /\ EngineStands /\ TicketStands /\ EntriesBounded

DeskIInv == LotsHold /\ CreditsHold /\ LedgerHolds /\ ActorsHold

------------------------------------------------------------------------------
(* The symbols a sleeve has claimed, and how many they are.                 *)

LEMMA Names ==
    /\ \A i \in DOMAIN Universe : Universe[i] \in Symbols
    /\ \A k \in DOMAIN Registry : Registry[k] \in Sleeves
    /\ Manual \notin Sleeves /\ MaxEntries \in Nat
    /\ DOMAIN Universe = 1 .. Len(Universe) /\ Len(Universe) \in Nat /\ Len(Universe) > 0
    /\ DOMAIN Registry = 1 .. Len(Registry) /\ Len(Registry) \in Nat
    /\ Universe[1] \in Symbols
BY DeskAssumption DEF Symbols, Sleeves

LEMMA SymbolsFinite == IsFiniteSet(Symbols)
<1>1. Universe \in Surjection(1 .. Len(Universe), Symbols)
  <2>1. Universe \in [1 .. Len(Universe) -> Symbols]
    BY Names, DeskAssumption
  <2> QED
    BY <2>1, Names DEF Surjection, Symbols
<1>2. IsFiniteSet(1 .. Len(Universe))
  BY Names, FS_Interval
<1> QED
  BY <1>1, <1>2, FS_Surjection

\* The symbols that are of a name, and whether one is.
Claimed(of, name) == {s \in Symbols : of[s] = name}
Is(who, name) == IF who = name THEN 1 ELSE 0

\* A symbol that passes from one to another leaves the claims of the one and
\* joins those of the other.
LEMMA ClaimsMove ==
    ASSUME NEW of, NEW now, NEW sym \in Symbols, NEW name,
           \A s \in Symbols : s # sym => now[s] = of[s]
    PROVE  /\ Cardinality(Claimed(of, name)) \in Nat /\ Cardinality(Claimed(now, name)) \in Nat
           /\ Cardinality(Claimed(now, name)) + Is(of[sym], name)
                = Cardinality(Claimed(of, name)) + Is(now[sym], name)
<1> DEFINE rest == {s \in Symbols \ {sym} : of[s] = name}
<1>1. IsFiniteSet(rest) /\ Cardinality(rest) \in Nat /\ sym \notin rest
  <2>1. rest \in SUBSET Symbols
    OBVIOUS
  <2>2. IsFiniteSet(rest)
    BY <2>1, SymbolsFinite, FS_Subset
  <2> QED
    BY <2>2, FS_CardinalityType
<1>2. ASSUME NEW f, \A s \in Symbols : s # sym => f[s] = of[s]
      PROVE  Cardinality(Claimed(f, name)) = Cardinality(rest) + Is(f[sym], name)
  <2>1. CASE f[sym] = name
    <3>1. Claimed(f, name) = rest \cup {sym}
      BY <1>2, <2>1 DEF Claimed
    <3>2. Cardinality(rest \cup {sym}) = Cardinality(rest) + 1
      BY <1>1, FS_AddElement
    <3> QED
      BY <2>1, <3>1, <3>2 DEF Is
  <2>2. CASE f[sym] # name
    <3>1. Claimed(f, name) = rest
      BY <1>2, <2>2 DEF Claimed
    <3> QED
      BY <1>1, <2>2, <3>1 DEF Is
  <2> QED
    BY <2>1, <2>2
<1> HIDE DEF rest
<1>3. Cardinality(Claimed(of, name)) = Cardinality(rest) + Is(of[sym], name)
  BY <1>2
<1>4. Cardinality(Claimed(now, name)) = Cardinality(rest) + Is(now[sym], name)
  BY <1>2
<1>5. Is(of[sym], name) \in Nat /\ Is(now[sym], name) \in Nat
  BY DEF Is
<1> HIDE DEF Is
<1> QED
  BY <1>1, <1>3, <1>4, <1>5

------------------------------------------------------------------------------
(* Lots.                                                                    *)

\* What the types say of one symbol.
LEMMA LotFacts ==
    ASSUME LotsHold, NEW s \in Symbols
    PROVE  /\ held[s] \in Int /\ orphans[s] \in [Sides -> Nat]
           /\ orphans[s][1] \in Nat /\ orphans[s][-1] \in Nat
           /\ pos[s].side \in {-1, 0, 1} /\ pos[s].stop \in {-1, 0, 1} /\ pos[s].open \in BOOLEAN
           /\ LotAt(s)
BY DEF LotsHold, PosTypes, LotTypes, Sides

LEMMA LotsMove ==
    ASSUME LotsHold, NEW sym \in Symbols, PosTypes', LotTypes',
           \A s \in Symbols : s # sym => /\ pos'[s] = pos[s] /\ held'[s] = held[s]
                                         /\ orphans'[s] = orphans[s]
                                         /\ s \in astray' <=> s \in astray,
           LotAt(sym)'
    PROVE  LotsHold'
<1> SUFFICES ASSUME NEW s \in Symbols, s # sym
             PROVE  LotAt(s)'
  BY DEF LotsHold
<1>1. LotAt(s)
  BY DEF LotsHold
<1> QED
  BY <1>1 DEF LotAt, IsOpen

LEMMA SameLots ==
    ASSUME LotsHold, UNCHANGED <<pos, held, orphans, astray>>
    PROVE  LotsHold'
BY DEF LotsHold, PosTypes, LotTypes, LotAt, IsOpen

\* One lot in or out of an order list of a symbol.
LEMMA OrphansMove ==
    ASSUME NEW of \in [Symbols -> [Sides -> Nat]], NEW sym \in Symbols, NEW side \in Sides,
           NEW n \in Int, of[sym][side] + n \in Nat
    PROVE  LET now == [of EXCEPT ![sym][side] = @ + n]
           IN  /\ now \in [Symbols -> [Sides -> Nat]]
               /\ now[sym][side] = of[sym][side] + n
               /\ \A d \in Sides : d # side => now[sym][d] = of[sym][d]
               /\ \A s \in Symbols : s # sym => now[s] = of[s]
<1> DEFINE now == [of EXCEPT ![sym][side] = @ + n]
<1>2. /\ now[sym] = [of[sym] EXCEPT ![side] = @ + n]
      /\ \A s \in Symbols : s # sym => now[s] = of[s]
      /\ of[sym] \in [Sides -> Nat]
  OBVIOUS
<1>3. now[sym] \in [Sides -> Nat]
  BY <1>2
<1>4. now \in [Symbols -> [Sides -> Nat]]
  BY <1>2, <1>3
<1>5. now[sym][side] = of[sym][side] + n /\ \A d \in Sides : d # side => now[sym][d] = of[sym][d]
  BY <1>2
<1> QED
  BY <1>2, <1>4, <1>5

\* The stop the book forgets joins the orphans.
LEMMA StopLeft ==
    ASSUME LotsHold, NEW sym \in Symbols
    PROVE  /\ LeftResting(sym) \in [Symbols -> [Sides -> Nat]]
           /\ pos[sym].stop = 1 => /\ LeftResting(sym)[sym][1] = orphans[sym][1] + 1
                                   /\ LeftResting(sym)[sym][-1] = orphans[sym][-1]
           /\ pos[sym].stop = -1 => /\ LeftResting(sym)[sym][1] = orphans[sym][1]
                                    /\ LeftResting(sym)[sym][-1] = orphans[sym][-1] + 1
           /\ pos[sym].stop = 0 => LeftResting(sym) = orphans
           /\ \A s \in Symbols : s # sym => LeftResting(sym)[s] = orphans[s]
<1>1. orphans \in [Symbols -> [Sides -> Nat]] /\ pos[sym].stop \in {-1, 0, 1}
      /\ orphans[sym] \in [Sides -> Nat]
  BY LotFacts DEF LotsHold, LotTypes
<1>2. CASE pos[sym].stop = 0
  BY <1>1, <1>2 DEF LeftResting
<1>3. CASE pos[sym].stop # 0
  <2>1. PICK side : side = pos[sym].stop
    OBVIOUS
  <2>2. side \in Sides /\ orphans[sym][side] + 1 \in Nat /\ (side = 1 \/ side = -1) /\ 1 \in Int
    BY <1>1, <1>3, <2>1 DEF Sides
  <2>3. LeftResting(sym) = [orphans EXCEPT ![sym][side] = @ + 1]
    BY <1>3, <2>1 DEF LeftResting
  <2>4. PICK now : now = [orphans EXCEPT ![sym][side] = @ + 1]
    OBVIOUS
  <2>5. /\ now \in [Symbols -> [Sides -> Nat]]
        /\ now[sym][side] = orphans[sym][side] + 1
        /\ \A d \in Sides : d # side => now[sym][d] = orphans[sym][d]
        /\ \A s \in Symbols : s # sym => now[s] = orphans[s]
    BY ONLY <1>1, <2>2, <2>4, OrphansMove, sym \in Symbols
  <2>6. 1 \in Sides /\ -1 \in Sides
    BY DEF Sides
  <2>7. LeftResting(sym) = now
    BY <2>3, <2>4
  <2>8. CASE side = 1
    BY <2>1, <2>5, <2>6, <2>7, <2>8
  <2>9. CASE side = -1
    BY <2>1, <2>5, <2>6, <2>7, <2>9
  <2> QED
    BY <2>2, <2>8, <2>9
<1> QED
  BY <1>1, <1>2, <1>3

\* Lots of one side are of the side of their sum.
LEMMA OneSided ==
    ASSUME NEW net \in Int, NEW a \in Nat, NEW b \in Nat, NEW stop \in {-1, 0, 1},
           net = (a - b) + stop, (a = 0 /\ stop <= 0) \/ (b = 0 /\ stop >= 0)
    PROVE  /\ net >= 0 => b = 0 /\ stop >= 0
           /\ net <= 0 => a = 0 /\ stop <= 0
OBVIOUS

LEMMA EnterLots ==
    ASSUME LotsHold, NEW sym \in Symbols, NEW side \in Sides,
           NEW who \in Sleeves \cup {Manual}, Enter(sym, side, who)
    PROVE  LotsHold'
<1> DEFINE stop == Closes(sym, side, held[sym] + side)
<1>1. side \in {-1, 1} /\ stop \in Sides /\ stop \in {-1, 1}
  BY DEF Closes, NetSide, Sides
<1>2. /\ pos' = [pos EXCEPT ![sym] = [open |-> TRUE, side |-> side, opener |-> who, stop |-> stop]]
      /\ held' = [held EXCEPT ![sym] = @ + side] /\ orphans' = LeftResting(sym)
      /\ astray' = IF LegOf[sym] = "mt5" /\ held[sym] * side < 0 THEN astray \cup {sym} ELSE astray
  BY DEF Enter
<1> HIDE DEF stop
<1>3. /\ pos'[sym].open = TRUE /\ pos'[sym].side = side /\ pos'[sym].stop = stop
      /\ \A s \in Symbols : s # sym => pos'[s] = pos[s]
      /\ PosTypes'
  BY <1>1, <1>2 DEF LotsHold, PosTypes
<1>4. /\ held'[sym] = held[sym] + side /\ held[sym] \in Int
      /\ \A s \in Symbols : s # sym => held'[s] = held[s]
      /\ held' \in [Symbols -> Int]
  BY <1>1, <1>2 DEF LotsHold, LotTypes
<1>5. LotTypes'
  BY <1>2, <1>4, StopLeft DEF LotsHold, LotTypes
<1>6. \A s \in Symbols : s # sym => (s \in astray' <=> s \in astray)
  BY <1>2
<1>7. \A s \in Symbols : s # sym => orphans'[s] = orphans[s]
  BY <1>2, StopLeft
<1>8. LotAt(sym)'
  <2> SUFFICES ASSUME sym \notin astray'
               PROVE  /\ held'[sym] = (orphans'[sym][1] - orphans'[sym][-1]) + stop
                      /\ stop = side
                      /\ LegOf[sym] = "mt5" => \/ orphans'[sym][1] = 0 /\ stop <= 0
                                               \/ orphans'[sym][-1] = 0 /\ stop >= 0
    BY <1>1, <1>3 DEF LotAt, IsOpen, Sides
  <2>1. sym \notin astray /\ ~ (LegOf[sym] = "mt5" /\ held[sym] * side < 0)
    BY <1>2
  <2>2. /\ held[sym] = (orphans[sym][1] - orphans[sym][-1]) + pos[sym].stop
        /\ LegOf[sym] = "mt5" => \/ orphans[sym][1] = 0 /\ pos[sym].stop <= 0
                                 \/ orphans[sym][-1] = 0 /\ pos[sym].stop >= 0
    BY <2>1, LotFacts DEF LotAt
  <2>3. orphans[sym][1] \in Nat /\ orphans[sym][-1] \in Nat /\ pos[sym].stop \in {-1, 0, 1}
    BY LotFacts
  <2>4. /\ orphans'[sym][1] = orphans[sym][1] + Is(pos[sym].stop, 1)
        /\ orphans'[sym][-1] = orphans[sym][-1] + Is(pos[sym].stop, -1)
    BY <1>2, <2>3, StopLeft DEF Is
  <2>5. LegOf[sym] = "mt5" => \/ side = 1 /\ held[sym] >= 0
                              \/ side = -1 /\ held[sym] <= 0
    <3>1. CASE side = 1
      <4>1. held[sym] * side = held[sym]
        BY <1>4, <3>1
      <4> QED
        BY <1>4, <2>1, <3>1, <4>1
    <3>2. CASE side = -1
      <4>1. held[sym] * side = -held[sym]
        BY <1>4, <3>2
      <4> QED
        BY <1>4, <2>1, <3>2, <4>1
    <3> QED
      BY <1>1, <3>1, <3>2
  <2>6. stop = side
    BY <1>1, <1>4, <2>5 DEF stop, Closes, NetSide
  <2>7. held'[sym] = (orphans'[sym][1] - orphans'[sym][-1]) + stop
    BY <1>1, <1>4, <2>2, <2>3, <2>4, <2>6 DEF Is
  <2>8. LegOf[sym] = "mt5" => \/ orphans'[sym][1] = 0 /\ stop <= 0
                              \/ orphans'[sym][-1] = 0 /\ stop >= 0
    <3> SUFFICES ASSUME LegOf[sym] = "mt5"
                 PROVE  \/ orphans'[sym][1] = 0 /\ stop <= 0
                        \/ orphans'[sym][-1] = 0 /\ stop >= 0
      OBVIOUS
    <3>1. CASE side = 1 /\ held[sym] >= 0
      <4>1. orphans[sym][-1] = 0 /\ pos[sym].stop >= 0
        BY <1>4, <2>2, <2>3, <3>1, OneSided
      <4> QED
        BY <2>4, <2>6, <3>1, <4>1 DEF Is
    <3>2. CASE side = -1 /\ held[sym] <= 0
      <4>1. orphans[sym][1] = 0 /\ pos[sym].stop <= 0
        BY <1>4, <2>2, <2>3, <3>2, OneSided
      <4> QED
        BY <2>4, <2>6, <3>2, <4>1 DEF Is
    <3> QED
      BY <2>5, <3>1, <3>2
  <2> QED
    BY <2>6, <2>7, <2>8
<1> QED
  BY <1>3, <1>4, <1>5, <1>6, <1>7, <1>8, LotsMove

\* What leaves the book is as if it had never been there.
LEMMA ExitedPos ==
    ASSUME LotsHold, NEW sym \in Symbols, Exited(sym)
    PROVE  /\ pos'[sym].open = FALSE /\ pos'[sym].stop = 0 /\ pos'[sym].side = 0
           /\ \A s \in Symbols : s # sym => pos'[s] = pos[s]
           /\ PosTypes'
BY DEF LotsHold, PosTypes, Exited, NoPosition, Sides

\* ... and what is left of its symbol is covered.
LEMMA ExitLots ==
    ASSUME LotsHold, NEW sym \in Symbols, Exited(sym), LotTypes',
           \A s \in Symbols : s # sym => /\ held'[s] = held[s] /\ orphans'[s] = orphans[s]
                                         /\ s \in astray' <=> s \in astray,
           sym \notin astray' =>
               /\ held'[sym] = orphans'[sym][1] - orphans'[sym][-1]
               /\ LegOf[sym] = "mt5" => orphans'[sym][1] = 0 \/ orphans'[sym][-1] = 0
    PROVE  LotsHold'
<1>1. /\ pos'[sym].open = FALSE /\ pos'[sym].stop = 0 /\ pos'[sym].side = 0
      /\ \A s \in Symbols : s # sym => pos'[s] = pos[s]
      /\ PosTypes'
  BY ExitedPos
<1>2. orphans'[sym][1] \in Int /\ orphans'[sym][-1] \in Int
  BY DEF LotTypes, Sides
<1>3. LotAt(sym)'
  BY <1>1, <1>2 DEF LotAt, IsOpen
<1> QED
  BY <1>1, <1>3, LotsMove

LEMMA StopHitLots ==
    ASSUME LotsHold, NEW sym \in Symbols, IsOpen(sym), Exited(sym),
           held' = [held EXCEPT ![sym] = @ - pos[sym].stop], UNCHANGED <<orphans, astray>>
    PROVE  LotsHold'
<1>1. /\ held[sym] \in Int /\ pos[sym].stop \in {-1, 0, 1} /\ LotAt(sym)
      /\ orphans[sym][1] \in Nat /\ orphans[sym][-1] \in Nat
  BY LotFacts
<1>2. /\ held'[sym] = held[sym] - pos[sym].stop /\ held' \in [Symbols -> Int]
      /\ \A s \in Symbols : s # sym => held'[s] = held[s]
  BY <1>1 DEF LotsHold, LotTypes
<1>3. LotTypes'
  BY <1>2 DEF LotsHold, LotTypes
<1>4. sym \notin astray' =>
        /\ held'[sym] = orphans'[sym][1] - orphans'[sym][-1]
        /\ LegOf[sym] = "mt5" => orphans'[sym][1] = 0 \/ orphans'[sym][-1] = 0
  BY <1>1, <1>2 DEF LotAt
<1> QED
  BY <1>2, <1>3, <1>4, ExitLots

LEMMA PhantomStopLots ==
    ASSUME LotsHold, NEW sym \in Symbols, PhantomStop(sym)
    PROVE  LotsHold'
<1>1. /\ held[sym] \in Int /\ pos[sym].stop \in {-1, 1} /\ LotAt(sym)
      /\ orphans[sym][1] \in Nat /\ orphans[sym][-1] \in Nat
  BY LotFacts DEF PhantomStop
<1>2. Exited(sym) /\ orphans' = LeftResting(sym) /\ UNCHANGED <<held, astray>>
  BY DEF PhantomStop
<1>3. /\ LotTypes' /\ \A s \in Symbols : s # sym => orphans'[s] = orphans[s]
      /\ orphans'[sym][1] = orphans[sym][1] + Is(pos[sym].stop, 1)
      /\ orphans'[sym][-1] = orphans[sym][-1] + Is(pos[sym].stop, -1)
  BY <1>1, <1>2, StopLeft DEF LotsHold, LotTypes, Is
<1>4. sym \notin astray' =>
        /\ held'[sym] = orphans'[sym][1] - orphans'[sym][-1]
        /\ LegOf[sym] = "mt5" => orphans'[sym][1] = 0 \/ orphans'[sym][-1] = 0
  BY <1>1, <1>2, <1>3 DEF LotAt, Is
<1> QED
  BY <1>2, <1>3, <1>4, ExitLots

\* A close that finds the stop it cancels takes the lot the stop was for: on the
\* mt5 leg the net position is on its side.
LEMMA MarketOutLots ==
    ASSUME LotsHold, NEW sym \in Symbols, MarketOut(sym)
    PROVE  LotsHold'
<1> DEFINE out == Closes(sym, pos[sym].side, held[sym])
<1>1. /\ held[sym] \in Int /\ pos[sym].stop \in {-1, 0, 1} /\ LotAt(sym)
      /\ orphans[sym][1] \in Nat /\ orphans[sym][-1] \in Nat
  BY LotFacts
<1>2. /\ Exited(sym) /\ IsOpen(sym) /\ orphans' = orphans
      /\ held' = [held EXCEPT ![sym] = @ - out]
      /\ astray' = IF pos[sym].stop = 0 THEN astray \cup {sym} ELSE astray
  BY DEF MarketOut, StopsAfterExit
<1>3. pos[sym].side \in {-1, 1} /\ out \in {-1, 1}
  BY <1>1, <1>2 DEF LotAt, Sides, Closes, NetSide
<1>4. sym \notin astray' => out = pos[sym].stop
  BY <1>1, <1>2, <1>3 DEF LotAt, Closes, NetSide
<1> HIDE DEF out
<1>5. /\ held'[sym] = held[sym] - out /\ held' \in [Symbols -> Int]
      /\ \A s \in Symbols : s # sym => held'[s] = held[s]
  BY <1>1, <1>2, <1>3 DEF LotsHold, LotTypes
<1>6. LotTypes' /\ \A s \in Symbols : s # sym => (s \in astray' <=> s \in astray)
  BY <1>2, <1>5 DEF LotsHold, LotTypes
<1>7. sym \notin astray' =>
        /\ held'[sym] = orphans'[sym][1] - orphans'[sym][-1]
        /\ LegOf[sym] = "mt5" => orphans'[sym][1] = 0 \/ orphans'[sym][-1] = 0
  BY <1>1, <1>2, <1>4, <1>5 DEF LotAt
<1> QED
  BY <1>2, <1>5, <1>6, <1>7, ExitLots

LEMMA BuyRefusedLots ==
    ASSUME LotsHold, NEW sym \in Symbols, BuyRefused(sym)
    PROVE  LotsHold'
<1>1. /\ held[sym] \in Int /\ pos[sym].stop \in {-1, 0, 1} /\ LotAt(sym)
      /\ orphans[sym][1] \in Nat /\ orphans[sym][-1] \in Nat
  BY LotFacts
<1>2. /\ Exited(sym) /\ UNCHANGED <<held, orphans>>
      /\ astray' = IF pos[sym].stop = 0 THEN astray ELSE astray \cup {sym}
  BY DEF BuyRefused, StopsAfterExit
<1>3. LotTypes' /\ \A s \in Symbols : s # sym => (s \in astray' <=> s \in astray)
  BY <1>2 DEF LotsHold, LotTypes
<1>4. sym \notin astray' =>
        /\ held'[sym] = orphans'[sym][1] - orphans'[sym][-1]
        /\ LegOf[sym] = "mt5" => orphans'[sym][1] = 0 \/ orphans'[sym][-1] = 0
  BY <1>1, <1>2 DEF LotAt
<1> QED
  BY <1>2, <1>3, <1>4, ExitLots

LEMMA OrphanFiresLots ==
    ASSUME LotsHold, NEW sym \in Symbols, NEW side \in Sides, OrphanFires(sym, side)
    PROVE  LotsHold'
<1>1. /\ held[sym] \in Int /\ pos[sym].stop \in {-1, 0, 1} /\ LotAt(sym)
      /\ orphans[sym][1] \in Nat /\ orphans[sym][-1] \in Nat
      /\ orphans[sym][side] \in Nat /\ orphans[sym][side] > 0
  BY LotFacts DEF OrphanFires
<1>2. /\ side \in Int /\ (side = 1 \/ side = -1) /\ 1 \in Sides /\ -1 \in Sides /\ -1 \in Int
      /\ orphans[sym][side] + (-1) \in Nat
      /\ orphans[sym][side] + (-1) = orphans[sym][side] - 1
  BY <1>1 DEF Sides
<1>3. PICK now : now = [orphans EXCEPT ![sym][side] = @ + (-1)]
  OBVIOUS
<1>4. orphans \in [Symbols -> [Sides -> Nat]]
  BY DEF LotsHold, LotTypes
<1>5. /\ now \in [Symbols -> [Sides -> Nat]]
      /\ now[sym][side] = orphans[sym][side] + (-1)
      /\ \A d \in Sides : d # side => now[sym][d] = orphans[sym][d]
      /\ \A s \in Symbols : s # sym => now[s] = orphans[s]
  BY ONLY <1>2, <1>3, <1>4, OrphansMove, sym \in Symbols, side \in Sides
<1>6. orphans' = now
  <2>1. orphans' = [orphans EXCEPT ![sym][side] = @ - 1]
    BY DEF OrphanFires
  <2> QED
    BY <1>2, <1>3, <2>1
<1>7. /\ held'[sym] = held[sym] - side /\ held' \in [Symbols -> Int]
      /\ \A s \in Symbols : s # sym => held'[s] = held[s]
  BY <1>1, <1>2 DEF OrphanFires, LotsHold, LotTypes
<1>8. UNCHANGED <<pos, astray>>
  BY DEF OrphanFires
<1>9. PosTypes' /\ LotTypes'
  BY <1>5, <1>6, <1>7, <1>8 DEF LotsHold, PosTypes, LotTypes
<1>10. LotAt(sym)'
  <2>1. CASE side = 1
    <3>1. orphans'[sym][1] = orphans[sym][1] - 1 /\ orphans'[sym][-1] = orphans[sym][-1]
      BY <1>2, <1>5, <1>6, <2>1
    <3> QED
      BY <1>1, <1>7, <1>8, <2>1, <3>1 DEF LotAt, IsOpen
  <2>2. CASE side = -1
    <3>1. orphans'[sym][-1] = orphans[sym][-1] - 1 /\ orphans'[sym][1] = orphans[sym][1]
      BY <1>2, <1>5, <1>6, <2>2
    <3> QED
      BY <1>1, <1>7, <1>8, <2>2, <3>1 DEF LotAt, IsOpen
  <2> QED
    BY <1>2, <2>1, <2>2
<1> QED
  BY <1>5, <1>6, <1>7, <1>8, <1>9, <1>10, LotsMove

\* A stop that faces the wrong side there is only on a symbol gone astray.
LEMMA WrongStopLots ==
    ASSUME LotsHold, NEW sym \in Symbols, WrongStopFires(sym)
    PROVE  LotsHold'
<1>1. /\ held[sym] \in Int /\ pos[sym].stop \in {-1, 0, 1} /\ LotAt(sym)
      /\ IsOpen(sym) /\ pos[sym].stop = -pos[sym].side
  BY LotFacts DEF WrongStopFires
<1>2. sym \in astray
  BY <1>1 DEF LotAt, Sides
<1>3. /\ held' = [held EXCEPT ![sym] = @ - pos[sym].stop]
      /\ pos' = [pos EXCEPT ![sym].stop = 0] /\ UNCHANGED <<orphans, astray>>
  BY DEF WrongStopFires
<1>4. PICK p : p = [pos[sym] EXCEPT !.stop = 0]
  OBVIOUS
<1>5. /\ pos' = [pos EXCEPT ![sym] = p] /\ p.open = pos[sym].open /\ p.side = pos[sym].side
      /\ p \in [open : BOOLEAN, side : Sides \cup {0}, stop : Sides \cup {0},
                opener : Sleeves \cup {Manual}]
  BY <1>3, <1>4 DEF LotsHold, PosTypes
<1>6. PosTypes' /\ pos'[sym] = p /\ \A s \in Symbols : s # sym => pos'[s] = pos[s]
  BY <1>5 DEF LotsHold, PosTypes
<1>7. LotTypes' /\ \A s \in Symbols : s # sym => held'[s] = held[s]
  BY <1>1, <1>3 DEF LotsHold, LotTypes
<1>8. LotAt(sym)'
  BY <1>1, <1>2, <1>3, <1>5, <1>6 DEF LotAt, IsOpen
<1> QED
  BY <1>3, <1>6, <1>7, <1>8, LotsMove

\* Whatever fires on a ticket's way takes the lot it was for.
LEMMA PrimesLots ==
    ASSUME LotsHold, NEW sym \in Symbols, Primes(sym), UNCHANGED astray
    PROVE  /\ LotsHold'
           /\ \A s \in Symbols : pos'[s].open = pos[s].open /\ pos'[s].opener = pos[s].opener
<1>1. /\ held[sym] \in Int /\ pos[sym].stop \in {-1, 0, 1} /\ LotAt(sym)
      /\ orphans[sym][1] \in Nat /\ orphans[sym][-1] \in Nat /\ orphans[sym] \in [Sides -> Nat]
  BY LotFacts
<1>2. PICK own \in {0, pos[sym].stop}, sells \in 0 .. orphans[sym][1],
           buys \in 0 .. orphans[sym][-1] :
        /\ orphans' = [orphans EXCEPT ![sym][1] = @ - sells, ![sym][-1] = @ - buys]
        /\ held' = [held EXCEPT ![sym] = @ - (own + (sells - buys))]
        /\ pos' = [pos EXCEPT ![sym].stop = @ - own]
  BY DEF Primes
<1>3. /\ own \in {-1, 0, 1} /\ sells \in Nat /\ buys \in Nat
      /\ orphans[sym][1] - sells \in Nat /\ orphans[sym][-1] - buys \in Nat
      /\ pos[sym].stop - own \in {0, pos[sym].stop} /\ 1 \in Sides /\ -1 \in Sides
  BY <1>1, <1>2 DEF Sides
<1>4. PICK p : p = [pos[sym] EXCEPT !.stop = pos[sym].stop - own]
  OBVIOUS
<1>5. /\ pos' = [pos EXCEPT ![sym] = p] /\ p.open = pos[sym].open /\ p.side = pos[sym].side
      /\ p.opener = pos[sym].opener /\ p.stop = pos[sym].stop - own
      /\ p \in [open : BOOLEAN, side : Sides \cup {0}, stop : Sides \cup {0},
                opener : Sleeves \cup {Manual}]
  BY <1>1, <1>2, <1>3, <1>4 DEF LotsHold, PosTypes, Sides
<1>6. PosTypes' /\ pos'[sym] = p /\ \A s \in Symbols : s # sym => pos'[s] = pos[s]
  BY <1>5 DEF LotsHold, PosTypes
<1>7. /\ held'[sym] = held[sym] - (own + (sells - buys)) /\ held' \in [Symbols -> Int]
      /\ \A s \in Symbols : s # sym => held'[s] = held[s]
  BY <1>1, <1>2, <1>3 DEF LotsHold, LotTypes
<1>8. /\ orphans'[sym][1] = orphans[sym][1] - sells
      /\ orphans'[sym][-1] = orphans[sym][-1] - buys
      /\ orphans' \in [Symbols -> [Sides -> Nat]]
      /\ \A s \in Symbols : s # sym => orphans'[s] = orphans[s]
  <2>1. PICK row : row = [orphans[sym] EXCEPT ![1] = @ - sells, ![-1] = @ - buys]
    OBVIOUS
  <2>2. row \in [Sides -> Nat] /\ row[1] = orphans[sym][1] - sells
        /\ row[-1] = orphans[sym][-1] - buys
    BY <1>1, <1>3, <2>1
  <2>3. orphans' = [orphans EXCEPT ![sym] = row]
    BY <1>2, <2>1 DEF LotsHold, LotTypes
  <2> QED
    BY <2>2, <2>3 DEF LotsHold, LotTypes
<1>9. LotTypes'
  BY <1>7, <1>8 DEF LotsHold, LotTypes
<1>10. LotAt(sym)'
  <2>1. /\ IsOpen(sym)' <=> IsOpen(sym)
        /\ pos'[sym].side = pos[sym].side /\ pos'[sym].stop = pos[sym].stop - own
        /\ astray' = astray
    BY <1>5, <1>6 DEF IsOpen
  <2>2. /\ IsOpen(sym) => pos[sym].side \in Sides
        /\ ~ IsOpen(sym) => pos[sym].stop - own = 0
    BY <1>1, <1>2 DEF LotAt
  <2> SUFFICES ASSUME sym \notin astray
               PROVE  /\ held'[sym] = (orphans'[sym][1] - orphans'[sym][-1]) + pos'[sym].stop
                      /\ pos'[sym].stop \in {0, pos'[sym].side}
                      /\ LegOf[sym] = "mt5" => \/ orphans'[sym][1] = 0 /\ pos'[sym].stop <= 0
                                               \/ orphans'[sym][-1] = 0 /\ pos'[sym].stop >= 0
    BY <2>1, <2>2 DEF LotAt
  <2>3. /\ held[sym] = (orphans[sym][1] - orphans[sym][-1]) + pos[sym].stop
        /\ pos[sym].stop \in {0, pos[sym].side}
        /\ LegOf[sym] = "mt5" => \/ orphans[sym][1] = 0 /\ pos[sym].stop <= 0
                                 \/ orphans[sym][-1] = 0 /\ pos[sym].stop >= 0
    BY <1>1 DEF LotAt
  <2>4. held'[sym] = (orphans'[sym][1] - orphans'[sym][-1]) + pos'[sym].stop
    <3>1. \A h, a, b, t, o, x, y \in Int :
            h = (a - b) + t => h - (o + (x - y)) = ((a - x) - (b - y)) + (t - o)
      OBVIOUS
    <3>2. /\ held[sym] \in Int /\ orphans[sym][1] \in Int /\ orphans[sym][-1] \in Int
          /\ pos[sym].stop \in Int /\ own \in Int /\ sells \in Int /\ buys \in Int
      BY <1>1, <1>3
    <3>3. held[sym] - (own + (sells - buys)) = ((orphans[sym][1] - sells) - (orphans[sym][-1] - buys))
                                               + (pos[sym].stop - own)
      BY ONLY <2>3, <3>1, <3>2
    <3> QED
      BY ONLY <1>7, <1>8, <2>1, <3>3
  <2>5. pos'[sym].stop \in {0, pos'[sym].side}
    BY <1>3, <2>1, <2>3
  <2>6. LegOf[sym] = "mt5" => \/ orphans'[sym][1] = 0 /\ pos'[sym].stop <= 0
                              \/ orphans'[sym][-1] = 0 /\ pos'[sym].stop >= 0
    BY <1>1, <1>3, <1>8, <2>1, <2>3
  <2> QED
    BY <2>4, <2>5, <2>6
<1>11. LotsHold'
  BY <1>6, <1>7, <1>8, <1>9, <1>10, LotsMove
<1> QED
  BY <1>5, <1>6, <1>11

------------------------------------------------------------------------------
(* Credits.                                                                 *)

LEMMA CreditsMove ==
    ASSUME CreditsHold, NEW sym \in Symbols, CreditTypes',
           \A s \in Symbols : s # sym => /\ pos'[s] = pos[s] /\ sleeveOf'[s] = sleeveOf[s]
                                         /\ s \in parted' <=> s \in parted
                                         /\ s \in stale' <=> s \in stale,
           CreditAt(sym)'
    PROVE  CreditsHold'
<1> SUFFICES ASSUME NEW s \in Symbols, s # sym
             PROVE  CreditAt(s)'
  BY DEF CreditsHold
<1>1. CreditAt(s)
  BY DEF CreditsHold
<1> QED
  BY <1>1 DEF CreditAt, IsOpen

\* The stop of a position may be gone, or a ticket be on its way.
LEMMA SameCredits ==
    ASSUME CreditsHold, UNCHANGED <<sleeveOf, parted, stale>>,
           \A s \in Symbols : pos'[s].open = pos[s].open /\ pos'[s].opener = pos[s].opener
    PROVE  CreditsHold'
BY DEF CreditsHold, CreditTypes, CreditAt, IsOpen

LEMMA RecordedCredits ==
    ASSUME LotsHold, CreditsHold, NEW sym \in Symbols, Exited(sym), RecordExit(sym),
           UNCHANGED parted
    PROVE  CreditsHold'
<1>1. pos'[sym].open = FALSE /\ \A s \in Symbols : s # sym => pos'[s] = pos[s]
  BY ExitedPos
<1>2. /\ sleeveOf'[sym] = Manual /\ \A s \in Symbols : s # sym => sleeveOf'[s] = sleeveOf[s]
      /\ CreditTypes'
      /\ \A s \in Symbols : s # sym => (s \in stale' <=> s \in stale)
  BY DEF RecordExit, CreditsHold, CreditTypes
<1>3. CreditAt(sym)'
  BY <1>1, <1>2 DEF CreditAt, IsOpen
<1> QED
  BY <1>1, <1>2, <1>3, CreditsMove

LEMMA UnrecordedCredits ==
    ASSUME LotsHold, CreditsHold, NEW sym \in Symbols, Exited(sym), ExitUnrecorded(sym),
           UNCHANGED parted
    PROVE  CreditsHold'
<1>1. pos'[sym].open = FALSE /\ \A s \in Symbols : s # sym => pos'[s] = pos[s]
  BY ExitedPos
<1>2. /\ sleeveOf' = sleeveOf /\ sleeveOf[sym] \in Sleeves \cup {Manual}
      /\ stale' = IF sleeveOf[sym] \in Sleeves THEN stale \cup {sym} ELSE stale
      /\ CreditTypes'
  BY DEF ExitUnrecorded, CreditsHold, CreditTypes
<1>3. CreditAt(sym)'
  BY <1>1, <1>2 DEF CreditAt, IsOpen
<1> QED
  BY <1>1, <1>2, <1>3, CreditsMove

\* Whoever enters is the opener, and the claim is his unless he is the operator.
LEMMA EnterCredits ==
    ASSUME LotsHold, CreditsHold, NEW sym \in Symbols, NEW side \in Sides,
           NEW who \in Sleeves \cup {Manual}, Enter(sym, side, who),
           \/ sleeveOf' = [sleeveOf EXCEPT ![sym] = who] /\ stale' = stale \ {sym}
           \/ who = Manual /\ UNCHANGED <<sleeveOf, stale>>
    PROVE  CreditsHold'
<1>1. /\ pos'[sym].open = TRUE /\ pos'[sym].opener = who
      /\ \A s \in Symbols : s # sym => pos'[s] = pos[s]
  BY DEF Enter, LotsHold, PosTypes
<1>2. parted' = IF IsOpen(sym) THEN parted \cup {sym} ELSE parted
  BY DEF Enter
<1>3. CreditTypes' /\ \A s \in Symbols : s # sym => /\ sleeveOf'[s] = sleeveOf[s]
                                                    /\ s \in stale' <=> s \in stale
                                                    /\ s \in parted' <=> s \in parted
  BY <1>2 DEF CreditsHold, CreditTypes
<1>4. CreditAt(sym)'
  <2>1. CreditAt(sym) /\ sleeveOf \in [Symbols -> Sleeves \cup {Manual}]
    BY DEF CreditsHold, CreditTypes
  <2>2. CASE sleeveOf' = [sleeveOf EXCEPT ![sym] = who] /\ stale' = stale \ {sym}
    <3>1. sleeveOf'[sym] = who
      BY <2>1, <2>2
    <3> QED
      BY <1>1, <3>1 DEF CreditAt, IsOpen
  <2>3. CASE who = Manual /\ UNCHANGED <<sleeveOf, stale>>
    BY <1>1, <1>2, <2>1, <2>3 DEF CreditAt, IsOpen
  <2> QED
    BY <2>2, <2>3
<1> QED
  BY <1>1, <1>3, <1>4, CreditsMove

------------------------------------------------------------------------------
(* The ledger.                                                              *)

\* Who has a claim on a symbol that an exit will be recorded for.
Live(s) == IF s \in stale THEN Manual ELSE sleeveOf[s]

LEMMA ClaimsAre ==
    ASSUME CreditsHold, NEW name \in Sleeves
    PROVE  /\ Claims(name) = Claimed(sleeveOf, name)
           /\ Claims(name) \ stale = Claimed([s \in Symbols |-> Live(s)], name)
<1>1. name # Manual
  BY Names
<1> QED
  BY <1>1 DEF Claims, Claimed, Live

\* The books of a ledger, of which the claim on one symbol changes: what is new
\* among its entries is closed, claimed or lost.
LEMMA LedgerMoves ==
    ASSUME CreditsHold, CreditsHold', LedgerHolds, NEW sym \in Symbols,
           sleeve' \in [Sleeves -> Ledger],
           \A s \in Symbols : s # sym => /\ sleeveOf'[s] = sleeveOf[s]
                                         /\ s \in stale' <=> s \in stale,
           \A name \in Sleeves :
               /\ sleeve'[name].closed + sleeve[name].entries + Is(sleeveOf'[sym], name)
                    <= sleeve[name].closed + sleeve'[name].entries + Is(sleeveOf[sym], name)
               /\ sleeve[name].closed + sleeve[name].lost + sleeve'[name].entries + Is(Live(sym), name)
                    <= sleeve'[name].closed + sleeve'[name].lost + sleeve[name].entries
                       + Is(Live(sym)', name)
               /\ sleeve'[name].late <= 1
               /\ sleeve'[name].enabled => sleeve'[name].late = 0
    PROVE  LedgerHolds'
<1> SUFFICES ASSUME NEW name \in Sleeves
             PROVE  /\ sleeve'[name].closed + Cardinality(Claims(name)') <= sleeve'[name].entries
                    /\ sleeve'[name].entries <= sleeve'[name].closed
                          + Cardinality(Claims(name)' \ stale') + sleeve'[name].lost
  BY DEF LedgerHolds, LedgerBalances, EnabledOnTime
<1>1. PICK of : of = [s \in Symbols |-> Live(s)]
  OBVIOUS
<1>2. PICK now : now = [s \in Symbols |-> Live(s)']
  OBVIOUS
<1>3. \A s \in Symbols : s # sym => now[s] = of[s]
  BY <1>1, <1>2 DEF Live
<1>4. of[sym] = Live(sym) /\ now[sym] = Live(sym)'
  BY <1>1, <1>2
<1>5. /\ Claims(name) = Claimed(sleeveOf, name) /\ Claims(name) \ stale = Claimed(of, name)
      /\ Claims(name)' = Claimed(sleeveOf', name) /\ Claims(name)' \ stale' = Claimed(now, name)
  <2>1. name # Manual
    BY Names
  <2>2. Claims(name)' = Claimed(sleeveOf', name)
    BY DEF Claims, Claimed
  <2>3. Claims(name)' \ stale' = Claimed(now, name)
    BY <1>2, <2>1 DEF Claims, Claimed, Live
  <2> QED
    BY <1>1, <2>2, <2>3, ClaimsAre
<1>6. /\ Cardinality(Claims(name)) \in Nat /\ Cardinality(Claims(name)') \in Nat
      /\ Cardinality(Claims(name)') + Is(sleeveOf[sym], name)
           = Cardinality(Claims(name)) + Is(sleeveOf'[sym], name)
  <2>1. \A s \in Symbols : s # sym => sleeveOf'[s] = sleeveOf[s]
    OBVIOUS
  <2>2. PICK f : f = sleeveOf
    OBVIOUS
  <2>3. PICK g : g = sleeveOf'
    OBVIOUS
  <2>4. \A s \in Symbols : s # sym => g[s] = f[s]
    BY <2>1, <2>2, <2>3
  <2>5. /\ Cardinality(Claimed(f, name)) \in Nat /\ Cardinality(Claimed(g, name)) \in Nat
        /\ Cardinality(Claimed(g, name)) + Is(f[sym], name)
             = Cardinality(Claimed(f, name)) + Is(g[sym], name)
    BY ONLY <2>4, ClaimsMove, sym \in Symbols
  <2> QED
    BY ONLY <1>5, <2>2, <2>3, <2>5
<1>7. /\ Cardinality(Claims(name) \ stale) \in Nat /\ Cardinality(Claims(name)' \ stale') \in Nat
      /\ Cardinality(Claims(name)' \ stale') + Is(Live(sym), name)
           = Cardinality(Claims(name) \ stale) + Is(Live(sym)', name)
  <2>1. /\ Cardinality(Claimed(of, name)) \in Nat /\ Cardinality(Claimed(now, name)) \in Nat
        /\ Cardinality(Claimed(now, name)) + Is(of[sym], name)
             = Cardinality(Claimed(of, name)) + Is(now[sym], name)
    BY ONLY <1>3, ClaimsMove, sym \in Symbols
  <2> QED
    BY ONLY <1>4, <1>5, <2>1
<1>8. /\ sleeve[name].closed + Cardinality(Claims(name)) <= sleeve[name].entries
      /\ sleeve[name].entries
           <= sleeve[name].closed + Cardinality(Claims(name) \ stale) + sleeve[name].lost
  BY DEF LedgerHolds, LedgerBalances
<1>9. /\ sleeve[name].entries \in Nat /\ sleeve[name].closed \in Nat /\ sleeve[name].lost \in Nat
      /\ sleeve'[name].entries \in Nat /\ sleeve'[name].closed \in Nat /\ sleeve'[name].lost \in Nat
  BY DEF LedgerHolds, Ledger
<1>10. /\ Is(sleeveOf[sym], name) \in Nat /\ Is(sleeveOf'[sym], name) \in Nat
       /\ Is(Live(sym), name) \in Nat /\ Is(Live(sym)', name) \in Nat
  BY DEF Is
<1>11. sleeve'[name].closed + Cardinality(Claims(name)') <= sleeve'[name].entries
  <2>1. sleeve'[name].closed + sleeve[name].entries + Is(sleeveOf'[sym], name)
          <= sleeve[name].closed + sleeve'[name].entries + Is(sleeveOf[sym], name)
    OBVIOUS
  <2> QED
    BY ONLY <1>6, <1>8, <1>9, <1>10, <2>1
<1>12. sleeve'[name].entries
         <= sleeve'[name].closed + Cardinality(Claims(name)' \ stale') + sleeve'[name].lost
  <2>1. sleeve[name].closed + sleeve[name].lost + sleeve'[name].entries + Is(Live(sym), name)
          <= sleeve'[name].closed + sleeve'[name].lost + sleeve[name].entries
             + Is(Live(sym)', name)
    OBVIOUS
  <2> QED
    BY ONLY <1>7, <1>8, <1>9, <1>10, <2>1
<1> QED
  BY <1>11, <1>12

\* A sleeve that is switched keeps its books; who is on starts anew.
LEMMA SwitchedLedger ==
    ASSUME LedgerHolds, sleeve' \in [Sleeves -> Ledger], UNCHANGED <<sleeveOf, stale>>,
           \A name \in Sleeves :
               /\ sleeve'[name].entries = sleeve[name].entries
               /\ sleeve'[name].closed = sleeve[name].closed
               /\ sleeve'[name].lost = sleeve[name].lost
               /\ sleeve'[name].late = 0 \/ sleeve'[name].late = sleeve[name].late
               /\ sleeve'[name].enabled => sleeve'[name].late = 0
    PROVE  LedgerHolds'
<1> SUFFICES ASSUME NEW name \in Sleeves
             PROVE  /\ sleeve'[name].closed + Cardinality(Claims(name)') <= sleeve'[name].entries
                    /\ sleeve'[name].entries <= sleeve'[name].closed
                          + Cardinality(Claims(name)' \ stale') + sleeve'[name].lost
                    /\ sleeve'[name].late <= 1
  BY DEF LedgerHolds, LedgerBalances, EnabledOnTime
<1>1. Claims(name)' = Claims(name) /\ stale' = stale
  BY DEF Claims
<1>2. /\ sleeve[name].closed + Cardinality(Claims(name)) <= sleeve[name].entries
      /\ sleeve[name].entries
           <= sleeve[name].closed + Cardinality(Claims(name) \ stale) + sleeve[name].lost
      /\ sleeve[name].late <= 1
  BY DEF LedgerHolds, LedgerBalances
<1> QED
  BY <1>1, <1>2

LEMMA SameLedger ==
    ASSUME LedgerHolds, UNCHANGED tallyVars
    PROVE  LedgerHolds'
BY SwitchedLedger DEF LedgerHolds, EnabledOnTime, tallyVars

LEMMA RecordedLedger ==
    ASSUME CreditsHold, CreditsHold', LedgerHolds, NEW sym \in Symbols, RecordExit(sym)
    PROVE  LedgerHolds'
<1> DEFINE who == sleeveOf[sym]
<1>1. /\ who \in Sleeves \cup {Manual} /\ Manual \notin Sleeves
      /\ sleeve \in [Sleeves -> Ledger]
      /\ sleeve' = IF who \in Sleeves THEN [sleeve EXCEPT ![who].closed = @ + 1] ELSE sleeve
      /\ sleeveOf'[sym] = Manual /\ Live(sym)' = Manual
      /\ \A s \in Symbols : s # sym => /\ sleeveOf'[s] = sleeveOf[s]
                                       /\ s \in stale' <=> s \in stale
  BY Names DEF RecordExit, CreditsHold, CreditTypes, LedgerHolds, Live
<1>2. \A name \in Sleeves : [sleeve[name] EXCEPT !.closed = @ + 1] \in Ledger
  BY <1>1 DEF Ledger
<1>3. sleeve' \in [Sleeves -> Ledger]
  <2>1. CASE who \in Sleeves
    <3>1. sleeve' = [sleeve EXCEPT ![who] = [sleeve[who] EXCEPT !.closed = @ + 1]]
      BY <1>1, <2>1
    <3> QED
      BY <1>1, <1>2, <2>1, <3>1
  <2>2. CASE who \notin Sleeves
    BY <1>1, <2>2
  <2> QED
    BY <2>1, <2>2
<1>4. \A name \in Sleeves :
        /\ sleeve'[name].enabled = sleeve[name].enabled
        /\ sleeve'[name].late = sleeve[name].late
        /\ sleeve'[name].entries = sleeve[name].entries
        /\ sleeve'[name].lost = sleeve[name].lost
        /\ sleeve'[name].closed = sleeve[name].closed + Is(who, name)
  BY <1>1 DEF Ledger, Is
<1>5. ASSUME NEW name \in Sleeves
      PROVE  /\ Is(sleeveOf'[sym], name) = 0 /\ Is(Live(sym)', name) = 0
             /\ Is(Live(sym), name) <= Is(who, name)
             /\ Is(Live(sym), name) \in {0, 1} /\ Is(who, name) \in {0, 1}
             /\ sleeve[name].entries \in Nat /\ sleeve[name].closed \in Nat
             /\ sleeve[name].lost \in Nat
             /\ sleeve[name].late <= 1 /\ (sleeve[name].enabled => sleeve[name].late = 0)
  <2>1. /\ sleeve[name].entries \in Nat /\ sleeve[name].closed \in Nat
        /\ sleeve[name].lost \in Nat
    BY <1>1 DEF Ledger
  <2>2. sleeve[name].late <= 1 /\ (sleeve[name].enabled => sleeve[name].late = 0)
    BY DEF LedgerHolds, LedgerBalances, EnabledOnTime
  <2>3. name # Manual /\ (Live(sym) = Manual \/ Live(sym) = who)
    BY <1>1 DEF Live
  <2> QED
    BY <1>1, <2>1, <2>2, <2>3 DEF Is
<1>6. \A name \in Sleeves :
        /\ sleeve'[name].closed + sleeve[name].entries + Is(sleeveOf'[sym], name)
             <= sleeve[name].closed + sleeve'[name].entries + Is(sleeveOf[sym], name)
        /\ sleeve[name].closed + sleeve[name].lost + sleeve'[name].entries + Is(Live(sym), name)
             <= sleeve'[name].closed + sleeve'[name].lost + sleeve[name].entries
                + Is(Live(sym)', name)
        /\ sleeve'[name].late <= 1
        /\ sleeve'[name].enabled => sleeve'[name].late = 0
  <2> HIDE DEF who
  <2> TAKE name \in Sleeves
  <2>1. Is(sleeveOf[sym], name) = Is(who, name)
    BY DEF who
  <2> QED
    BY <1>4, <1>5, <2>1
<1> QED
  BY <1>1, <1>3, <1>6, LedgerMoves

LEMMA UnrecordedLedger ==
    ASSUME CreditsHold, CreditsHold', LedgerHolds, NEW sym \in Symbols, ExitUnrecorded(sym)
    PROVE  LedgerHolds'
<1> DEFINE who == sleeveOf[sym]
<1>1. /\ who \in Sleeves \cup {Manual} /\ Manual \notin Sleeves
      /\ sleeve \in [Sleeves -> Ledger]
      /\ sleeve' = IF who \in Sleeves THEN [sleeve EXCEPT ![who].lost = @ + 1] ELSE sleeve
      /\ sleeveOf' = sleeveOf /\ Live(sym)' = Manual
      /\ \A s \in Symbols : s # sym => (s \in stale' <=> s \in stale)
  BY Names DEF ExitUnrecorded, CreditsHold, CreditTypes, LedgerHolds, Live
<1>2. \A name \in Sleeves : [sleeve[name] EXCEPT !.lost = @ + 1] \in Ledger
  BY <1>1 DEF Ledger
<1>3. sleeve' \in [Sleeves -> Ledger]
  <2>1. CASE who \in Sleeves
    <3>1. sleeve' = [sleeve EXCEPT ![who] = [sleeve[who] EXCEPT !.lost = @ + 1]]
      BY <1>1, <2>1
    <3> QED
      BY <1>1, <1>2, <2>1, <3>1
  <2>2. CASE who \notin Sleeves
    BY <1>1, <2>2
  <2> QED
    BY <2>1, <2>2
<1>4. \A name \in Sleeves :
        /\ sleeve'[name].enabled = sleeve[name].enabled
        /\ sleeve'[name].late = sleeve[name].late
        /\ sleeve'[name].entries = sleeve[name].entries
        /\ sleeve'[name].closed = sleeve[name].closed
        /\ sleeve'[name].lost = sleeve[name].lost + Is(who, name)
  BY <1>1 DEF Ledger, Is
<1>5. ASSUME NEW name \in Sleeves
      PROVE  /\ Is(Live(sym)', name) = 0 /\ Is(Live(sym), name) <= Is(who, name)
             /\ Is(Live(sym), name) \in {0, 1} /\ Is(who, name) \in {0, 1}
             /\ sleeve[name].entries \in Nat /\ sleeve[name].closed \in Nat
             /\ sleeve[name].lost \in Nat
             /\ sleeve[name].late <= 1 /\ (sleeve[name].enabled => sleeve[name].late = 0)
  <2>1. /\ sleeve[name].entries \in Nat /\ sleeve[name].closed \in Nat
        /\ sleeve[name].lost \in Nat
    BY <1>1 DEF Ledger
  <2>2. sleeve[name].late <= 1 /\ (sleeve[name].enabled => sleeve[name].late = 0)
    BY DEF LedgerHolds, LedgerBalances, EnabledOnTime
  <2>3. name # Manual /\ (Live(sym) = Manual \/ Live(sym) = who)
    BY <1>1 DEF Live
  <2> QED
    BY <1>1, <2>1, <2>2, <2>3 DEF Is
<1>6. \A name \in Sleeves :
        /\ sleeve'[name].closed + sleeve[name].entries + Is(sleeveOf'[sym], name)
             <= sleeve[name].closed + sleeve'[name].entries + Is(sleeveOf[sym], name)
        /\ sleeve[name].closed + sleeve[name].lost + sleeve'[name].entries + Is(Live(sym), name)
             <= sleeve'[name].closed + sleeve'[name].lost + sleeve[name].entries
                + Is(Live(sym)', name)
        /\ sleeve'[name].late <= 1
        /\ sleeve'[name].enabled => sleeve'[name].late = 0
  <2> HIDE DEF who
  <2> TAKE name \in Sleeves
  <2>1. Is(sleeveOf[sym], name) = Is(who, name) /\ Is(sleeveOf'[sym], name) = Is(who, name)
    BY <1>1 DEF who
  <2> QED
    BY <1>4, <1>5, <2>1
<1> QED
  BY <1>1, <1>3, <1>6, LedgerMoves

\* A sleeve claims the symbol it was looking at: nobody had, or only to lose the
\* claim to it.
LEMMA ClaimLedger ==
    ASSUME CreditsHold, CreditsHold', LedgerHolds, ActorsHold, Claim
    PROVE  LedgerHolds'
<1>1. /\ Symbol \in Symbols /\ Name \in Sleeves /\ Free(Symbol)
      /\ sleeve[Name].late = 0 /\ Manual \notin Sleeves
      /\ sleeve \in [Sleeves -> Ledger] /\ sleeveOf \in [Symbols -> Sleeves \cup {Manual}]
  BY Names DEF Claim, ActorsHold, EngineStands, Symbol, Name, LedgerHolds, CreditsHold, CreditTypes
<1>2. sleeveOf' = [sleeveOf EXCEPT ![Symbol] = Name] /\ stale' = stale \ {Symbol}
  BY DEF Claim
<1>3. PICK mid : mid = [sleeve EXCEPT ![Name].entries = @ + 1]
  OBVIOUS
<1>4. /\ mid[Name] = [enabled |-> sleeve[Name].enabled, entries |-> sleeve[Name].entries + 1,
                      closed |-> sleeve[Name].closed, late |-> 0, lost |-> sleeve[Name].lost]
      /\ \A name \in Sleeves : name # Name => mid[name] = sleeve[name]
      /\ DOMAIN mid = Sleeves /\ mid = [name \in Sleeves |-> mid[name]]
  <2>1. \A l \in Ledger : [l EXCEPT !.entries = @ + 1] =
          [enabled |-> l.enabled, entries |-> l.entries + 1, closed |-> l.closed,
           late |-> l.late, lost |-> l.lost]
    BY DEF Ledger
  <2>2. mid = [sleeve EXCEPT ![Name] = [sleeve[Name] EXCEPT !.entries = @ + 1]]
    BY <1>3
  <2>3. sleeve[Name] \in Ledger
    BY <1>1
  <2> QED
    BY <1>1, <2>1, <2>2, <2>3
<1>5. sleeve' = [mid EXCEPT ![Name].late = IF sleeve[Name].enabled THEN 0 ELSE @ + 1]
  BY <1>3 DEF Claim
<1>6. /\ sleeve'[Name] =
           [enabled |-> sleeve[Name].enabled, entries |-> sleeve[Name].entries + 1,
            closed |-> sleeve[Name].closed, late |-> IF sleeve[Name].enabled THEN 0 ELSE 1,
            lost |-> sleeve[Name].lost]
      /\ \A name \in Sleeves : name # Name => sleeve'[name] = sleeve[name]
      /\ DOMAIN sleeve' = Sleeves /\ sleeve' = [name \in Sleeves |-> sleeve'[name]]
  BY <1>1, <1>4, <1>5
<1>7. sleeve' \in [Sleeves -> Ledger]
  <2>1. sleeve'[Name] \in Ledger
    BY <1>1, <1>6 DEF Ledger
  <2> QED
    BY <1>1, <1>6, <2>1
<1>8. PICK sym \in Symbols : sym = Symbol
  BY <1>1
<1>9. /\ sleeveOf'[sym] = Name /\ Live(sym)' = Name /\ Live(sym) = Manual
      /\ \A s \in Symbols : s # sym => /\ sleeveOf'[s] = sleeveOf[s]
                                       /\ s \in stale' <=> s \in stale
  BY <1>1, <1>2, <1>8 DEF Live, Free
<1>10. ASSUME NEW name \in Sleeves
       PROVE  /\ Is(Live(sym), name) = 0
              /\ Is(sleeveOf[sym], name) \in {0, 1} /\ Is(Name, name) \in {0, 1}
              /\ sleeve[name].entries \in Nat /\ sleeve[name].closed \in Nat
              /\ sleeve[name].lost \in Nat
              /\ sleeve[name].late <= 1 /\ (sleeve[name].enabled => sleeve[name].late = 0)
  BY <1>1, <1>9 DEF Is, Ledger, LedgerHolds, LedgerBalances, EnabledOnTime
<1>11. \A name \in Sleeves :
         /\ sleeve'[name].entries = sleeve[name].entries + Is(Name, name)
         /\ sleeve'[name].closed = sleeve[name].closed
         /\ sleeve'[name].lost = sleeve[name].lost
         /\ sleeve'[name].late <= 1
         /\ sleeve'[name].enabled => sleeve'[name].late = 0
  <2> TAKE name \in Sleeves
  <2>1. CASE name = Name
    BY <1>6, <2>1 DEF Is
  <2>2. CASE name # Name
    BY <1>6, <1>10, <2>2 DEF Is
  <2> QED
    BY <2>1, <2>2
<1>12. \A name \in Sleeves :
        /\ sleeve'[name].closed + sleeve[name].entries + Is(sleeveOf'[sym], name)
             <= sleeve[name].closed + sleeve'[name].entries + Is(sleeveOf[sym], name)
        /\ sleeve[name].closed + sleeve[name].lost + sleeve'[name].entries + Is(Live(sym), name)
             <= sleeve'[name].closed + sleeve'[name].lost + sleeve[name].entries
                + Is(Live(sym)', name)
        /\ sleeve'[name].late <= 1
        /\ sleeve'[name].enabled => sleeve'[name].late = 0
  <2> TAKE name \in Sleeves
  <2>1. Is(sleeveOf'[sym], name) = Is(Name, name) /\ Is(Live(sym)', name) = Is(Name, name)
    BY <1>9
  <2> QED
    BY <1>10, <1>11, <2>1
<1> QED
  BY <1>7, <1>9, <1>12, LedgerMoves

------------------------------------------------------------------------------
(* Those who act.                                                           *)

\* The engine, where it is, still stands while claims end or go stale: it may be
\* looking at the very symbol, which then has no claim to lose.
LEMMA SameEngine ==
    ASSUME ActorsHold, UNCHANGED engine,
           \A s \in Symbols : Free(s) => Free(s)',
           \A name \in Sleeves : sleeve'[name].late = 0 \/ sleeve'[name].late = sleeve[name].late
    PROVE  EngineStands'
<1>1. EngineStands
  BY DEF ActorsHold
<1>2. /\ Symbol' = Symbol /\ Name' = Name
      /\ engine.i \in DOMAIN Universe => Symbol \in Symbols
      /\ engine.k \in DOMAIN Registry => Name \in Sleeves
  BY Names DEF Symbol, Name
<1>3. engine.i \in DOMAIN Universe /\ Free(Symbol) => Free(Symbol)'
  <2>1. PICK s : s = Symbol
    OBVIOUS
  <2>2. engine.i \in DOMAIN Universe /\ Free(s) => Free(s)'
    BY <1>2, <2>1
  <2> QED
    BY <1>2, <2>1, <2>2 DEF Free
<1> QED
  BY <1>1, <1>2, <1>3 DEF EngineStands

LEMMA SameActors ==
    ASSUME ActorsHold, UNCHANGED <<engine, ticket, entries>>, fresh' \subseteq Symbols,
           \A s \in Symbols : Free(s) => Free(s)',
           \A name \in Sleeves : sleeve'[name].late = 0 \/ sleeve'[name].late = sleeve[name].late
    PROVE  ActorsHold'
<1>1. EngineStands'
  BY SameEngine
<1> QED
  BY <1>1 DEF ActorsHold, ActorTypes, TicketStands, EntriesBounded

\* The engine moves to a place where it has yet to look for an entry, goes on
\* with the symbol it is on, or dies.
LEMMA EngineMoves ==
    ASSUME ActorsHold, UNCHANGED <<ticket, entries>>, fresh' \subseteq Symbols,
           engine' \in [at : {"feed", "dead", "scan", "signals"}, i : 1 .. Len(Universe) + 1,
                        k : 1 .. Len(Registry) + 1, side : Sides \cup {0}],
           engine'.at = "signals" =>
               engine'.i \in DOMAIN Universe
               /\ (sleeveOf'[Universe[engine'.i]] = Manual \/ Universe[engine'.i] \in stale')
    PROVE  ActorsHold'
<1>1. MaxEntries \in Nat
  BY Names
<1>2. ActorTypes'
  BY DEF ActorsHold, ActorTypes
<1>3. EngineStands' /\ TicketStands'
  BY DEF ActorsHold, EngineStands, TicketStands, Symbol, Free
<1>4. EntriesBounded'
  <2>1. Routing(engine.at) \in {0, 1} /\ Routing(engine'.at) = 0
        /\ Routing(ticket.at) \in {0, 1} /\ entries \in Nat
    BY DEF Routing, ActorsHold, ActorTypes
  <2> QED
    BY <1>1, <2>1 DEF ActorsHold, EntriesBounded
<1> QED
  BY <1>2, <1>3, <1>4 DEF ActorsHold

\* The engine stops for good on what an exit raises.
LEMMA DeadStands ==
    ASSUME ActorsHold, UNCHANGED <<ticket, entries, fresh>>, engine' = Dead
    PROVE  ActorsHold'
<1>1. engine' = [at |-> "dead", i |-> 1, k |-> 1, side |-> 0]
  BY DEF Dead, Feed
<1>2. 1 \in 1 .. Len(Universe) + 1 /\ 1 \in 1 .. Len(Registry) + 1
  BY Names
<1>3. fresh' \subseteq Symbols
  BY DEF ActorsHold, ActorTypes
<1> QED
  BY <1>1, <1>2, <1>3, EngineMoves

------------------------------------------------------------------------------
(* Exits.                                                                   *)

LEMMA ExitsFree ==
    ASSUME CreditsHold, LedgerHolds, NEW sym \in Symbols, RecordExit(sym) \/ ExitUnrecorded(sym)
    PROVE  /\ \A s \in Symbols : Free(s) => Free(s)'
           /\ \A name \in Sleeves : sleeve'[name].late = sleeve[name].late
<1>1. sleeve \in [Sleeves -> Ledger] /\ sleeveOf \in [Symbols -> Sleeves \cup {Manual}]
  BY DEF LedgerHolds, CreditsHold, CreditTypes
<1>2. CASE RecordExit(sym)
  BY <1>1, <1>2 DEF RecordExit, Free, Ledger
<1>3. CASE ExitUnrecorded(sym)
  BY <1>1, <1>3 DEF ExitUnrecorded, Free, Ledger
<1> QED
  BY <1>2, <1>3

\* An exit that the lots survive is counted, or its claim goes stale.
LEMMA ExitKeeps ==
    ASSUME DeskIInv, NEW sym \in Symbols, LotsHold', Exited(sym),
           RecordExit(sym) \/ ExitUnrecorded(sym),
           UNCHANGED <<fresh, ticket, parted, entries>>, engine' = engine \/ engine' = Dead
    PROVE  DeskIInv'
<1>1. LotsHold /\ CreditsHold /\ LedgerHolds /\ ActorsHold
  BY DEF DeskIInv
<1>2. CreditsHold'
  BY <1>1, RecordedCredits, UnrecordedCredits
<1>3. LedgerHolds'
  BY <1>1, <1>2, RecordedLedger, UnrecordedLedger
<1>4. ActorsHold'
  <2>1. fresh' \subseteq Symbols
    BY <1>1 DEF ActorsHold, ActorTypes
  <2>2. CASE engine' = engine
    BY <1>1, <2>1, <2>2, ExitsFree, SameActors
  <2>3. CASE engine' = Dead
    BY <1>1, <2>3, DeadStands
  <2> QED
    BY <2>2, <2>3
<1> QED
  BY <1>2, <1>3, <1>4 DEF DeskIInv

LEMMA ExitsKeep ==
    ASSUME DeskIInv, NEW sym \in Symbols,
           StopHit(sym) \/ PhantomStop(sym) \/ TrailOut(sym) \/ ClosePosition(sym)
    PROVE  DeskIInv'
<1>1. LotsHold
  BY DEF DeskIInv
<1>2. CASE StopHit(sym)
  <2>1. LotsHold'
    BY <1>1, <1>2, StopHitLots DEF StopHit
  <2> QED
    BY <1>2, <2>1, ExitKeeps DEF StopHit
<1>3. CASE PhantomStop(sym)
  <2>1. LotsHold'
    BY <1>1, <1>3, PhantomStopLots
  <2> QED
    BY <1>3, <2>1, ExitKeeps DEF PhantomStop
<1>4. ASSUME ActiveExit(sym) \/ ExitRaises(sym)
      PROVE  LotsHold' /\ Exited(sym) /\ (RecordExit(sym) \/ ExitUnrecorded(sym))
  <2>1. MarketOut(sym) \/ BuyRefused(sym)
    BY <1>4 DEF ActiveExit, Overlooked, ExitRaises
  <2>2. LotsHold'
    BY <1>1, <2>1, MarketOutLots, BuyRefusedLots
  <2> QED
    BY <1>4, <2>2 DEF ActiveExit, ExitRaises, Overlooked, MarketOut, BuyRefused
<1>5. CASE TrailOut(sym) \/ ClosePosition(sym)
  <2>1. /\ ActiveExit(sym) \/ ExitRaises(sym)
        /\ UNCHANGED <<fresh, ticket, parted, entries>> /\ (engine' = engine \/ engine' = Dead)
    BY <1>5 DEF TrailOut, ClosePosition
  <2> QED
    BY <1>4, <2>1, ExitKeeps
<1> QED
  BY <1>2, <1>3, <1>5

\* Stops that fire on a symbol whose position stays, or that the book has left.
LEMMA FiresKeep ==
    ASSUME DeskIInv, NEW sym \in Symbols,
           (\E side \in Sides : OrphanFires(sym, side)) \/ WrongStopFires(sym)
    PROVE  DeskIInv'
<1>1. LotsHold /\ CreditsHold /\ LedgerHolds /\ ActorsHold
  BY DEF DeskIInv
<1>2. LotsHold'
  BY <1>1, OrphanFiresLots, WrongStopLots
<1>3. UNCHANGED <<tallyVars, fresh, engine, ticket, parted, entries>>
  BY DEF OrphanFires, WrongStopFires
<1>4. \A s \in Symbols : pos'[s].open = pos[s].open /\ pos'[s].opener = pos[s].opener
  BY <1>1 DEF OrphanFires, WrongStopFires, LotsHold, PosTypes
<1>5. CreditsHold' /\ LedgerHolds'
  BY <1>1, <1>3, <1>4, SameCredits, SameLedger DEF tallyVars
<1>6. ActorsHold'
  <2>1. \A s \in Symbols : Free(s) => Free(s)'
    BY <1>3 DEF Free, tallyVars
  <2>2. fresh' \subseteq Symbols
    BY <1>1, <1>3 DEF ActorsHold, ActorTypes
  <2> QED
    BY <1>1, <1>3, <2>1, <2>2, SameActors DEF tallyVars
<1> QED
  BY <1>2, <1>5, <1>6 DEF DeskIInv

------------------------------------------------------------------------------
(* Entries. The bound on them has room for the one of each caller.          *)

LEMMA ClaimKeeps ==
    ASSUME DeskIInv, Claim
    PROVE  DeskIInv'
<1>1. LotsHold /\ CreditsHold /\ LedgerHolds /\ ActorsHold
  BY DEF DeskIInv
<1>2. /\ Symbol \in Symbols /\ Name \in Sleeves \cup {Manual} /\ engine.side \in Sides
      /\ engine.i \in 1 .. Len(Universe)
  BY <1>1, Names DEF Claim, ActorsHold, EngineStands, Symbol, Name
<1>3. Enter(Symbol, engine.side, Name)
      /\ sleeveOf' = [sleeveOf EXCEPT ![Symbol] = Name] /\ stale' = stale \ {Symbol}
  BY DEF Claim
<1>4. LotsHold' /\ CreditsHold'
  BY <1>1, <1>2, <1>3, EnterLots, EnterCredits
<1>5. LedgerHolds'
  BY <1>1, <1>4, ClaimLedger
<1>6. MaxEntries \in Nat /\ Len(Universe) \in Nat /\ Len(Registry) \in Nat
  BY Names
<1>7. /\ engine' = [at |-> "scan", i |-> engine.i + 1, k |-> 1, side |-> 0]
      /\ entries' = entries + 1 /\ UNCHANGED <<fresh, ticket>>
      /\ engine.at = "routing"
  BY <1>1 DEF Claim, Enter, NextSymbol, ActorsHold, ActorTypes
<1>8. entries' \in 0 .. MaxEntries + 1 /\ EntriesBounded'
  <2>1. Routing(engine.at) = 1 /\ Routing(engine'.at) = 0
        /\ Routing(ticket.at) \in {0, 1} /\ entries \in Nat
    BY <1>1, <1>7 DEF Routing, ActorsHold, ActorTypes
  <2> QED
    BY <1>1, <1>6, <1>7, <2>1 DEF ActorsHold, EntriesBounded
<1>9. ActorTypes'
  BY <1>1, <1>2, <1>6, <1>7, <1>8 DEF ActorsHold, ActorTypes
<1>10. EngineStands' /\ TicketStands'
  BY <1>1, <1>7 DEF ActorsHold, EngineStands, TicketStands
<1> QED
  BY <1>4, <1>5, <1>8, <1>9, <1>10 DEF DeskIInv, ActorsHold

LEMMA TicketAcceptedKeeps ==
    ASSUME DeskIInv, TicketAccepted
    PROVE  DeskIInv'
<1>1. LotsHold /\ CreditsHold /\ LedgerHolds /\ ActorsHold
      /\ MaxEntries \in Nat /\ Universe[1] \in Symbols
  BY Names DEF DeskIInv
<1>2. /\ ticket.sym \in Symbols /\ ticket.side \in Sides /\ ticket.at = "routing"
      /\ Enter(ticket.sym, ticket.side, Manual) /\ UNCHANGED tallyVars
  BY <1>1 DEF ActorsHold, ActorTypes, TicketStands, TicketAccepted
<1>3. LotsHold' /\ CreditsHold'
  BY <1>1, <1>2, EnterLots, EnterCredits DEF tallyVars
<1>4. LedgerHolds'
  BY <1>1, <1>2, SameLedger
<1>5. /\ ticket' = [at |-> "idle", sym |-> Universe[1], side |-> 0]
      /\ entries' = entries + 1 /\ UNCHANGED <<tallyVars, fresh, engine>>
  BY DEF TicketAccepted, Enter, Idle
<1>6. entries' \in 0 .. MaxEntries + 1 /\ EntriesBounded'
  <2>1. Routing(ticket.at) = 1 /\ Routing(ticket'.at) = 0
        /\ Routing(engine.at) \in {0, 1} /\ entries \in Nat
    BY <1>1, <1>2, <1>5 DEF Routing, ActorsHold, ActorTypes
  <2> QED
    BY <1>1, <1>5, <2>1 DEF ActorsHold, EntriesBounded
<1>7. ActorTypes' /\ TicketStands'
  BY <1>1, <1>5, <1>6 DEF ActorsHold, ActorTypes, TicketStands
<1>8. EngineStands'
  <2>1. \A s \in Symbols : Free(s) => Free(s)'
    BY <1>5 DEF Free, tallyVars
  <2> QED
    BY <1>1, <1>5, <2>1, SameEngine DEF tallyVars
<1> QED
  BY <1>3, <1>4, <1>6, <1>7, <1>8 DEF DeskIInv, ActorsHold

------------------------------------------------------------------------------
(* The steps of the engine and of the operator that book nothing.           *)

LEMMA BookedNothing ==
    ASSUME DeskIInv, UNCHANGED bookVars, ActorsHold'
    PROVE  DeskIInv'
<1>1. UNCHANGED <<tallyVars, sleeveOf, stale, pos, held, orphans, astray, parted>>
  BY DEF bookVars, tallyVars, lotVars
<1>2. LotsHold'
  BY <1>1, SameLots DEF DeskIInv
<1>3. CreditsHold' /\ LedgerHolds'
  BY <1>1, SameCredits, SameLedger DEF DeskIInv
<1> QED
  BY <1>2, <1>3 DEF DeskIInv

\* A symbol that no position is open on is free: that is where the engine comes
\* to "signals".
LEMMA LooksOn ==
    ASSUME DeskIInv,
           \/ Pass \/ PassEnds \/ (\E enough \in BOOLEAN : Scan(enough))
           \/ NoSignal \/ Rejected \/ SymbolDone
    PROVE  DeskIInv'
<1> DEFINE Places == [at : {"feed", "dead", "scan", "signals"}, i : 1 .. Len(Universe) + 1,
                      k : 1 .. Len(Registry) + 1, side : Sides \cup {0}]
<1>1. ActorsHold
  BY DEF DeskIInv
<1>2. /\ Len(Universe) \in Nat /\ Len(Registry) \in Nat
      /\ DOMAIN Universe = 1 .. Len(Universe) /\ DOMAIN Registry = 1 .. Len(Registry)
      /\ 1 \in 1 .. Len(Universe) + 1 /\ 1 \in 1 .. Len(Registry) + 1 /\ 0 \in Sides \cup {0}
  BY Names
<1>3. /\ engine.i \in 1 .. Len(Universe) + 1 /\ engine.k \in 1 .. Len(Registry) + 1
      /\ engine.side \in Sides \cup {0} /\ fresh \subseteq Symbols
      /\ engine.at \in {"feed", "dead", "scan", "signals", "routing"}
      /\ engine = [at |-> engine.at, i |-> engine.i, k |-> engine.k, side |-> engine.side]
  BY <1>1 DEF ActorsHold, ActorTypes
<1>4. /\ Feed \in Places /\ [Feed EXCEPT !.at = "scan"] \in Places
      /\ Feed.at = "feed" /\ [Feed EXCEPT !.at = "scan"].at = "scan"
  BY <1>2 DEF Feed
<1>5. engine.i \in DOMAIN Universe => NextSymbol \in Places /\ NextSymbol.at = "scan"
  <2>1. PICK next : next = NextSymbol
    OBVIOUS
  <2>2. next = [at |-> "scan", i |-> engine.i + 1, k |-> 1, side |-> 0]
    BY <1>1, <1>2, <2>1 DEF NextSymbol, ActorsHold, ActorTypes
  <2> QED
    BY <1>2, <1>3, <2>1, <2>2
<1>6. engine.k \in DOMAIN Registry => /\ NextSleeve \in Places /\ NextSleeve.at = "signals"
                                      /\ NextSleeve.i = engine.i
  <2>1. PICK next : next = NextSleeve
    OBVIOUS
  <2>2. next = [at |-> "signals", i |-> engine.i, k |-> engine.k + 1, side |-> 0]
    BY <1>1, <1>2, <2>1 DEF NextSleeve, ActorsHold, ActorTypes
  <2> QED
    BY <1>2, <1>3, <2>1, <2>2
<1>7. UNCHANGED bookVars => UNCHANGED <<sleeveOf, stale, entries>>
  BY DEF bookVars, tallyVars
<1>8. CASE Pass \/ PassEnds
  <2>1. /\ UNCHANGED <<bookVars, fresh, ticket>>
        /\ engine' = Feed \/ engine' = [Feed EXCEPT !.at = "scan"]
    BY <1>8 DEF Pass, PassEnds
  <2>2. ActorsHold'
    BY <1>1, <1>3, <1>4, <1>7, <2>1, EngineMoves
  <2> QED
    BY <2>1, <2>2, BookedNothing
<1>9. CASE \E enough \in BOOLEAN : Scan(enough)
  <2>1. PICK enough \in BOOLEAN : Scan(enough)
    BY <1>9
  <2>2. /\ fresh' \subseteq Symbols /\ engine.i \in DOMAIN Universe /\ engine.at = "scan"
        /\ UNCHANGED <<bookVars, ticket>>
    BY <1>3, <2>1 DEF Scan, Seen
  <2>3. CASE engine' = NextSymbol
    <3>1. ActorsHold'
      BY <1>1, <1>5, <1>7, <2>2, <2>3, EngineMoves
    <3> QED
      BY <2>2, <3>1, BookedNothing
  <2>4. CASE engine' = [engine EXCEPT !.at = "signals"] /\ ~ IsOpen(Symbol)
    <3>1. engine' = [at |-> "signals", i |-> engine.i, k |-> engine.k, side |-> engine.side]
      BY <1>3, <2>4
    <3>2. Symbol \in Symbols /\ Symbol = Universe[engine.i]
      BY <2>2, Names DEF Symbol
    <3>3. sleeveOf[Symbol] = Manual \/ Symbol \in stale
      BY <2>4, <3>2 DEF DeskIInv, CreditsHold, CreditAt
    <3>4. engine'.i = engine.i /\ engine' \in Places
      BY <1>3, <3>1
    <3>5. sleeveOf'[Universe[engine'.i]] = Manual \/ Universe[engine'.i] \in stale'
      BY <1>7, <2>2, <3>2, <3>3, <3>4
    <3>6. ActorsHold'
      BY <1>1, <1>7, <2>2, <3>4, <3>5, EngineMoves
    <3> QED
      BY <2>2, <3>6, BookedNothing
  <2> QED
    BY <2>1, <2>3, <2>4 DEF Scan
<1>10. CASE NoSignal \/ Rejected
  <2>1. /\ engine' = NextSleeve /\ UNCHANGED <<bookVars, fresh, ticket>>
        /\ engine.k \in DOMAIN Registry /\ engine.i \in DOMAIN Universe
        /\ sleeveOf[Universe[engine.i]] = Manual \/ Universe[engine.i] \in stale
    BY <1>1, <1>10 DEF NoSignal, Rejected, ActorsHold, EngineStands, Symbol, Free
  <2>2. ActorsHold'
    BY <1>1, <1>3, <1>6, <1>7, <2>1, EngineMoves
  <2> QED
    BY <2>1, <2>2, BookedNothing
<1>11. CASE SymbolDone
  <2>1. /\ engine.i \in DOMAIN Universe /\ engine' = NextSymbol
        /\ UNCHANGED <<bookVars, fresh, ticket>>
    BY <1>1, <1>11 DEF SymbolDone, ActorsHold, EngineStands
  <2>2. ActorsHold'
    BY <1>1, <1>3, <1>5, <1>7, <2>1, EngineMoves
  <2> QED
    BY <2>1, <2>2, BookedNothing
<1> QED
  BY <1>8, <1>9, <1>10, <1>11

\* A sleeve that signals is on, so it has had no entry since it was last off.
LEMMA SignalKeeps ==
    ASSUME DeskIInv, NEW side \in Sides, Signal(side)
    PROVE  DeskIInv'
<1>1. ActorsHold /\ LedgerHolds /\ MaxEntries \in Nat
  BY Names DEF DeskIInv
<1>2. /\ engine.k \in DOMAIN Registry /\ engine.i \in DOMAIN Universe
      /\ Free(Symbol) /\ Name \in Sleeves /\ sleeve[Name].late = 0
      /\ entries < MaxEntries /\ UNCHANGED <<bookVars, fresh, ticket>>
      /\ engine.at = "signals" /\ engine' = [engine EXCEPT !.at = "routing", !.side = side]
  BY <1>1, Names DEF Signal, ActorsHold, EngineStands, MaySignal, Name, LedgerHolds, EnabledOnTime
<1>3. UNCHANGED <<sleeve, sleeveOf, stale, entries>>
  BY <1>2 DEF bookVars, tallyVars
<1>4. engine' = [at |-> "routing", i |-> engine.i, k |-> engine.k, side |-> side]
  BY <1>1, <1>2 DEF ActorsHold, ActorTypes
<1>5. ActorTypes' /\ TicketStands'
  BY <1>1, <1>2, <1>3, <1>4 DEF ActorsHold, ActorTypes, TicketStands
<1>6. EngineStands'
  <2>1. Symbol' = Symbol /\ Name' = Name
    BY <1>4 DEF Symbol, Name
  <2> QED
    BY <1>2, <1>3, <1>4, <2>1 DEF EngineStands, Free
<1>7. EntriesBounded'
  <2>1. Routing(engine'.at) = 1 /\ Routing(ticket.at) \in {0, 1} /\ entries \in Nat
    BY <1>1, <1>4 DEF Routing, ActorsHold, ActorTypes
  <2> QED
    BY <1>1, <1>2, <1>3, <2>1 DEF EntriesBounded
<1> QED
  BY <1>2, <1>5, <1>6, <1>7, BookedNothing DEF ActorsHold

LEMMA DisableIs ==
    ASSUME NEW l \in Ledger
    PROVE  /\ Disable(l) \in Ledger /\ Disable(l).late = 0 /\ Disable(l).enabled = FALSE
           /\ Disable(l).entries = l.entries /\ Disable(l).closed = l.closed
           /\ Disable(l).lost = l.lost
BY DEF Disable, Ledger

LEMMA SignalThrowsKeeps ==
    ASSUME DeskIInv, SignalThrows
    PROVE  DeskIInv'
<1>1. LotsHold /\ CreditsHold /\ LedgerHolds /\ ActorsHold
  BY DEF DeskIInv
<1>2. /\ Name \in Sleeves /\ engine' = NextSleeve /\ engine.k \in DOMAIN Registry
      /\ engine.i \in DOMAIN Universe
      /\ sleeveOf[Universe[engine.i]] = Manual \/ Universe[engine.i] \in stale
      /\ sleeve' = [sleeve EXCEPT ![Name] = Disable(@)]
      /\ UNCHANGED <<sleeveOf, stale, fresh, pos, held, orphans, astray, ticket, parted, entries>>
  BY <1>1, Names DEF SignalThrows, ActorsHold, EngineStands, Name, Symbol, Free, lotVars
<1>3. sleeve \in [Sleeves -> Ledger] /\ sleeve[Name] \in Ledger
  BY <1>1, <1>2 DEF LedgerHolds
<1>4. /\ sleeve' \in [Sleeves -> Ledger] /\ sleeve'[Name] = Disable(sleeve[Name])
      /\ \A name \in Sleeves : name # Name => sleeve'[name] = sleeve[name]
  BY <1>2, <1>3, DisableIs
<1>5. LedgerHolds'
  <2>1. \A name \in Sleeves : sleeve[name].enabled => sleeve[name].late = 0
    BY <1>1 DEF LedgerHolds, EnabledOnTime
  <2> QED
    BY <1>1, <1>2, <1>3, <1>4, <2>1, DisableIs, SwitchedLedger
<1>6. LotsHold' /\ CreditsHold'
  BY <1>1, <1>2, SameLots, SameCredits
<1>7. ActorsHold'
  <2>1. /\ engine \in [at : {"feed", "dead", "scan", "signals", "routing"},
                       i : 1 .. Len(Universe) + 1, k : 1 .. Len(Registry) + 1, side : Sides \cup {0}]
        /\ fresh \subseteq Symbols
    BY <1>1 DEF ActorsHold, ActorTypes
  <2>2. engine' = [at |-> "signals", i |-> engine.i, k |-> engine.k + 1, side |-> 0]
    BY <1>2, <2>1 DEF NextSleeve
  <2>3. engine' \in [at : {"feed", "dead", "scan", "signals"}, i : 1 .. Len(Universe) + 1,
                     k : 1 .. Len(Registry) + 1, side : Sides \cup {0}]
    BY <1>2, <2>1, <2>2, Names
  <2> QED
    BY <1>1, <1>2, <2>1, <2>2, <2>3, EngineMoves
<1> QED
  BY <1>5, <1>6, <1>7 DEF DeskIInv

LEMMA ToggleKeeps ==
    ASSUME DeskIInv, NEW name \in Sleeves, NEW enabled \in BOOLEAN, Toggle(name, enabled)
    PROVE  DeskIInv'
<1> DEFINE now == IF enabled THEN [sleeve[name] EXCEPT !.enabled = TRUE, !.late = 0]
                  ELSE IF sleeve[name].enabled THEN Disable(sleeve[name]) ELSE sleeve[name]
<1>1. LotsHold /\ CreditsHold /\ LedgerHolds /\ ActorsHold
  BY DEF DeskIInv
<1>2. /\ sleeve' = [sleeve EXCEPT ![name] = now]
      /\ UNCHANGED <<sleeveOf, stale, fresh, pos, held, orphans, astray, engine, ticket, parted, entries>>
  BY DEF Toggle, lotVars
<1>3. /\ sleeve \in [Sleeves -> Ledger] /\ sleeve[name] \in Ledger
      /\ \A n \in Sleeves : sleeve[n].enabled => sleeve[n].late = 0
  BY <1>1 DEF LedgerHolds, EnabledOnTime
<1>4. /\ now \in Ledger /\ now.entries = sleeve[name].entries
      /\ now.closed = sleeve[name].closed /\ now.lost = sleeve[name].lost
      /\ now.late = 0 \/ now.late = sleeve[name].late
      /\ now.enabled => now.late = 0
  <2>1. \A l \in Ledger : LET on == [l EXCEPT !.enabled = TRUE, !.late = 0]
                          IN  /\ on \in Ledger /\ on.late = 0 /\ on.lost = l.lost
                              /\ on.entries = l.entries /\ on.closed = l.closed
    BY DEF Ledger
  <2> QED
    BY <1>3, <2>1, DisableIs
<1> HIDE DEF now
<1>5. /\ sleeve' \in [Sleeves -> Ledger] /\ sleeve'[name] = now
      /\ \A other \in Sleeves : other # name => sleeve'[other] = sleeve[other]
  BY <1>2, <1>3, <1>4
<1>6. LedgerHolds'
  BY <1>1, <1>2, <1>3, <1>4, <1>5, SwitchedLedger
<1>7. LotsHold' /\ CreditsHold'
  BY <1>1, <1>2, SameLots, SameCredits
<1>8. ActorsHold'
  <2>1. fresh' \subseteq Symbols
    BY <1>1, <1>2 DEF ActorsHold, ActorTypes
  <2>2. \A s \in Symbols : Free(s) => Free(s)'
    BY <1>2 DEF Free
  <2>3. \A n \in Sleeves : sleeve'[n].late = 0 \/ sleeve'[n].late = sleeve[n].late
    BY <1>4, <1>5
  <2> QED
    BY <1>1, <1>2, <2>1, <2>2, <2>3, SameActors
<1> QED
  BY <1>6, <1>7, <1>8 DEF DeskIInv

\* A ticket's prices fire stops, whether or not it gets to its await.
LEMMA PlaceOrderKeeps ==
    ASSUME DeskIInv, NEW sym \in Symbols, NEW side \in Sides, PlaceOrder(sym, side)
    PROVE  DeskIInv'
<1>1. LotsHold /\ CreditsHold /\ LedgerHolds /\ ActorsHold /\ MaxEntries \in Nat
  BY Names DEF DeskIInv
<1>2. /\ UNCHANGED <<sleeve, sleeveOf, stale, fresh, engine, parted, astray, entries>>
      /\ Primes(sym) /\ ticket.at = "idle"
      /\ \/ UNCHANGED ticket
         \/ /\ entries < MaxEntries
            /\ ticket' = [at |-> "routing", sym |-> sym, side |-> side]
  BY DEF PlaceOrder, tallyVars
<1>3. /\ LotsHold'
      /\ \A s \in Symbols : pos'[s].open = pos[s].open /\ pos'[s].opener = pos[s].opener
  BY <1>1, <1>2, PrimesLots
<1>4. CreditsHold' /\ LedgerHolds'
  BY <1>1, <1>2, <1>3, SameCredits, SameLedger DEF tallyVars
<1>5. EngineStands'
  <2>1. \A s \in Symbols : Free(s) => Free(s)'
    BY <1>2 DEF Free
  <2> QED
    BY <1>1, <1>2, <2>1, SameEngine
<1>6. CASE UNCHANGED ticket
  BY <1>1, <1>2, <1>3, <1>4, <1>5, <1>6
     DEF DeskIInv, ActorsHold, ActorTypes, TicketStands, EntriesBounded
<1>7. CASE entries < MaxEntries /\ ticket' = [at |-> "routing", sym |-> sym, side |-> side]
  <2>1. ActorTypes' /\ TicketStands'
    BY <1>1, <1>2, <1>7 DEF ActorsHold, ActorTypes, TicketStands
  <2>2. EntriesBounded'
    <3>1. Routing(ticket'.at) = 1 /\ Routing(engine.at) \in {0, 1} /\ entries \in Nat
      BY <1>1, <1>7 DEF Routing, ActorsHold, ActorTypes
    <3> QED
      BY <1>1, <1>2, <1>7, <3>1 DEF EntriesBounded
  <2> QED
    BY <1>3, <1>4, <1>5, <2>1, <2>2 DEF DeskIInv, ActorsHold
<1> QED
  BY <1>2, <1>6, <1>7

LEMMA TicketRejectedKeeps ==
    ASSUME DeskIInv, TicketRejected
    PROVE  DeskIInv'
<1>1. ActorsHold /\ MaxEntries \in Nat /\ Universe[1] \in Symbols
  BY Names DEF DeskIInv
<1>2. /\ ticket' = [at |-> "idle", sym |-> Universe[1], side |-> 0]
      /\ UNCHANGED <<bookVars, fresh, engine>>
      /\ UNCHANGED <<sleeve, sleeveOf, stale, entries>>
  BY DEF TicketRejected, Idle, bookVars, tallyVars
<1>3. ActorTypes' /\ TicketStands'
  BY <1>1, <1>2 DEF ActorsHold, ActorTypes, TicketStands
<1>4. EntriesBounded'
  <2>1. /\ Routing(ticket'.at) = 0 /\ Routing(ticket.at) \in {0, 1}
        /\ Routing(engine.at) \in {0, 1} /\ entries \in Nat
    BY <1>1, <1>2 DEF Routing, ActorsHold, ActorTypes
  <2> QED
    BY <1>1, <1>2, <2>1 DEF ActorsHold, EntriesBounded
<1>5. EngineStands'
  <2>1. \A s \in Symbols : Free(s) => Free(s)'
    BY <1>2 DEF Free
  <2> QED
    BY <1>1, <1>2, <2>1, SameEngine
<1> QED
  BY <1>2, <1>3, <1>4, <1>5, BookedNothing DEF ActorsHold

\* A bar completes, the feed loop dies of a stop that is gone, or nothing happens.
LEMMA BarsKeep ==
    ASSUME DeskIInv,
           (\E sym \in Symbols : BarCompletes(sym) \/ RatchetRaises(sym)) \/ UNCHANGED deskVars
    PROVE  DeskIInv'
<1>1. ActorsHold /\ fresh \subseteq Symbols
  BY DEF DeskIInv, ActorsHold, ActorTypes
<1>2. /\ UNCHANGED <<bookVars, ticket>>
      /\ fresh' \subseteq Symbols /\ (engine' = engine \/ (engine' = Dead /\ fresh' = fresh))
  BY <1>1 DEF BarCompletes, RatchetRaises, deskVars
<1>3. UNCHANGED <<sleeve, sleeveOf, stale, entries>>
  BY <1>2 DEF bookVars, tallyVars
<1>4. ActorsHold'
  <2>1. \A s \in Symbols : Free(s) => Free(s)'
    BY <1>3 DEF Free
  <2>2. CASE engine' = engine
    BY <1>1, <1>2, <1>3, <2>1, <2>2, SameActors
  <2>3. CASE engine' = Dead /\ fresh' = fresh
    BY <1>1, <1>2, <1>3, <2>3, DeadStands
  <2> QED
    BY <1>2, <2>2, <2>3
<1> QED
  BY <1>2, <1>4, BookedNothing

------------------------------------------------------------------------------
(* The theorems.                                                            *)

LEMMA InitDeskIInv == DeskInit => DeskIInv
<1> SUFFICES ASSUME DeskInit
             PROVE  DeskIInv
  OBVIOUS
<1>1. /\ sleeve = [s \in Sleeves |-> [enabled |-> FALSE, entries |-> 0, closed |-> 0,
                                      late |-> 0, lost |-> 0]]
      /\ sleeveOf = [s \in Symbols |-> Manual]
      /\ pos = [s \in Symbols |-> [open |-> FALSE, side |-> 0, stop |-> 0, opener |-> Manual]]
      /\ held = [s \in Symbols |-> 0]
      /\ orphans = [s \in Symbols |-> [d \in Sides |-> 0]]
      /\ parted = {} /\ fresh = {} /\ astray = {} /\ stale = {} /\ entries = 0
      /\ engine = [at |-> "feed", i |-> 1, k |-> 1, side |-> 0]
      /\ ticket = [at |-> "idle", sym |-> Universe[1], side |-> 0]
  BY DEF DeskInit, Feed, Idle, NoPosition
<1>2. /\ Manual \notin Sleeves /\ MaxEntries \in Nat /\ Universe[1] \in Symbols
      /\ Len(Universe) \in Nat /\ Len(Registry) \in Nat
  BY Names
<1>3. LotsHold
  <2>1. PosTypes /\ LotTypes
    BY <1>1 DEF PosTypes, LotTypes
  <2>2. ASSUME NEW s \in Symbols
        PROVE  LotAt(s)
    <3>1. pos[s].open = FALSE /\ pos[s].stop = 0 /\ held[s] = 0
          /\ orphans[s][1] = 0 /\ orphans[s][-1] = 0
      BY <1>1 DEF Sides
    <3> QED
      BY <3>1 DEF LotAt, IsOpen
  <2> QED
    BY <2>1, <2>2 DEF LotsHold
<1>4. CreditsHold
  BY <1>1 DEF CreditsHold, CreditTypes, CreditAt, IsOpen
<1>5. LedgerHolds
  <2>1. sleeve \in [Sleeves -> Ledger] /\ EnabledOnTime
    BY <1>1 DEF Ledger, EnabledOnTime
  <2>2. ASSUME NEW name \in Sleeves
        PROVE  Cardinality(Claims(name)) = 0 /\ Cardinality(Claims(name) \ stale) = 0
    <3>1. Claims(name) = {} /\ Claims(name) \ stale = {}
      BY <1>1, <1>2 DEF Claims
    <3> QED
      BY <3>1, FS_EmptySet
  <2> QED
    BY <1>1, <2>1, <2>2 DEF LedgerHolds, LedgerBalances
<1>6. ActorsHold
  <2>1. ActorTypes
    <3>1. 1 \in 1 .. Len(Universe) + 1 /\ 1 \in 1 .. Len(Registry) + 1 /\ 0 \in 0 .. MaxEntries + 1
      BY <1>2
    <3>2. engine \in [at : {"feed", "dead", "scan", "signals", "routing"},
                      i : 1 .. Len(Universe) + 1, k : 1 .. Len(Registry) + 1, side : Sides \cup {0}]
      BY <1>1, <3>1
    <3>3. ticket \in [at : {"idle", "routing"}, sym : Symbols, side : Sides \cup {0}]
      BY <1>1, <1>2
    <3> QED
      BY <1>1, <3>1, <3>2, <3>3 DEF ActorTypes
  <2>2. EngineStands /\ TicketStands /\ Routing(engine.at) = 0 /\ Routing(ticket.at) = 0
    BY <1>1 DEF EngineStands, TicketStands, Routing
  <2> QED
    BY <1>1, <1>2, <2>1, <2>2 DEF ActorsHold, EntriesBounded
<1> QED
  BY <1>3, <1>4, <1>5, <1>6 DEF DeskIInv

LEMMA StepDeskIInv == DeskIInv /\ [DeskNext]_deskVars => DeskIInv'
<1> SUFFICES ASSUME DeskIInv, [DeskNext]_deskVars
             PROVE  DeskIInv'
  OBVIOUS
<1>1. CASE UNCHANGED deskVars
  BY <1>1, BarsKeep
<1>2. CASE EngineStep
  BY <1>2, LooksOn, SignalKeeps, SignalThrowsKeeps, ClaimKeeps DEF EngineStep
<1>3. ASSUME NEW sym \in Symbols,
             \/ StopHit(sym) \/ PhantomStop(sym) \/ TrailOut(sym) \/ ClosePosition(sym)
      PROVE  DeskIInv'
  BY <1>3, ExitsKeep
<1>4. ASSUME NEW sym \in Symbols,
             \/ WrongStopFires(sym)
             \/ \E side \in Sides : OrphanFires(sym, side) \/ PlaceOrder(sym, side)
      PROVE  DeskIInv'
  BY <1>4, FiresKeep, PlaceOrderKeeps
<1>5. ASSUME NEW sym \in Symbols, BarCompletes(sym) \/ RatchetRaises(sym)
      PROVE  DeskIInv'
  BY <1>5, BarsKeep
<1>6. CASE TicketAccepted \/ TicketRejected
  BY <1>6, TicketAcceptedKeeps, TicketRejectedKeeps
<1>7. CASE \E name \in Sleeves, enabled \in BOOLEAN : Toggle(name, enabled)
  BY <1>7, ToggleKeeps
<1> QED
  BY <1>1, <1>2, <1>3, <1>4, <1>5, <1>6, <1>7 DEF DeskNext

\* The strengthened invariant, for any universe, registry and number of entries,
\* over every interleaving of the feed loop (run_paper.py:330) with the handlers
\* of the gateway at the await of route_order, exits that are refused or raise
\* and stops that fire on a ticket's way included.
THEOREM DeskInvariance == DeskSpec => []DeskIInv
<1>1. DeskInit => DeskIInv
  BY InitDeskIInv
<1>2. DeskIInv /\ [DeskNext]_deskVars => DeskIInv'
  BY StepDeskIInv
<1> QED
  BY <1>1, <1>2, PTL DEF DeskSpec

\* The ledgers, the book, the engine and the ticket have their types, and the
\* entries never pass the bound of the model by more than the other caller's one.
THEOREM DeskTypeCorrect == DeskSpec => []DeskTypeOK
<1>1. DeskIInv => DeskTypeOK
  BY DEF DeskIInv, DeskTypeOK, LotsHold, PosTypes, LotTypes, CreditsHold, CreditTypes,
         LedgerHolds, Ledger, ActorsHold, ActorTypes
<1> QED
  BY <1>1, DeskInvariance, PTL

\* Whatever the operator enters over (run_paper.py:330), whichever stop is taken
\* as hit too early or fires on a ticket's way, every lot at the broker has a stop
\* of its side and every stop its lot, on a symbol where no mt5 entry went against
\* the net position (paper_server.py:90-104), no exit was refused
\* (exit_manager.py:195) and none sold what its stop had sold.
THEOREM LotsAlwaysCovered == DeskSpec => []LotsCovered
<1>1. DeskIInv => LotsCovered
  BY DEF DeskIInv, LotsHold, LotAt, LotsCovered
<1> QED
  BY <1>1, DeskInvariance, PTL

\* Every entry record_entry counts (strategy_engine.py:113) is closed, claimed, or
\* lost to an exit that raised (exit_manager.py:195), none is counted twice, and
\* after a toggle or a throw at most the entry that was awaiting route_order
\* (cockpit_gateway.py:452) is booked.
THEOREM LedgersBalance == DeskSpec => []LedgerBalances
<1>1. DeskIInv => LedgerBalances
  BY DEF DeskIInv, LedgerHolds
<1> QED
  BY <1>1, DeskInvariance, PTL

\* On a symbol no entry was booked over, and no claim of which outlived an exit
\* that raised, the sleeve that is credited with the exit is the one that opened,
\* and nobody where the operator did (strategy_engine.py:20).
THEOREM CreditedRightly == DeskSpec => []CreditedToOpener
<1>1. DeskIInv => CreditedToOpener
  BY DEF DeskIInv, CreditsHold, CreditAt, CreditedToOpener
<1> QED
  BY <1>1, DeskInvariance, PTL

------------------------------------------------------------------------------
(* Signals: what the sleeves want. Each indicator is the same on histories  *)
(* with the same past, since its window ends before the current bar.        *)

\* Two histories with the same bars before i
SamePast(b1, b2, i) == \A k \in 0 .. i - 1 : Bar(b1, k) = Bar(b2, k)

\* What the signals look at, is the past.
LEMMA SameIndicators ==
    ASSUME NEW b1, NEW b2, NEW i \in Nat, SamePast(b1, b2, i)
    PROVE  /\ i > 0 => Close(b1, i) = Close(b2, i)
           /\ \A n \in Nat \ {0} : HasSma(i, n) => SmaSum(b1, i, n) = SmaSum(b2, i, n)
           /\ \A n \in Nat \ {0} : HasMom(i, n) => /\ Bar(b1, i - 1 - n) = Bar(b2, i - 1 - n)
                                                   /\ Gains(b1, i, n) = Gains(b2, i, n)
                                                   /\ Losses(b1, i, n) = Losses(b2, i, n)
                                                   /\ Highest(b1, Channel(i, n)) = Highest(b2, Channel(i, n))
                                                   /\ Lowest(b1, Channel(i, n)) = Lowest(b2, Channel(i, n))
<1>1. \A k \in 0 .. i - 1 : Bar(b1, k) = Bar(b2, k)
  BY DEF SamePast
<1> HIDE DEF Bar
<1>2. i > 0 => Close(b1, i) = Close(b2, i)
  <2>1. i > 0 => i - 1 \in 0 .. i - 1
    OBVIOUS
  <2> QED
    BY <1>1, <2>1 DEF Close
<1>3. ASSUME NEW n \in Nat \ {0}, HasSma(i, n)
      PROVE  SmaSum(b1, i, n) = SmaSum(b2, i, n)
  <2>1. \A k \in Window(i, n) : Bar(b1, k) = Bar(b2, k)
    <3>1. \A k \in Window(i, n) : k \in 0 .. i - 1
      BY <1>3 DEF Window, HasSma
    <3> QED
      BY <1>1, <3>1
  <2>2. [k \in Window(i, n) |-> Bar(b1, k).close] = [k \in Window(i, n) |-> Bar(b2, k).close]
    BY <2>1
  <2> QED
    BY <2>2 DEF SmaSum
<1>4. ASSUME NEW n \in Nat \ {0}, HasMom(i, n)
      PROVE  /\ Bar(b1, i - 1 - n) = Bar(b2, i - 1 - n)
             /\ Gains(b1, i, n) = Gains(b2, i, n)
             /\ Losses(b1, i, n) = Losses(b2, i, n)
             /\ Highest(b1, Channel(i, n)) = Highest(b2, Channel(i, n))
             /\ Lowest(b1, Channel(i, n)) = Lowest(b2, Channel(i, n))
  <2>1. /\ n \in Nat /\ n > 0 /\ i - 1 - n >= 0 /\ i - 1 - n \in 0 .. i - 1
        /\ \A k \in i - n .. i - 1 : k \in 0 .. i - 1 /\ k - 1 \in 0 .. i - 1
        /\ \A k \in i - 1 - n .. i - 2 : k \in 0 .. i - 1
    BY <1>4 DEF HasMom
  <2>2. Bar(b1, i - 1 - n) = Bar(b2, i - 1 - n)
    BY <1>1, <2>1
  <2>3. \A k \in i - n .. i - 1 : Change(b1, k) = Change(b2, k)
    BY <1>1, <2>1 DEF Change
  <2>4. /\ [k \in i - n .. i - 1 |-> Gain(Change(b1, k))] = [k \in i - n .. i - 1 |-> Gain(Change(b2, k))]
        /\ [k \in i - n .. i - 1 |-> Loss(Change(b1, k))] = [k \in i - n .. i - 1 |-> Loss(Change(b2, k))]
    BY <2>3
  <2>5. \A k \in Channel(i, n) : Bar(b1, k) = Bar(b2, k)
    BY <1>1, <2>1 DEF Channel
  <2>6. /\ {Bar(b1, k).high : k \in Channel(i, n)} = {Bar(b2, k).high : k \in Channel(i, n)}
        /\ {Bar(b1, k).low : k \in Channel(i, n)} = {Bar(b2, k).low : k \in Channel(i, n)}
    BY <2>5
  <2> QED
    BY <2>2, <2>4, <2>6 DEF Gains, Losses, Highest, Lowest
<1> QED
  BY <1>2, <1>3, <1>4

LEMMA SamePremises ==
    ASSUME NEW b1, NEW b2, NEW i \in Nat, SamePast(b1, b2, i)
    PROVE  /\ \A n \in Nat \ {0} : /\ Above(b1, i, n) <=> Above(b2, i, n)
                                   /\ Below(b1, i, n) <=> Below(b2, i, n)
                                   /\ Rising(b1, i, n) <=> Rising(b2, i, n)
                                   /\ Falling(b1, i, n) <=> Falling(b2, i, n)
           /\ FastAboveSlow(b1, i) <=> FastAboveSlow(b2, i)
           /\ FastBelowSlow(b1, i) <=> FastBelowSlow(b2, i)
           /\ \A x : RsiBelow(b1, i, x) <=> RsiBelow(b2, i, x)
           /\ \A x : RsiAbove(b1, i, x) <=> RsiAbove(b2, i, x)
<1>1. /\ i > 0 => Close(b1, i) = Close(b2, i)
      /\ \A n \in Nat \ {0} : HasSma(i, n) => SmaSum(b1, i, n) = SmaSum(b2, i, n)
      /\ \A n \in Nat \ {0} : HasMom(i, n) => /\ Bar(b1, i - 1 - n) = Bar(b2, i - 1 - n)
                                              /\ Gains(b1, i, n) = Gains(b2, i, n)
                                              /\ Losses(b1, i, n) = Losses(b2, i, n)
  BY SameIndicators
<1>2. {N20, N50, M21, M63, R2, G4, A14} \subseteq Nat \ {0}
  BY SignalsAssumption
<1>3. \A n \in Nat \ {0} : (HasSma(i, n) => i > 0) /\ (HasMom(i, n) => i > 0)
  BY DEF HasSma, HasMom
<1> HIDE DEF HasSma, HasMom, SmaSum, Close, Bar
<1>4. \A n \in Nat \ {0} : /\ Above(b1, i, n) <=> Above(b2, i, n)
                           /\ Below(b1, i, n) <=> Below(b2, i, n)
                           /\ Rising(b1, i, n) <=> Rising(b2, i, n)
                           /\ Falling(b1, i, n) <=> Falling(b2, i, n)
  BY <1>1, <1>3 DEF Above, Below, Rising, Falling
<1>5. /\ FastAboveSlow(b1, i) <=> FastAboveSlow(b2, i)
      /\ FastBelowSlow(b1, i) <=> FastBelowSlow(b2, i)
  BY <1>1, <1>2 DEF FastAboveSlow, FastBelowSlow
<1>6. /\ \A x : RsiBelow(b1, i, x) <=> RsiBelow(b2, i, x)
      /\ \A x : RsiAbove(b1, i, x) <=> RsiAbove(b2, i, x)
  BY <1>1, <1>2 DEF RsiBelow, RsiAbove
<1> QED
  BY <1>4, <1>5, <1>6

LEMMA SameBreakouts ==
    ASSUME NEW b1, NEW b2, NEW i \in Nat, SamePast(b1, b2, i), NEW regime
    PROVE  /\ Donchian(b1, i, regime) = Donchian(b2, i, regime)
           /\ Vbo(b1, i, regime) = Vbo(b2, i, regime)
           /\ Oops(b1, i, regime) = Oops(b2, i, regime)
           /\ Gsv(b1, i, regime) = Gsv(b2, i, regime)
<1>1. \A k \in 0 .. i - 1 : Bar(b1, k) = Bar(b2, k)
  BY DEF SamePast
<1>2. {N20, N50, M21, M63, R2, G4, A14} \subseteq Nat \ {0}
  BY SignalsAssumption
<1>3. HasMom(i, N20) =>
        /\ Close(b1, i) = Close(b2, i)
        /\ Highest(b1, Channel(i, N20)) = Highest(b2, Channel(i, N20))
        /\ Lowest(b1, Channel(i, N20)) = Lowest(b2, Channel(i, N20))
  <2>1. HasMom(i, N20) => i > 0
    BY <1>2 DEF HasMom
  <2> QED
    BY <1>2, <2>1, SameIndicators
<1> HIDE DEF Bar, Close
<1>4. Donchian(b1, i, regime) = Donchian(b2, i, regime)
  BY <1>3 DEF Donchian
<1>5. i >= 3 => Bar(b1, i - 1) = Bar(b2, i - 1) /\ Bar(b1, i - 2) = Bar(b2, i - 2)
  <2>1. i >= 3 => i - 1 \in 0 .. i - 1 /\ i - 2 \in 0 .. i - 1
    OBVIOUS
  <2> QED
    BY <1>1, <2>1
<1>6. Vbo(b1, i, regime) = Vbo(b2, i, regime)
  BY <1>5 DEF Vbo
<1>7. Oops(b1, i, regime) = Oops(b2, i, regime)
  BY <1>5 DEF Oops
<1>8. Gsv(b1, i, regime) = Gsv(b2, i, regime)
  <2>1. CASE ~ (i >= G4 + 3)
    BY <2>1 DEF Gsv
  <2>2. CASE i >= G4 + 3
    <3> DEFINE downs(b) == {k \in Channel(i, G4) : Bar(b, k).close < Bar(b, k).open}
               ups(b)   == {k \in Channel(i, G4) : Bar(b, k).close > Bar(b, k).open}
               high(b)  == [k \in downs(b) |-> Bar(b, k).high - Bar(b, k).open]
               low(b)   == [k \in ups(b) |-> Bar(b, k).open - Bar(b, k).low]
    <3>1. \A k \in Channel(i, G4) : Bar(b1, k) = Bar(b2, k)
      <4>1. \A k \in Channel(i, G4) : k \in 0 .. i - 1
        BY <1>2, <2>2 DEF Channel
      <4> QED
        BY <1>1, <4>1
    <3>2. downs(b1) = downs(b2) /\ ups(b1) = ups(b2)
      BY <3>1
    <3>3. \A k : (k \in downs(b2) => k \in Channel(i, G4)) /\ (k \in ups(b2) => k \in Channel(i, G4))
      OBVIOUS
    <3>4. high(b1) = high(b2) /\ low(b1) = low(b2)
      <4> HIDE DEF downs, ups
      <4> QED
        BY <3>1, <3>2, <3>3
    <3>5. Bar(b1, i - 1) = Bar(b2, i - 1)
      BY <1>2, <1>5, <2>2
    <3> HIDE DEF downs, ups, high, low
    <3>6. \A b : Gsv(b, i, regime) =
             Side(SumFunction(high(b)) > 0
                    /\ 10 * Cardinality(downs(b)) * (Bar(b, i - 1).close - Bar(b, i - 1).open)
                         > 18 * SumFunction(high(b)),
                  SumFunction(low(b)) > 0
                    /\ 10 * Cardinality(ups(b)) * (Bar(b, i - 1).open - Bar(b, i - 1).close)
                         > 18 * SumFunction(low(b)))
      BY <2>2 DEF Gsv, downs, ups, high, low
    <3> QED
      BY <3>2, <3>4, <3>5, <3>6
  <2> QED
    BY <2>1, <2>2
<1> QED
  BY <1>4, <1>6, <1>7, <1>8

LEMMA SameTrends ==
    ASSUME NEW b1, NEW b2, NEW i \in Nat, SamePast(b1, b2, i), NEW regime
    PROVE  /\ Baseline(b1, i, regime) = Baseline(b2, i, regime)
           /\ Tsmom(b1, i, regime) = Tsmom(b2, i, regime)
           /\ TsmomF(b1, i, regime) = TsmomF(b2, i, regime)
           /\ Rsi2(b1, i, regime) = Rsi2(b2, i, regime)
           /\ Improved(b1, i, regime) = Improved(b2, i, regime)
           /\ Improved2(b1, i, regime) = Improved2(b2, i, regime)
           /\ Improved3(b1, i, regime) = Improved3(b2, i, regime)
           /\ Accurate(b1, i, regime) = Accurate(b2, i, regime)
           /\ AccurateLs(b1, i, regime) = AccurateLs(b2, i, regime)
<1>1. {N20, N50, M21, M63, R2, G4, A14} \subseteq Nat \ {0}
  BY SignalsAssumption
<1>2. /\ \A n \in Nat \ {0} : /\ Above(b1, i, n) <=> Above(b2, i, n)
                              /\ Below(b1, i, n) <=> Below(b2, i, n)
                              /\ Rising(b1, i, n) <=> Rising(b2, i, n)
                              /\ Falling(b1, i, n) <=> Falling(b2, i, n)
      /\ FastAboveSlow(b1, i) <=> FastAboveSlow(b2, i)
      /\ FastBelowSlow(b1, i) <=> FastBelowSlow(b2, i)
      /\ \A x : RsiBelow(b1, i, x) <=> RsiBelow(b2, i, x)
      /\ \A x : RsiAbove(b1, i, x) <=> RsiAbove(b2, i, x)
  BY SamePremises
<1>3. HasSma(i, N20) => Close(b1, i) = Close(b2, i) /\ SmaSum(b1, i, N20) = SmaSum(b2, i, N20)
  <2>1. HasSma(i, N20) => i > 0
    BY <1>1 DEF HasSma
  <2> QED
    BY <1>1, <2>1, SameIndicators
<1>4. /\ Baseline(b1, i, regime) = Baseline(b2, i, regime)
      /\ Rsi2(b1, i, regime) = Rsi2(b2, i, regime)
  BY <1>1, <1>2 DEF Baseline, Rsi2, Side
<1>5. Tsmom(b1, i, regime) = Tsmom(b2, i, regime)
  BY <1>1, <1>2 DEF Tsmom, Side
<1>6. TsmomF(b1, i, regime) = TsmomF(b2, i, regime)
  BY <1>3, <1>5 DEF TsmomF
<1>7. Improved(b1, i, regime) = Improved(b2, i, regime)
  BY <1>1, <1>2 DEF Improved, Side
<1>8. /\ Improved2(b1, i, regime) = Improved2(b2, i, regime)
      /\ Improved3(b1, i, regime) = Improved3(b2, i, regime)
  BY <1>1, <1>2 DEF Improved2, Improved3, Side
<1>9. (Pullback(b1, i) <=> Pullback(b2, i)) /\ (Rally(b1, i) <=> Rally(b2, i))
  BY <1>1, <1>2 DEF Pullback, Rally
<1>10. Accurate(b1, i, regime) = Accurate(b2, i, regime)
  BY <1>9 DEF Accurate, Side
<1>11. AccurateLs(b1, i, regime) = AccurateLs(b2, i, regime)
  BY <1>9, <1>10 DEF AccurateLs, Side
<1> QED
  BY <1>4, <1>5, <1>6, <1>7, <1>8, <1>10, <1>11

\* For every length of the windows, every threshold and all thirteen signals: a
\* direction is decided by the bars before the current one, whatever that one is,
\* its open included (signals.py:9-10).
THEOREM SignalsLookBack ==
    ASSUME NEW b1, NEW b2, NEW i \in Nat, SamePast(b1, b2, i),
           NEW name \in SIGNALS, NEW regime
    PROVE  SignalFn(name, b1, i, regime) = SignalFn(name, b2, i, regime)
<1>1. /\ Donchian(b1, i, regime) = Donchian(b2, i, regime)
      /\ Vbo(b1, i, regime) = Vbo(b2, i, regime)
      /\ Oops(b1, i, regime) = Oops(b2, i, regime)
      /\ Gsv(b1, i, regime) = Gsv(b2, i, regime)
  BY SameBreakouts
<1>2. /\ Baseline(b1, i, regime) = Baseline(b2, i, regime)
      /\ Tsmom(b1, i, regime) = Tsmom(b2, i, regime)
      /\ TsmomF(b1, i, regime) = TsmomF(b2, i, regime)
      /\ Rsi2(b1, i, regime) = Rsi2(b2, i, regime)
      /\ Improved(b1, i, regime) = Improved(b2, i, regime)
      /\ Improved2(b1, i, regime) = Improved2(b2, i, regime)
      /\ Improved3(b1, i, regime) = Improved3(b2, i, regime)
      /\ Accurate(b1, i, regime) = Accurate(b2, i, regime)
      /\ AccurateLs(b1, i, regime) = AccurateLs(b2, i, regime)
  BY SameTrends
<1> QED
  BY <1>1, <1>2 DEF SignalFn, SIGNALS

\* The range and the regime, of a bar of the past
LEMMA SameRegime ==
    ASSUME NEW b1, NEW b2, NEW i \in Nat, SamePast(b1, b2, i + 1)
    PROVE  Atr(b1, i) = Atr(b2, i) /\ RealRegime(b1, i) = RealRegime(b2, i)
<1>1. \A k \in 0 .. i : Bar(b1, k) = Bar(b2, k)
  BY DEF SamePast
<1>2. {N20, N50, M21, M63, R2, G4, A14} \subseteq Nat \ {0}
  BY SignalsAssumption
<1>3. SamePast(b1, b2, i)
  BY <1>1 DEF SamePast
<1> HIDE DEF Bar
<1>4. HasAtr(i) => AtrSum(b1, i) = AtrSum(b2, i) /\ TrueRange(b1, i) = TrueRange(b2, i)
  <2> SUFFICES ASSUME HasAtr(i)
               PROVE  AtrSum(b1, i) = AtrSum(b2, i) /\ TrueRange(b1, i) = TrueRange(b2, i)
    OBVIOUS
  <2>1. /\ \A k \in i - A14 + 1 .. i : k \in 0 .. i /\ k - 1 \in 0 .. i
        /\ i \in i - A14 + 1 .. i
    BY <1>2 DEF HasAtr
  <2>2. \A k \in i - A14 + 1 .. i : TrueRange(b1, k) = TrueRange(b2, k)
    BY <1>1, <2>1 DEF TrueRange
  <2>3. [k \in i - A14 + 1 .. i |-> TrueRange(b1, k)] = [k \in i - A14 + 1 .. i |-> TrueRange(b2, k)]
    BY <2>2
  <2> QED
    BY <2>1, <2>2, <2>3 DEF AtrSum
<1>5. Atr(b1, i) = Atr(b2, i) /\ Volatility(b1, i) = Volatility(b2, i)
  BY <1>4 DEF Atr, Volatility
<1>6. HasSma(i, N20) => Close(b1, i) = Close(b2, i) /\ SmaSum(b1, i, N20) = SmaSum(b2, i, N20)
  <2>1. HasSma(i, N20) => i > 0
    BY <1>2 DEF HasSma
  <2> QED
    BY <1>2, <1>3, <2>1, SameIndicators
<1>7. HasSma(i, N20) => \A x : /\ DevAbove(b1, i, N20, x) <=> DevAbove(b2, i, N20, x)
                               /\ DevBelow(b1, i, N20, x) <=> DevBelow(b2, i, N20, x)
  BY <1>6 DEF DevAbove, DevBelow
<1>8. Trend(b1, i) = Trend(b2, i) /\ TrendDirection(b1, i) = TrendDirection(b2, i)
  BY <1>7 DEF Trend, TrendDirection, Deviates
<1> QED
  BY <1>5, <1>8 DEF RealRegime

\* For every history, and whatever price the day opens at: what a sleeve of the
\* engine wants, and the range its stop is put at, are decided by the history
\* alone (strategy_engine.py, _evaluate_symbol).
THEOREM EngineLooksBack ==
    ASSUME NEW S, NEW history \in Seq(S), NEW px1, NEW px2, NEW name \in SIGNALS
    PROVE  EngineDecision(name, history, px1) = EngineDecision(name, history, px2)
<1> DEFINE i  == Len(history)
           b1 == Append(history, Opened(px1))
           b2 == Append(history, Opened(px2))
<1>1. i \in Nat /\ Len(b1) - 1 = i /\ Len(b2) - 1 = i
  OBVIOUS
<1>2. SamePast(b1, b2, i)
  <2>1. \A k \in 0 .. i - 1 : b1[k + 1] = history[k + 1] /\ b2[k + 1] = history[k + 1]
    OBVIOUS
  <2> QED
    BY <2>1 DEF SamePast, Bar
<1> HIDE DEF i, b1, b2
<1>3. \A regime : SignalFn(name, b1, i, regime) = SignalFn(name, b2, i, regime)
  BY <1>1, <1>2, SignalsLookBack
<1>4. CASE i = 0
  <2>1. ~ HasAtr(i - 1)
    BY <1>4, SignalsAssumption DEF HasAtr
  <2>2. Atr(b1, i - 1) = 0 /\ Atr(b2, i - 1) = 0
    BY <2>1 DEF Atr
  <2> QED
    BY <1>1, <2>2 DEF EngineDecision, b1, b2
<1>5. CASE i # 0
  <2>1. i - 1 \in Nat /\ (i - 1) + 1 = i
    BY <1>1, <1>5
  <2>2. Atr(b1, i - 1) = Atr(b2, i - 1) /\ RealRegime(b1, i - 1) = RealRegime(b2, i - 1)
    BY <1>2, <2>1, SameRegime
  <2> QED
    BY <1>1, <1>3, <2>2 DEF EngineDecision, b1, b2
<1> QED
  BY <1>4, <1>5

\* What the run looks at on its histories is an instance.
THEOREM HistoriesDoNotLookAhead == SignalsDoNotLookAhead
<1> DEFINE Ups == {[open |-> 4, high |-> 9, low |-> 4, close |-> 9],
                   [open |-> 4, high |-> 4, low |-> 1, close |-> 1]}
<1>1. ASSUME NEW h \in Histories, NEW a, NEW b
      PROVE  SamePast(Append(h, a), Append(h, b), 5)
  <2> DEFINE T == Shapes \cup {a, b}
  <2>1. h \in [1 .. 5 -> T] /\ a \in T /\ b \in T
    BY DEF Histories
  <2> HIDE DEF T
  <2>2. ASSUME NEW n \in Nat, NEW f \in [1 .. n -> T], NEW x \in T
        PROVE  \A k \in 1 .. n : Append(f, x)[k] = f[k]
    <3>1. f \in Seq(T)
      BY SeqDef
    <3>2. Len(f) = n
      BY <3>1
    <3> QED
      BY <3>1, <3>2, AppendProperties
  <2>3. \A k \in 1 .. 5 : Append(h, a)[k] = h[k] /\ Append(h, b)[k] = h[k]
    BY <2>1, <2>2
  <2>4. \A k \in 0 .. 5 - 1 : k + 1 \in 1 .. 5
    OBVIOUS
  <2> QED
    BY <2>3, <2>4 DEF SamePast, Bar
<1>2. ASSUME NEW h \in Histories, NEW name \in SIGNALS, NEW regime, NEW b
      PROVE  SignalFn(name, Append(h, b), 5, regime)
                = SignalFn(name, Append(h, Opened(4)), 5, regime)
  BY <1>1, SignalsLookBack
<1> QED
  BY <1>2, Zenon DEF SignalsDoNotLookAhead
------------------------------------------------------------------------------
(* Folds. FoldLeft goes by the sets of the first positions of a sequence,   *)
(* and takes the greatest one off at each step.                             *)

\* What FoldLeft takes off a set of positions is its greatest element.
LEMMA Greatest ==
    ASSUME NEW n \in Nat, NEW s \in SUBSET (1 .. n), s # {}
    PROVE  Max(s) \in s /\ \A x \in s : x <= Max(s)
<1> DEFINE R == OpToRel(<, Nat)
           S == {n - x : x \in s}
<1>1. IsWellFoundedOn(R, Nat) /\ R = {p \in Nat \X Nat : p[1] < p[2]}
  BY NatLessThanWellFounded DEF OpToRel
<1>2. S \subseteq Nat /\ S # {}
  <2>1. \A x \in s : n - x \in Nat
    OBVIOUS
  <2>2. PICK x \in s : TRUE
    OBVIOUS
  <2>3. n - x \in S
    OBVIOUS
  <2> QED
    BY <2>1, <2>3
<1> HIDE DEF R
<1>3. PICK y \in S : \A q \in S : ~ (<<q, y>> \in R)
  BY <1>1, <1>2, WFMin
<1>4. PICK m \in s : y = n - m
  BY <1>3
<1>5. ASSUME NEW x \in s, ~ (x <= m)
      PROVE  FALSE
  <2>1. n - x \in S /\ n - x \in Nat /\ y \in Nat /\ n - x < y
    BY <1>2, <1>4, <1>5
  <2>2. <<n - x, y>> \in R
    BY <1>1, <2>1
  <2> QED
    BY <1>3, <2>1, <2>2
<1>6. \A x \in s : m >= x
  BY <1>5
<1> QED
  BY <1>6 DEF Max

\* What holds of the empty set, and of a set when it holds of the set without
\* its greatest element, holds of all sets of positions.
LEMMA Positions ==
    ASSUME NEW n \in Nat, NEW G,
           {} \in G,
           \A s \in SUBSET (1 .. n) : s # {} /\ s \ {Max(s)} \in G => s \in G
    PROVE  SUBSET (1 .. n) \subseteq G
<1> DEFINE S   == 1 .. n
           R   == StrictSubsetOrdering(S)
           Bad == (SUBSET S) \ G
<1>1. IsFiniteSet(S)
  BY FS_Interval
<1>2. IsWellFoundedOn(R, SUBSET S)
  <2> HIDE DEF S
  <2> QED
    BY <1>1, FS_StrictSubsetOrderingWellFounded, FS_FiniteSubsetsOfFinite
<1>3. SUFFICES ASSUME Bad # {}
               PROVE  FALSE
  OBVIOUS
<1>4. Bad \subseteq SUBSET S
  OBVIOUS
<1> HIDE DEF Bad, R
<1>5. PICK s \in Bad : \A t \in Bad : ~ (<<t, s>> \in R)
  BY <1>2, <1>3, <1>4, WFMin
<1>6. s \in SUBSET S /\ s \notin G /\ s # {}
  BY <1>5 DEF Bad
<1>7. Max(s) \in s
  BY <1>6, Greatest
<1>8. s \ {Max(s)} \in SUBSET S /\ <<s \ {Max(s)}, s>> \in R
  BY <1>6, <1>7 DEF R, StrictSubsetOrdering
<1>9. s \ {Max(s)} \in G
  BY <1>5, <1>8 DEF Bad
<1> QED
  BY <1>6, <1>9

\* A fold, step by step: there is a function to fold by.
Folds(g, s, base, step) == g[s] = IF s = {} THEN base ELSE step[Max(s)][g[s \ {Max(s)}]]

LEMMA FoldExists ==
    ASSUME NEW n \in Nat, NEW J, NEW base \in J, NEW step \in [1 .. n -> [J -> J]]
    PROVE  \E g \in [SUBSET (1 .. n) -> J] : \A s \in SUBSET (1 .. n) : Folds(g, s, base, step)
<1> DEFINE S == 1 .. n
           Upto(g, s) == \A r \in SUBSET s : Folds(g, r, base, step)
           Next(g) == [s \in SUBSET S |-> IF s = {} THEN base ELSE step[Max(s)][g[s \ {Max(s)}]]]
           G == {s \in SUBSET S : \E g \in [SUBSET S -> J] : Upto(g, s)}
<1>1. {} \in G
  <2>1. [s \in SUBSET S |-> base] \in [SUBSET S -> J]
    OBVIOUS
  <2>2. Upto([s \in SUBSET S |-> base], {})
    BY DEF Folds
  <2> QED
    BY <2>1, <2>2
<1>2. \A s \in SUBSET S : s # {} => /\ Max(s) \in s /\ Max(s) \in S
                                    /\ s \ {Max(s)} \in SUBSET S
                                    /\ \A r \in SUBSET s : r # {} => r \ {Max(r)} \subseteq s \ {Max(s)}
  <2> SUFFICES ASSUME NEW s \in SUBSET S, s # {}
               PROVE  /\ Max(s) \in s /\ Max(s) \in S
                      /\ s \ {Max(s)} \in SUBSET S
                      /\ \A r \in SUBSET s : r # {} => r \ {Max(r)} \subseteq s \ {Max(s)}
    OBVIOUS
  <2>1. Max(s) \in s /\ \A x \in s : x <= Max(s)
    BY Greatest
  <2>2. ASSUME NEW r \in SUBSET s, r # {}, NEW x \in r \ {Max(r)}, x = Max(s)
        PROVE  FALSE
    <3>1. Max(r) \in r /\ \A y \in r : y <= Max(r)
      BY <2>2, Greatest
    <3>2. r \subseteq s /\ s \subseteq Int /\ x \in r
      BY <2>2
    <3>3. Max(r) \in s /\ x \in Int /\ x <= Max(r)
      BY <3>1, <3>2
    <3>4. Max(r) <= x /\ Max(r) \in Int
      BY <2>1, <2>2, <3>2, <3>3
    <3> HIDE DEF S
    <3>5. x = Max(r)
      BY <3>3, <3>4
    <3> QED
      BY <2>2, <3>5
  <2>3. \A r \in SUBSET s : r # {} => r \ {Max(r)} \subseteq s \ {Max(s)}
    BY <2>2
  <2> QED
    BY <2>1, <2>3
<1>3. ASSUME NEW s \in SUBSET S, s # {}, s \ {Max(s)} \in G
      PROVE  s \in G
  <2>1. PICK g \in [SUBSET S -> J] : Upto(g, s \ {Max(s)})
    BY <1>3
  <2>2. \A r \in SUBSET S : r # {} => step[Max(r)][g[r \ {Max(r)}]] \in J
    <3> SUFFICES ASSUME NEW r \in SUBSET S, r # {}
                 PROVE  step[Max(r)][g[r \ {Max(r)}]] \in J
      OBVIOUS
    <3>1. Max(r) \in S /\ g[r \ {Max(r)}] \in J
      BY <1>2, <2>1
    <3>2. step[Max(r)] \in [J -> J]
      BY <3>1
    <3> QED
      BY <3>1, <3>2
  <2>3. Next(g) \in [SUBSET S -> J]
    BY <2>2
  <2>4. ASSUME NEW r \in SUBSET s
        PROVE  Folds(Next(g), r, base, step)
    <3>1. CASE r = {}
      BY <3>1 DEF Folds
    <3>2. CASE r # {}
      <4> DEFINE q == r \ {Max(r)}
      <4>1. r \in SUBSET S /\ q \in SUBSET S /\ q \in SUBSET (s \ {Max(s)})
        BY <1>2, <1>3, <2>4, <3>2
      <4>2. Folds(g, q, base, step)
        BY <2>1, <4>1
      <4> HIDE DEF q
      <4>3. Next(g)[q] = g[q]
        BY <4>1, <4>2 DEF Folds
      <4>4. Next(g)[r] = step[Max(r)][g[q]]
        BY <3>2, <4>1 DEF q
      <4> QED
        BY <3>2, <4>3, <4>4 DEF Folds, q
    <3> QED
      BY <3>1, <3>2
  <2> HIDE DEF Next
  <2> QED
    BY <2>3, <2>4
<1>4. SUBSET S \subseteq G
  <2> HIDE DEF G
  <2> QED
    BY <1>1, <1>3, Positions
<1>5. PICK g \in [SUBSET S -> J] : Upto(g, S)
  BY <1>4
<1> QED
  BY <1>5

------------------------------------------------------------------------------
(* The worth of the fills, one by one.                                      *)

OrderType  == [id : Nat, action : {"BUY", "SELL"}, qty : Nat, trigger : Int]
FillType   == [signed : Int, price : Int, cost : Int]
BrokerType == [cash : Int, costs : Int, last : Nat, qty : Int, avg : Int \X (Nat \ {0}),
               resting : Seq(OrderType), fills : Seq(FillType), ids : Nat, flipped : BOOLEAN]

WorthAt(fills, p) == FoldLeft(LAMBDA sum, fill : sum + FillWorth(fill, p), StartingCash, fills)

WorthSums(g, fills, p, S) ==
    g = [s \in SUBSET S |-> IF s = {} THEN StartingCash
                            ELSE g[s \ {Max(s)}] + FillWorth(fills[Max(s)], p)]

\* Worth, with the function its fold chooses.
LEMMA WorthIs ==
    ASSUME NEW fills, NEW p
    PROVE  WorthAt(fills, p) = (CHOOSE g : WorthSums(g, fills, p, DOMAIN fills))[DOMAIN fills]
BY DEF WorthAt, FoldLeft, MapThenFoldSet, WorthSums

\* By position: what the first fills are worth.
Worths(g, fills, p, n) ==
    /\ g \in [SUBSET (1 .. n) -> Int] /\ WorthAt(fills, p) = g[1 .. n]
    /\ g[{}] = StartingCash
    /\ \A s \in SUBSET (1 .. n) :
          s # {} => g[s] = g[s \ {Max(s)}] + FillWorth(fills[Max(s)], p)

LEMMA WorthFold ==
    ASSUME NEW n \in Nat, NEW fills \in [1 .. n -> FillType], NEW p \in Int
    PROVE  \E g : Worths(g, fills, p, n)
<1> DEFINE S    == 1 .. n
           step == [i \in S |-> [x \in Int |-> x + FillWorth(fills[i], p)]]
           h    == CHOOSE g : WorthSums(g, fills, p, S)
<1>1. StartingCash \in Int /\ \A i \in S : FillWorth(fills[i], p) \in Int
  <2>1. ASSUME NEW f \in FillType
        PROVE  FillWorth(f, p) \in Int
    BY DEF FillType, FillWorth
  <2> QED
    BY <2>1, BrokerAssumption
<1>2. step \in [S -> [Int -> Int]]
  BY <1>1
<1>3. \A s \in SUBSET S : s # {} => Max(s) \in S /\ s \ {Max(s)} \in SUBSET S
  <2> SUFFICES ASSUME NEW s \in SUBSET S, s # {}
               PROVE  Max(s) \in S
    OBVIOUS
  <2>1. Max(s) \in s
    BY Greatest
  <2> QED
    BY <2>1
<1>4. \E g : WorthSums(g, fills, p, S)
  <2> HIDE DEF step
  <2>1. PICK g \in [SUBSET S -> Int] : \A s \in SUBSET S : Folds(g, s, StartingCash, step)
    BY <1>1, <1>2, FoldExists
  <2>2. \A s \in SUBSET S : s # {} => g[s] = g[s \ {Max(s)}] + FillWorth(fills[Max(s)], p)
    BY <1>3, <2>1 DEF Folds, step
  <2>3. g[{}] = StartingCash
    BY <2>1 DEF Folds
  <2> QED
    BY <2>1, <2>2, <2>3 DEF WorthSums
<1>5. WorthSums(h, fills, p, S) /\ WorthAt(fills, p) = h[S]
  <2>1. DOMAIN fills = S
    OBVIOUS
  <2> QED
    BY <1>4, <2>1, WorthIs
<1> HIDE DEF h
<1>6. /\ h[{}] = StartingCash
      /\ \A s \in SUBSET S : s # {} => h[s] = h[s \ {Max(s)}] + FillWorth(fills[Max(s)], p)
  BY <1>5 DEF WorthSums
<1> DEFINE G == {s \in SUBSET S : h[s] \in Int}
<1>7. ASSUME NEW s \in SUBSET S, s # {}, s \ {Max(s)} \in G
      PROVE  s \in G
  <2>1. FillWorth(fills[Max(s)], p) \in Int /\ h[s \ {Max(s)}] \in Int
    BY <1>1, <1>3, <1>7
  <2>2. h[s] = h[s \ {Max(s)}] + FillWorth(fills[Max(s)], p)
    BY <1>6, <1>7
  <2> QED
    BY <2>1, <2>2
<1>8. SUBSET S \subseteq G
  <2>1. {} \in G
    BY <1>1, <1>6
  <2> HIDE DEF G
  <2> QED
    BY <1>7, <2>1, Positions
<1>9. h \in [SUBSET S -> Int]
  <2>1. h = [s \in SUBSET S |-> h[s]]
    BY <1>5 DEF WorthSums
  <2> QED
    BY <1>8, <2>1
<1> QED
  BY <1>5, <1>6, <1>9 DEF Worths

\* No fill, no gain: what there is, is the starting cash.
LEMMA WorthOfNone ==
    ASSUME NEW p \in Int
    PROVE  WorthAt(<<>>, p) = StartingCash
<1>1. <<>> \in [1 .. 0 -> FillType] /\ 0 \in Nat
  OBVIOUS
<1>2. PICK g : Worths(g, <<>>, p, 0)
  BY <1>1, WorthFold
<1>3. 1 .. 0 = {}
  OBVIOUS
<1> QED
  BY <1>2, <1>3 DEF Worths

\* A fill more adds what it is worth.
LEMMA WorthOfOneMore ==
    ASSUME NEW fills \in Seq(FillType), NEW f \in FillType, NEW p \in Int
    PROVE  WorthAt(Append(fills, f), p) = WorthAt(fills, p) + FillWorth(f, p)
<1> DEFINE n    == Len(fills)
           more == Append(fills, f)
<1>1. n \in Nat /\ fills \in [1 .. n -> FillType]
  BY LenProperties
<1>2. /\ more \in [1 .. n + 1 -> FillType]
      /\ \A i \in 1 .. n : more[i] = fills[i]
      /\ more[n + 1] = f
  <2>1. /\ more \in Seq(FillType) /\ Len(more) = n + 1
        /\ \A i \in 1 .. Len(fills) : more[i] = fills[i]
        /\ more[Len(fills) + 1] = f
    BY AppendProperties
  <2> HIDE DEF more
  <2>2. more \in [1 .. Len(more) -> FillType]
    BY <2>1, LenProperties
  <2> QED
    BY <2>1, <2>2
<1> HIDE DEF n, more
<1> DEFINE m == n + 1
<1>3. PICK a : Worths(a, fills, p, n)
  BY <1>1, WorthFold
<1>4. PICK b : Worths(b, more, p, m)
  <2>1. m \in Nat /\ more \in [1 .. m -> FillType]
    BY <1>1, <1>2
  <2> HIDE DEF m
  <2> QED
    BY <2>1, WorthFold
<1> DEFINE G == {s \in SUBSET (1 .. n) : b[s] = a[s]}
<1>5. {} \in G
  BY <1>3, <1>4 DEF Worths
<1>6. ASSUME NEW s \in SUBSET (1 .. n), s # {}, s \ {Max(s)} \in G
      PROVE  s \in G
  <2>1. Max(s) \in s
    BY <1>1, <1>6, Greatest
  <2>2. Max(s) \in 1 .. n /\ 1 .. n \subseteq 1 .. m
    <3>1. 1 .. n \subseteq 1 .. m
      BY <1>1
    <3>2. Max(s) \in 1 .. n
      BY <2>1, Zenon
    <3> QED
      BY <3>1, <3>2
  <2>3. s \in SUBSET (1 .. m) /\ more[Max(s)] = fills[Max(s)]
    BY <1>2, <2>2
  <2>4. a[s] = a[s \ {Max(s)}] + FillWorth(fills[Max(s)], p)
    BY <1>3, <1>6 DEF Worths
  <2> HIDE DEF m
  <2>5. b[s] = b[s \ {Max(s)}] + FillWorth(more[Max(s)], p)
    BY <1>4, <1>6, <2>3 DEF Worths
  <2> QED
    BY <1>6, <2>3, <2>4, <2>5
<1>7. b[1 .. n] = a[1 .. n]
  <2>1. SUBSET (1 .. n) \subseteq G
    <3> HIDE DEF G
    <3> QED
      BY <1>1, <1>5, <1>6, Positions
  <2> QED
    BY <2>1
<1>8. 1 .. m # {} /\ Max(1 .. m) = m /\ (1 .. m) \ {m} = 1 .. n
  <2>1. m \in Nat /\ m \in 1 .. m
    BY <1>1
  <2> DEFINE top == Max(1 .. m)
  <2>2. top \in 1 .. m /\ \A x \in 1 .. m : x <= top
    <3> HIDE DEF m
    <3>1. 1 .. m # {} /\ 1 .. m \in SUBSET (1 .. m)
      BY <2>1
    <3> QED
      BY <2>1, <3>1, Greatest
  <2> HIDE DEF top
  <2>3. top = m
    BY <2>1, <2>2
  <2>4. (1 .. m) \ {m} = 1 .. n
    BY <1>1
  <2> QED
    BY <2>1, <2>3, <2>4 DEF top
<1>9. b[1 .. m] = b[1 .. n] + FillWorth(f, p)
  <2>1. 1 .. m \in SUBSET (1 .. m) /\ more[m] = f
    BY <1>2
  <2> HIDE DEF m
  <2> QED
    BY <1>4, <1>8, <2>1 DEF Worths
<1> QED
  BY <1>3, <1>4, <1>7, <1>9 DEF more, Worths

------------------------------------------------------------------------------
(* Fills.                                                                   *)

Nought(b) == b.qty = 0 \/ (b.qty < 0 /\ ~ b.flipped) => b.avg[1] = 0
Tallied(b) == \A p \in Int : WorthAt(b.fills, p) = b.cash + b.qty * p

Money == {b \in BrokerType : Nought(b) /\ Tallied(b)}

\* The average price is a fraction, nought when the position is closed, and stays
\* what it was while a short one grows.
LEMMA AverageFacts ==
    ASSUME NEW b \in BrokerType, NEW signed \in Int, NEW price \in Int
    PROVE  /\ AvgAfter(b, signed, price) \in Int \X (Nat \ {0})
           /\ b.qty + signed = 0 => AvgAfter(b, signed, price)[1] = 0
           /\ b.qty + signed < 0 /\ ~ (b.qty > 0) => AvgAfter(b, signed, price) = b.avg
<1> DEFINE new == b.qty + signed
           avg == AvgAfter(b, signed, price)
<1>1. b.qty \in Int /\ new \in Int /\ b.avg \in Int \X (Nat \ {0})
  BY DEF BrokerType
<1>2. PICK x \in Int, y \in Nat \ {0} : b.avg = <<x, y>> /\ b.avg[1] = x /\ b.avg[2] = y
  BY <1>1
<1>3. CASE new = 0
  <2>1. avg = <<0, 1>>
    BY <1>3 DEF AvgAfter
  <2> QED
    BY <1>3, <2>1
<1>4. CASE new # 0 /\ FlipsThroughZero(b, new)
  <2>1. avg = <<price, 1>>
    BY <1>4 DEF AvgAfter
  <2> QED
    BY <1>1, <1>4, <2>1 DEF FlipsThroughZero
<1>5. CASE new # 0 /\ ~ FlipsThroughZero(b, new) /\ signed > 0 /\ new > 0
  <2>1. avg = Weighted(b.avg, b.qty, signed, price)
    BY <1>5 DEF AvgAfter
  <2>2. avg = <<x * b.qty + signed * price * y, y * new>>
    BY <1>2, <2>1 DEF Weighted
  <2>3. x * b.qty + signed * price * y \in Int
    BY <1>1, <1>2
  <2>4. y * new \in Nat \ {0}
    BY <1>1, <1>2, <1>5
  <2> QED
    BY <1>1, <1>5, <2>2, <2>3, <2>4
<1>6. CASE new # 0 /\ ~ FlipsThroughZero(b, new) /\ ~ (signed > 0 /\ new > 0)
  <2>1. avg = b.avg
    BY <1>6 DEF AvgAfter
  <2> QED
    BY <1>1, <1>6, <2>1
<1> QED
  BY <1>3, <1>4, <1>5, <1>6

\* The arithmetic of one fill: what it costs and what it is worth at p.
LEMMA OneFill ==
    ASSUME NEW cash \in Int, NEW had \in Int, NEW add \in Int, NEW paid \in Int,
           NEW cost \in Int, NEW p \in Int
    PROVE  (cash - add * paid - cost) + (had + add) * p
              = (cash + had * p) + (add * (p - paid) - cost)
<1>1. add * (p - paid) = add * p - add * paid
  OBVIOUS
<1>2. (had + add) * p = had * p + add * p
  OBVIOUS
<1>3. had * p \in Int /\ add * p \in Int /\ add * paid \in Int
  OBVIOUS
<1> QED
  BY <1>1, <1>2, <1>3

\* _fill (paper_broker.py:131-163): cash and position go on telling what the fills
\* are worth, at every price.
LEMMA FillsKeepMoney ==
    ASSUME NEW b \in Money, NEW action \in {"BUY", "SELL"}, NEW qty \in Nat, NEW ref \in Int
    PROVE  Filled(b, action, qty, ref) \in Money
<1> DEFINE signed == Signed(action, qty)
           price  == IF action = "BUY" THEN ref + Slip ELSE ref - Slip
           cost   == Fee * qty
           new    == b.qty + signed
           fill   == [signed |-> signed, price |-> price, cost |-> cost]
           after  == Filled(b, action, qty, ref)
<1>1. b \in BrokerType /\ Nought(b) /\ Tallied(b)
  BY DEF Money
<1>2. signed \in Int /\ price \in Int /\ cost \in Int
  <2>1. Slip \in Int /\ Fee \in Int
    BY BrokerAssumption
  <2> QED
    BY <2>1 DEF Signed
<1> HIDE DEF signed, price, cost
<1>3. fill \in FillType
  BY <1>2 DEF FillType
<1>4. /\ after.qty = new /\ after.avg = AvgAfter(b, signed, price)
      /\ after.cash = (b.cash - signed * price) - cost
      /\ after.costs = b.costs + cost
      /\ after.fills = Append(b.fills, fill)
      /\ after.flipped = (new < 0 /\ (b.flipped \/ b.qty > 0))
      /\ after.last = b.last /\ after.resting = b.resting /\ after.ids = b.ids
  BY <1>1 DEF Filled, BrokerType, signed, price, cost
<1> HIDE DEF after
<1>5. after \in BrokerType
  <2>1. after = [b EXCEPT !.qty = after.qty, !.avg = after.avg, !.cash = after.cash,
                          !.costs = after.costs, !.fills = after.fills, !.flipped = after.flipped]
    BY <1>1 DEF after, Filled, BrokerType
  <2>2. /\ b.cash \in Int /\ b.costs \in Int /\ b.last \in Nat /\ b.qty \in Int
        /\ b.resting \in Seq(OrderType) /\ b.fills \in Seq(FillType) /\ b.ids \in Nat
        /\ b.flipped \in BOOLEAN
    BY <1>1 DEF BrokerType
  <2>3. after.avg \in Int \X (Nat \ {0})
    BY <1>1, <1>2, <1>4, AverageFacts
  <2>4. after.fills \in Seq(FillType)
    BY <1>3, <1>4, <2>2, AppendProperties
  <2>5. after.cash \in Int /\ after.costs \in Int /\ after.qty \in Int
    <3>1. signed * price \in Int
      BY <1>2
    <3>2. after.cash = (b.cash - signed * price) - cost
      BY <1>4
    <3> DEFINE paid == signed * price
    <3> HIDE DEF paid
    <3>3. paid \in Int /\ after.cash = (b.cash - paid) - cost
      BY <3>1, <3>2 DEF paid
    <3>4. after.costs = b.costs + cost /\ after.qty = b.qty + signed
      BY <1>4
    <3>5. b.cash \in Int /\ b.costs \in Int /\ b.qty \in Int /\ signed \in Int /\ cost \in Int
      BY <1>2, <2>2
    <3>6. (b.cash - paid) - cost \in Int
      BY <3>3, <3>5
    <3>7. b.costs + cost \in Int /\ b.qty + signed \in Int
      BY <3>5
    <3> QED
      BY <3>3, <3>4, <3>6, <3>7
  <2>6. after.flipped \in BOOLEAN
    BY <1>4
  <2>7. ASSUME NEW q \in Int, NEW a \in Int \X (Nat \ {0}), NEW c \in Int, NEW k \in Int,
               NEW f \in Seq(FillType), NEW x \in BOOLEAN
        PROVE  [b EXCEPT !.qty = q, !.avg = a, !.cash = c, !.costs = k, !.fills = f, !.flipped = x]
                  \in BrokerType
    BY <1>1 DEF BrokerType
  <2>8. [b EXCEPT !.qty = after.qty, !.avg = after.avg, !.cash = after.cash,
                  !.costs = after.costs, !.fills = after.fills, !.flipped = after.flipped] \in BrokerType
    BY <2>3, <2>4, <2>5, <2>6, <2>7
  <2> QED
    BY <2>1, <2>8, Zenon
<1>6. Nought(after)
  <2>1. /\ new = 0 => AvgAfter(b, signed, price)[1] = 0
        /\ new < 0 /\ ~ (b.qty > 0) => AvgAfter(b, signed, price) = b.avg
    BY <1>1, <1>2, AverageFacts
  <2>2. b.qty \in Int /\ b.flipped \in BOOLEAN
    BY <1>1 DEF BrokerType
  <2>3. CASE new = 0
    BY <1>4, <2>1, <2>3 DEF Nought
  <2>4. CASE new < 0 /\ ~ after.flipped
    <3>1. ~ b.flipped /\ ~ (b.qty > 0)
      BY <1>4, <2>4
    <3>2. b.avg[1] = 0
      BY <1>1, <2>2, <3>1 DEF Nought
    <3> QED
      BY <1>4, <2>1, <2>4, <3>1, <3>2 DEF Nought
  <2> QED
    BY <1>4, <2>3, <2>4 DEF Nought
<1>7. Tallied(after)
  <2> SUFFICES ASSUME NEW p \in Int
               PROVE  WorthAt(after.fills, p) = after.cash + after.qty * p
    BY DEF Tallied
  <2>1. b.cash \in Int /\ b.qty \in Int /\ b.fills \in Seq(FillType)
    BY <1>1 DEF BrokerType
  <2>2. WorthAt(after.fills, p) = WorthAt(b.fills, p) + FillWorth(fill, p)
    BY <1>3, <1>4, <2>1, WorthOfOneMore
  <2>3. WorthAt(b.fills, p) = b.cash + b.qty * p
    BY <1>1 DEF Tallied
  <2>4. FillWorth(fill, p) = signed * (p - price) - cost
    BY DEF FillWorth
  <2>5. after.cash = b.cash - signed * price - cost /\ after.qty = b.qty + signed
    BY <1>4
  <2> HIDE DEF after
  <2>6. after.cash + after.qty * p = (b.cash + b.qty * p) + (signed * (p - price) - cost)
    BY <1>2, <2>1, <2>5, OneFill
  <2> QED
    BY <1>4, <2>2, <2>3, <2>4, <2>6
<1> QED
  BY <1>5, <1>6, <1>7 DEF Money, after

\* equity(), of a broker whose fills add up
LEMMA MoneyIsWorth ==
    ASSUME NEW b \in Money, ~ b.flipped
    PROVE  EquityTimes(b) = b.avg[2] * Worth(b)
<1>1. b \in BrokerType /\ Nought(b) /\ Tallied(b)
  BY DEF Money
<1>2. PICK x \in Int, y \in Nat \ {0} : b.avg[1] = x /\ b.avg[2] = y
  BY <1>1 DEF BrokerType
<1>3. b.last \in Int /\ b.cash \in Int /\ b.qty \in Int
  BY <1>1 DEF BrokerType
<1>4. Worth(b) = WorthAt(b.fills, b.last)
  BY DEF Worth, WorthAt, FoldLeft, MapThenFoldSet
<1>5. Worth(b) = b.cash + b.qty * b.last
  BY <1>1, <1>3, <1>4 DEF Tallied
<1>6. EquityTimes(b) = y * b.cash + b.qty * (y * b.last - x) + (IF b.qty > 0 THEN b.qty * x ELSE 0)
  BY <1>2 DEF EquityTimes
<1>7. x = 0 \/ b.qty > 0
  BY <1>1, <1>2, <1>3 DEF Nought
<1>8. b.qty * (y * b.last - x) = y * (b.qty * b.last) - b.qty * x
  BY <1>2, <1>3
<1>9. y * (b.cash + b.qty * b.last) = y * b.cash + y * (b.qty * b.last)
  BY <1>2, <1>3
<1>10. /\ y * b.cash \in Int /\ y * (b.qty * b.last) \in Int /\ b.qty * x \in Int
       /\ x = 0 => b.qty * x = 0
  BY <1>2, <1>3
<1> QED
  BY <1>2, <1>5, <1>6, <1>7, <1>8, <1>9, <1>10

------------------------------------------------------------------------------
(* The calls, one by one.                                                   *)

\* What a fold of steps that stay in a set starts and goes on with, stays there.
LEMMA FoldStays ==
    ASSUME NEW n \in Nat, NEW J, NEW step \in [1 .. n -> [J -> J]], NEW h, h[{}] \in J,
           \A s \in SUBSET (1 .. n) :
              s # {} /\ h[s \ {Max(s)}] \in J => h[s] = step[Max(s)][h[s \ {Max(s)}]]
    PROVE  h[1 .. n] \in J
<1> DEFINE G == {s \in SUBSET (1 .. n) : h[s] \in J}
<1>1. {} \in G
  OBVIOUS
<1>2. ASSUME NEW s \in SUBSET (1 .. n), s # {}, s \ {Max(s)} \in G
      PROVE  s \in G
  <2>1. Max(s) \in 1 .. n
    <3>1. Max(s) \in s
      BY <1>2, Greatest
    <3> QED
      BY <3>1, Zenon
  <2>2. step[Max(s)] \in [J -> J] /\ h[s \ {Max(s)}] \in J
    BY <1>2, <2>1
  <2>3. h[s] = step[Max(s)][h[s \ {Max(s)}]]
    BY <1>2, <2>2
  <2> QED
    BY <2>2, <2>3
<1>3. SUBSET (1 .. n) \subseteq G
  <2> HIDE DEF G
  <2> QED
    BY <1>1, <1>2, Positions
<1> QED
  BY <1>3

\* A set of positions without its greatest one is again one.
LEMMA Shorter ==
    ASSUME NEW n \in Nat, NEW s \in SUBSET (1 .. n), s # {}
    PROVE  Max(s) \in 1 .. n /\ s \ {Max(s)} \in SUBSET (1 .. n)
<1>1. Max(s) \in s
  BY Greatest
<1> QED
  BY <1>1, Zenon

\* on_tick
Ticks(h, base, orders, price, S) ==
    h = [s \in SUBSET S |-> IF s = {} THEN base
                            ELSE Reached(h[s \ {Max(s)}], orders[Max(s)], price)]

\* Ticked, with the function its fold chooses.
LEMMA TickIs ==
    ASSUME NEW b, NEW price
    PROVE  Ticked(b, price) = (CHOOSE h : Ticks(h, [b EXCEPT !.last = price, !.resting = <<>>],
                                                b.resting, price, DOMAIN b.resting))[DOMAIN b.resting]
BY DEF Ticked, FoldLeft, MapThenFoldSet, Ticks

\* What rests, the last price and the ids are not money.
LEMMA RestsKeepMoney ==
    ASSUME NEW b \in Money, NEW last \in Nat, NEW resting \in Seq(OrderType), NEW ids \in Nat
    PROVE  [b EXCEPT !.last = last, !.resting = resting, !.ids = ids] \in Money
<1> DEFINE c == [b EXCEPT !.last = last, !.resting = resting, !.ids = ids]
<1>1. b \in BrokerType /\ Nought(b) /\ Tallied(b)
  BY DEF Money
<1>2. c \in BrokerType
  BY <1>1 DEF BrokerType
<1>3. /\ c.cash = b.cash /\ c.qty = b.qty /\ c.avg = b.avg
      /\ c.fills = b.fills /\ c.flipped = b.flipped
  BY <1>1 DEF BrokerType
<1> HIDE DEF c
<1>4. Nought(c) /\ Tallied(c)
  BY <1>1, <1>3 DEF Nought, Tallied
<1> QED
  BY <1>2, <1>4 DEF Money, c

\* One resting order meets a price.
LEMMA ReachedKeepsMoney ==
    ASSUME NEW b \in Money, NEW order \in OrderType, NEW price \in Nat
    PROVE  Reached(b, order, price) \in Money
<1>1. CASE Hit(order, price)
  <2>1. order.action \in {"BUY", "SELL"} /\ order.qty \in Nat
    BY DEF OrderType
  <2>2. Filled(b, order.action, order.qty, price) \in Money
    BY <2>1, FillsKeepMoney
  <2> QED
    BY <1>1, <2>2, Zenon DEF Reached
<1>2. CASE ~ Hit(order, price)
  <2>1. b \in BrokerType
    BY DEF Money
  <2>2. b.last \in Nat /\ b.resting \in Seq(OrderType) /\ b.ids \in Nat
    BY <2>1 DEF BrokerType
  <2>3. Append(b.resting, order) \in Seq(OrderType)
    BY <2>2, AppendProperties
  <2>4. [b EXCEPT !.last = b.last, !.resting = Append(b.resting, order), !.ids = b.ids] \in Money
    BY <2>2, <2>3, RestsKeepMoney
  <2>5. [b EXCEPT !.last = b.last, !.resting = Append(b.resting, order), !.ids = b.ids]
           = [b EXCEPT !.resting = Append(b.resting, order)]
    BY <2>1 DEF BrokerType
  <2> QED
    BY <1>2, <2>4, <2>5, Zenon DEF Reached
<1> QED
  BY <1>1, <1>2

\* All of them do, in turn.
LEMMA TicksKeepMoney ==
    ASSUME NEW b \in Money, NEW price \in Nat
    PROVE  Ticked(b, price) \in Money
<1> DEFINE n    == Len(b.resting)
           base == [b EXCEPT !.last = price, !.resting = <<>>]
           step == [i \in 1 .. n |-> [c \in Money |-> Reached(c, b.resting[i], price)]]
           h    == CHOOSE g : Ticks(g, base, b.resting, price, 1 .. n)
<1>1. b \in BrokerType
  BY DEF Money
<1>2. /\ b.resting \in Seq(OrderType) /\ b.ids \in Nat
      /\ n \in Nat /\ b.resting \in [1 .. n -> OrderType]
  <2>1. b.resting \in Seq(OrderType) /\ b.ids \in Nat
    BY <1>1 DEF BrokerType
  <2> QED
    BY <2>1, LenProperties
<1>3. base \in Money
  <2>1. <<>> \in Seq(OrderType)
    OBVIOUS
  <2>2. [b EXCEPT !.last = price, !.resting = <<>>, !.ids = b.ids] \in Money
    BY <1>2, <2>1, RestsKeepMoney
  <2>3. [b EXCEPT !.last = price, !.resting = <<>>, !.ids = b.ids] = base
    BY <1>1 DEF BrokerType
  <2> QED
    BY <2>2, <2>3
<1>4. step \in [1 .. n -> [Money -> Money]]
  <2>1. \A i \in 1 .. n : b.resting[i] \in OrderType
    BY <1>2
  <2>2. \A i \in 1 .. n : \A c \in Money : Reached(c, b.resting[i], price) \in Money
    BY <2>1, ReachedKeepsMoney
  <2> QED
    BY <2>2
<1>5. Ticked(b, price) = h[1 .. n]
  <2>1. DOMAIN b.resting = 1 .. n
    BY <1>2
  <2> QED
    BY <2>1, TickIs
<1> HIDE DEF n, base
<1>6. \E g : Ticks(g, base, b.resting, price, 1 .. n)
  <2> HIDE DEF step
  <2>1. PICK g \in [SUBSET (1 .. n) -> Money] : \A s \in SUBSET (1 .. n) : Folds(g, s, base, step)
    BY <1>2, <1>3, <1>4, FoldExists
  <2>2. \A s \in SUBSET (1 .. n) : s # {} =>
           g[s] = Reached(g[s \ {Max(s)}], b.resting[Max(s)], price)
    BY <1>2, <2>1, Shorter DEF Folds, step
  <2>3. g[{}] = base
    BY <2>1 DEF Folds
  <2> QED
    BY <2>1, <2>2, <2>3 DEF Ticks
<1>7. Ticks(h, base, b.resting, price, 1 .. n)
  BY <1>6
<1> HIDE DEF h
<1>8. h[{}] = base
  BY <1>7 DEF Ticks
<1>9. \A s \in SUBSET (1 .. n) : s # {} => h[s] = Reached(h[s \ {Max(s)}], b.resting[Max(s)], price)
  BY <1>7 DEF Ticks
<1>10. \A s \in SUBSET (1 .. n) :
          s # {} /\ h[s \ {Max(s)}] \in Money => h[s] = step[Max(s)][h[s \ {Max(s)}]]
  BY <1>2, <1>9, Shorter
<1>11. h[{}] \in Money
  BY <1>3, <1>8
<1> HIDE DEF step
<1>12. h[1 .. n] \in Money
  BY <1>2, <1>4, <1>10, <1>11, FoldStays
<1> QED
  BY <1>5, <1>12
\* cancel_order
Keeps(h, orders, id, S) ==
    h = [s \in SUBSET S |-> IF s = {} THEN <<>>
                            ELSE IF orders[Max(s)].id = id THEN h[s \ {Max(s)}]
                            ELSE Append(h[s \ {Max(s)}], orders[Max(s)])]

\* Withdrawn, with the function its fold chooses.
LEMMA WithdrawIs ==
    ASSUME NEW b, NEW id
    PROVE  Withdrawn(b, id) =
              [b EXCEPT !.resting = (CHOOSE h : Keeps(h, @, id, DOMAIN @))[DOMAIN @]]
BY DEF Withdrawn, FoldLeft, MapThenFoldSet, Keeps

\* Taking orders off the book is not money either.
LEMMA WithdrawKeepsMoney ==
    ASSUME NEW b \in Money, NEW id
    PROVE  Withdrawn(b, id) \in Money
<1> DEFINE orders == b.resting
           n      == Len(orders)
           One(c, o) == IF o.id = id THEN c ELSE Append(c, o)
           step   == [i \in 1 .. n |-> [c \in Seq(OrderType) |-> One(c, orders[i])]]
           h      == CHOOSE g : Keeps(g, orders, id, 1 .. n)
<1>1. b \in BrokerType
  BY DEF Money
<1>2. /\ orders \in Seq(OrderType) /\ b.ids \in Nat /\ b.last \in Nat
      /\ n \in Nat /\ orders \in [1 .. n -> OrderType]
  <2>1. b.resting \in Seq(OrderType) /\ b.ids \in Nat /\ b.last \in Nat
    BY <1>1 DEF BrokerType
  <2> QED
    BY <2>1, LenProperties
<1>3. <<>> \in Seq(OrderType)
  OBVIOUS
<1>4. step \in [1 .. n -> [Seq(OrderType) -> Seq(OrderType)]]
  <2>1. \A i \in 1 .. n : orders[i] \in OrderType
    BY <1>2
  <2>2. \A i \in 1 .. n : \A c \in Seq(OrderType) : One(c, orders[i]) \in Seq(OrderType)
    <3> SUFFICES ASSUME NEW i \in 1 .. n, NEW c \in Seq(OrderType)
                 PROVE  One(c, orders[i]) \in Seq(OrderType)
      OBVIOUS
    <3>1. Append(c, orders[i]) \in Seq(OrderType)
      BY <2>1, AppendProperties
    <3> QED
      BY <3>1
  <2> HIDE DEF One, n, orders
  <2> QED
    BY <2>2
<1>5. Withdrawn(b, id) = [b EXCEPT !.resting = h[1 .. n]]
  <2>1. DOMAIN b.resting = 1 .. n
    BY <1>2
  <2>2. Withdrawn(b, id) =
           [b EXCEPT !.resting = (CHOOSE g : Keeps(g, b.resting, id, DOMAIN b.resting))[DOMAIN b.resting]]
    BY WithdrawIs
  <2> QED
    BY <2>1, <2>2
<1> HIDE DEF n, orders
<1>6. \E g : Keeps(g, orders, id, 1 .. n)
  <2> HIDE DEF step, One
  <2>1. PICK g \in [SUBSET (1 .. n) -> Seq(OrderType)] :
           \A s \in SUBSET (1 .. n) : Folds(g, s, <<>>, step)
    BY <1>2, <1>3, <1>4, FoldExists
  <2>2. \A s \in SUBSET (1 .. n) : s # {} => g[s] = One(g[s \ {Max(s)}], orders[Max(s)])
    BY <1>2, <2>1, Shorter DEF Folds, step
  <2>3. g[{}] = <<>>
    BY <2>1 DEF Folds
  <2> QED
    BY <2>1, <2>2, <2>3 DEF Keeps, One
<1>7. Keeps(h, orders, id, 1 .. n)
  BY <1>6
<1> HIDE DEF h
<1>8. h[{}] = <<>>
  BY <1>7 DEF Keeps
<1>9. \A s \in SUBSET (1 .. n) : s # {} => h[s] = One(h[s \ {Max(s)}], orders[Max(s)])
  BY <1>7 DEF Keeps
<1> HIDE DEF One
<1>10. \A s \in SUBSET (1 .. n) :
          s # {} /\ h[s \ {Max(s)}] \in Seq(OrderType) => h[s] = step[Max(s)][h[s \ {Max(s)}]]
  BY <1>2, <1>9, Shorter
<1>11. h[{}] \in Seq(OrderType)
  BY <1>3, <1>8
<1> HIDE DEF step
<1>12. h[1 .. n] \in Seq(OrderType)
  BY <1>2, <1>4, <1>10, <1>11, FoldStays
<1>13. [b EXCEPT !.last = b.last, !.resting = h[1 .. n], !.ids = b.ids] \in Money
  BY <1>2, <1>12, RestsKeepMoney
<1>14. [b EXCEPT !.last = b.last, !.resting = h[1 .. n], !.ids = b.ids] = [b EXCEPT !.resting = h[1 .. n]]
  BY <1>1 DEF BrokerType
<1> QED
  BY <1>5, <1>13, <1>14

\* place_order and modify_order
LEMMA PlacesKeepMoney ==
    ASSUME NEW b \in Money, NEW action \in {"BUY", "SELL"}, NEW qty \in Nat, NEW trigger \in Nat, NEW id \in Nat
    PROVE  /\ Bought(b, action, qty) \in Money
           /\ Rested(b, action, qty, trigger) \in Money
           /\ Modified(b, id, trigger) \in Money
<1>1. b \in BrokerType
  BY DEF Money
<1>2. b.last \in Nat /\ b.resting \in Seq(OrderType) /\ b.ids \in Nat /\ b.ids + 1 \in Nat
  BY <1>1 DEF BrokerType
<1>3. [b EXCEPT !.ids = @ + 1] \in Money
  <2>1. [b EXCEPT !.last = b.last, !.resting = b.resting, !.ids = b.ids + 1] \in Money
    BY <1>2, RestsKeepMoney
  <2>2. [b EXCEPT !.last = b.last, !.resting = b.resting, !.ids = b.ids + 1] = [b EXCEPT !.ids = @ + 1]
    BY <1>1 DEF BrokerType
  <2> QED
    BY <2>1, <2>2
<1>4. Bought(b, action, qty) \in Money
  <2> DEFINE c == [b EXCEPT !.ids = @ + 1]
  <2>1. c \in Money /\ b.last \in Int
    BY <1>2, <1>3
  <2>2. Bought(b, action, qty) = IF b.last = 0 THEN b
                                 ELSE IF action = "BUY" /\ qty * b.last > b.cash THEN c
                                 ELSE Filled(c, action, qty, b.last)
    BY Zenon DEF Bought
  <2> HIDE DEF c
  <2>3. Filled(c, action, qty, b.last) \in Money
    BY <2>1, FillsKeepMoney
  <2> QED
    BY <2>1, <2>2, <2>3
<1>5. Rested(b, action, qty, trigger) \in Money
  <2> DEFINE order == [id |-> b.ids + 1, action |-> action, qty |-> qty, trigger |-> trigger]
  <2>1. order \in OrderType
    BY <1>2 DEF OrderType
  <2>2. Append(b.resting, order) \in Seq(OrderType)
    BY <1>2, <2>1, AppendProperties
  <2>3. [b EXCEPT !.last = b.last, !.resting = Append(b.resting, order), !.ids = b.ids + 1] \in Money
    BY <1>2, <2>2, RestsKeepMoney
  <2>4. [b EXCEPT !.last = b.last, !.resting = Append(b.resting, order), !.ids = b.ids + 1]
           = Rested(b, action, qty, trigger)
    BY <1>1 DEF BrokerType, Rested
  <2> QED
    BY <2>3, <2>4
<1>6. Modified(b, id, trigger) \in Money
  <2> DEFINE n     == Len(b.resting)
             moved == [i \in DOMAIN b.resting |-> IF b.resting[i].id = id
                                                  THEN [b.resting[i] EXCEPT !.trigger = trigger]
                                                  ELSE b.resting[i]]
  <2>1. n \in Nat /\ b.resting \in [1 .. n -> OrderType] /\ DOMAIN b.resting = 1 .. n
    BY <1>2, LenProperties
  <2>2. \A o \in OrderType : [o EXCEPT !.trigger = trigger] \in OrderType
    BY DEF OrderType
  <2>3. moved \in [1 .. n -> OrderType]
    BY <2>1, <2>2
  <2>4. moved \in Seq(OrderType)
    <3> HIDE DEF moved, n
    <3> QED
      BY <2>1, <2>3, SeqDef
  <2> HIDE DEF moved, n
  <2>5. [b EXCEPT !.last = b.last, !.resting = moved, !.ids = b.ids] \in Money
    BY <1>2, <2>4, RestsKeepMoney
  <2>6. [b EXCEPT !.last = b.last, !.resting = moved, !.ids = b.ids] = [b EXCEPT !.resting = moved]
    BY <1>1 DEF BrokerType
  <2>7. [b EXCEPT !.resting = moved] = Modified(b, id, trigger)
    BY Zenon DEF Modified, moved
  <2> QED
    BY <2>5, <2>6, <2>7
<1> QED
  BY <1>4, <1>5, <1>6

\* Everything the server passes on to a broker.
CallType ==
    [call : {"tick"}, price : Nat]
    \cup [call : {"market"}, action : {"BUY", "SELL"}, qty : Nat]
    \cup [call : {"stop"}, action : {"BUY", "SELL"}, qty : Nat, price : Nat]
    \cup [call : {"modify"}, id : Nat, price : Nat]
    \cup [call : {"cancel"}, id : Nat]

\* Every call, whatever it carries.
LEMMA CallsKeepMoney ==
    ASSUME NEW b \in Money, NEW c \in CallType
    PROVE  Called(b, c) \in Money
<1>1. CASE c \in [call : {"tick"}, price : Nat]
  <2>1. c.call = "tick" /\ c.price \in Nat
    BY <1>1
  <2>2. Called(b, c) = Ticked(b, c.price)
    BY <2>1 DEF Called
  <2> QED
    BY <2>1, <2>2, TicksKeepMoney
<1>2. CASE c \in [call : {"market"}, action : {"BUY", "SELL"}, qty : Nat]
  <2>1. c.call = "market" /\ c.action \in {"BUY", "SELL"} /\ c.qty \in Nat
    BY <1>2
  <2>2. Called(b, c) = Bought(b, c.action, c.qty)
    BY <2>1 DEF Called
  <2> QED
    BY <2>1, <2>2, PlacesKeepMoney
<1>3. CASE c \in [call : {"stop"}, action : {"BUY", "SELL"}, qty : Nat, price : Nat]
  <2>1. c.call = "stop" /\ c.action \in {"BUY", "SELL"} /\ c.qty \in Nat /\ c.price \in Nat
    BY <1>3
  <2>2. Called(b, c) = Rested(b, c.action, c.qty, c.price)
    BY <2>1 DEF Called
  <2> QED
    BY <2>1, <2>2, PlacesKeepMoney
<1>4. CASE c \in [call : {"modify"}, id : Nat, price : Nat]
  <2>1. c.call = "modify" /\ c.id \in Nat /\ c.price \in Nat
    BY <1>4
  <2>2. Called(b, c) = Modified(b, c.id, c.price)
    BY <2>1 DEF Called
  <2> QED
    BY <2>1, <2>2, PlacesKeepMoney
<1>5. CASE c \in [call : {"cancel"}, id : Nat]
  <2>1. c.call = "cancel"
    BY <1>5
  <2>2. Called(b, c) = Withdrawn(b, c.id)
    BY <2>1 DEF Called
  <2> QED
    BY <2>2, WithdrawKeepsMoney
<1> QED
  BY <1>1, <1>2, <1>3, <1>4, <1>5 DEF CallType

\* A new broker has its starting cash and nothing else.
LEMMA NewMoney == NewBroker \in Money
<1>1. NewBroker \in BrokerType
  <2>1. <<>> \in Seq(OrderType) /\ <<>> \in Seq(FillType) /\ StartingCash \in Int
    BY BrokerAssumption
  <2> QED
    BY <2>1 DEF NewBroker, BrokerType
<1>2. Nought(NewBroker)
  BY DEF NewBroker, Nought
<1>3. Tallied(NewBroker)
  <2> SUFFICES ASSUME NEW p \in Int
               PROVE  WorthAt(NewBroker.fills, p) = NewBroker.cash + NewBroker.qty * p
    BY DEF Tallied
  <2>1. WorthAt(<<>>, p) = StartingCash /\ StartingCash \in Int /\ 0 * p = 0
    BY WorthOfNone, BrokerAssumption
  <2> QED
    BY <2>1 DEF NewBroker
<1> QED
  BY <1>1, <1>2, <1>3 DEF Money

\* All of them, one after the other.
Goes(h, calls, S) ==
    h = [s \in SUBSET S |-> IF s = {} THEN NewBroker ELSE Called(h[s \ {Max(s)}], calls[Max(s)])]

\* AfterCalls, with the function its fold chooses.
LEMMA CallsAre ==
    ASSUME NEW calls
    PROVE  AfterCalls(calls) = (CHOOSE h : Goes(h, calls, DOMAIN calls))[DOMAIN calls]
BY DEF AfterCalls, FoldLeft, MapThenFoldSet, Goes

\* What holds of a new broker and is kept by a call holds after all of them.
LEMMA MoneyAfterCalls ==
    ASSUME NEW n \in Nat, NEW calls \in [1 .. n -> CallType]
    PROVE  AfterCalls(calls) \in Money
<1> DEFINE step == [i \in 1 .. n |-> [c \in Money |-> Called(c, calls[i])]]
           h    == CHOOSE g : Goes(g, calls, 1 .. n)
<1>1. step \in [1 .. n -> [Money -> Money]]
  <2>1. \A i \in 1 .. n : \A c \in Money : Called(c, calls[i]) \in Money
    BY CallsKeepMoney
  <2> QED
    BY <2>1
<1>2. AfterCalls(calls) = h[1 .. n]
  <2>1. DOMAIN calls = 1 .. n
    OBVIOUS
  <2> QED
    BY <2>1, CallsAre
<1>3. \E g : Goes(g, calls, 1 .. n)
  <2> HIDE DEF step
  <2>1. PICK g \in [SUBSET (1 .. n) -> Money] :
           \A s \in SUBSET (1 .. n) : Folds(g, s, NewBroker, step)
    BY <1>1, NewMoney, FoldExists
  <2>2. \A s \in SUBSET (1 .. n) : s # {} => g[s] = Called(g[s \ {Max(s)}], calls[Max(s)])
    BY <2>1, Shorter DEF Folds, step
  <2>3. g[{}] = NewBroker
    BY <2>1 DEF Folds
  <2> QED
    BY <2>1, <2>2, <2>3 DEF Goes
<1>4. Goes(h, calls, 1 .. n)
  BY <1>3
<1> HIDE DEF h
<1>5. h[{}] \in Money
  BY <1>4, NewMoney DEF Goes
<1>6. \A s \in SUBSET (1 .. n) : s # {} => h[s] = Called(h[s \ {Max(s)}], calls[Max(s)])
  BY <1>4 DEF Goes
<1>7. \A s \in SUBSET (1 .. n) :
          s # {} /\ h[s \ {Max(s)}] \in Money => h[s] = step[Max(s)][h[s \ {Max(s)}]]
  BY <1>6, Shorter
<1> HIDE DEF step
<1>8. h[1 .. n] \in Money
  BY <1>1, <1>5, <1>7, FoldStays
<1> QED
  BY <1>2, <1>8

\* After any number of calls of any kind, in any order and at any prices, the
\* equity is what the fills are worth at the last price, costs included, unless
\* one fill turned a long position into the short one there is
\* (paper_broker.py:135-146, :165-172).
THEOREM EquityIsAlwaysTrue ==
    ASSUME NEW n \in Nat, NEW calls \in [1 .. n -> CallType], ~ AfterCalls(calls).flipped
    PROVE  EquityTimes(AfterCalls(calls)) = AfterCalls(calls).avg[2] * Worth(AfterCalls(calls))
BY MoneyAfterCalls, MoneyIsWorth

\* In particular after the calls a run makes: a tick, then any of its calls.
THEOREM EquityAlwaysTrue == EquityIsTrue
<1>1. Calls \subseteq CallType
  BY DEF Calls, CallType
<1>2. ASSUME NEW n \in 0 .. 4, NEW calls \in [1 .. n -> Calls],
             ~ AfterCalls(<<[call |-> "tick", price |-> 10]>> \o calls).flipped
      PROVE  LET b == AfterCalls(<<[call |-> "tick", price |-> 10]>> \o calls)
             IN  EquityTimes(b) = b.avg[2] * Worth(b)
  <2> DEFINE first == <<[call |-> "tick", price |-> 10]>>
             all   == first \o calls
  <2>1. n \in Nat /\ calls \in [1 .. n -> CallType]
    BY <1>1
  <2>2. calls \in Seq(CallType)
    BY <2>1, SeqDef
  <2>3. first \in Seq(CallType)
    BY DEF CallType
  <2>4. all \in Seq(CallType)
    BY <2>2, <2>3, ConcatProperties
  <2> HIDE DEF first
  <2>5. Len(all) \in Nat /\ all \in [1 .. Len(all) -> CallType]
    <3> HIDE DEF all
    <3> QED
      BY <2>4, LenProperties
  <2>6. ~ AfterCalls(all).flipped
    BY <1>2 DEF first
  <2> HIDE DEF all
  <2>7. EquityTimes(AfterCalls(all)) = AfterCalls(all).avg[2] * Worth(AfterCalls(all))
    BY <2>5, <2>6, EquityIsAlwaysTrue
  <2> QED
    BY <2>7, Zenon DEF all, first
<1> QED
  BY <1>2, Zenon DEF EquityIsTrue
==============================================================================
