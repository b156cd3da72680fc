-------------------------- MODULE KillSwitch_proofs --------------------------
(***************************************************************************)
(* Proofs about KillSwitch: for every number of entries, kills, unlocks    *)
(* and legs, an entry that asks after a kill is refused, and a kill that   *)
(* returns has dealt with, or reported, everything it found.               *)
(***************************************************************************)
EXTENDS KillSwitch, TLAPS

\* An entry that has not been dispatched has no order.
NotYetSent ==
    \A r \in Routes :
        routePc[r] \in {"idle", "sentinel", "checks", "refused"} => order[r] = "none"

\* The sentinel file outlives the seal, the seal outlives the late entries.
Sealing ==
    /\ sealed => sentinel
    /\ late # {} => sealed

\* An order is sent, rests or is held, and ends; none comes back.
OrderStep ==
    \A r \in Routes :
        \/ order'[r] = order[r]
        \/ order[r] \in {"none", "travelling"}
        \/ order[r] = "open" /\ order'[r] \in {"position", "cancelled"}
        \/ order[r] = "position" /\ order'[r] = "closed"

\* What a kill still has to do about an order it found, up to its return: all of
\* it, while it has not come to the order's leg; on that leg, the order is in the
\* list it works on, or was open when it listed the positions yet to come.
Ahead(k, r) ==
    \/ killPc[k] # "done" /\ legOf[r] > killLeg[k]
    \/ /\ legOf[r] = killLeg[k]
       /\ \/ killPc[k] = "fetchOrders"
          \/ killPc[k] = "cancelling" /\ (order[r] = "open" => r \in todo[k])
          \/ killPc[k] = "closing" /\ order[r] = "position" /\ r \in todo[k]

Accounted(k, r) ==
    /\ killPc[k] \in {"fetchOrders", "cancelling", "closing", "done"}
    /\ order[r] \in {"open", "position", "cancelled", "closed"}
    /\ Explained(k, r) \/ Ahead(k, r)

Accounts == \A k \in Kills : \A r \in caught[k] : Accounted(k, r)

\* It begins with the first leg.
FromFirstLeg == \A k \in Kills : killPc[k] \in {"idle", "sentinel"} => killLeg[k] = 1

KillIInv ==
    KillTypeOK /\ NotYetSent /\ Sealing /\ LateEntryRefused /\ Accounts /\ FromFirstLeg

------------------------------------------------------------------------------
LEMMA InitKillIInv == KillInit => KillIInv
<1> SUFFICES ASSUME KillInit
             PROVE  KillIInv
  OBVIOUS
<1>1. KillTypeOK
  <2>1. killLeg \in [Kills -> Legs]
    BY KillSwitchAssumption DEF KillInit, Legs
  <2>2. redisUp \in BOOLEAN /\ haltKey \in BOOLEAN /\ sentinel \in BOOLEAN /\ sealed \in BOOLEAN
    BY DEF KillInit
  <2> QED
    BY <2>1, <2>2 DEF KillInit, KillTypeOK
<1>2. NotYetSent
  BY DEF KillInit, NotYetSent
<1>3. Sealing
  BY DEF KillInit, Sealing
<1>4. LateEntryRefused
  BY DEF KillInit, LateEntryRefused
<1>5. Accounts
  BY DEF KillInit, Accounts
<1>6. FromFirstLeg
  BY DEF KillInit, FromFirstLeg
<1> QED
  BY <1>1, <1>2, <1>3, <1>4, <1>5, <1>6 DEF KillIInv

\* The entries and the brokers: their steps leave every kill and unlock alone.
RouteStep(r) ==
    \/ HaltRead(r) \/ SentinelCheck(r) \/ CheckRefuses(r) \/ Dispatch(r)
    \/ Rests(r) \/ Fills(r) \/ StopsOut(r)

RedisStep == RedisFails \/ RedisReturns

LEMMA StepsOfKillNext ==
    KillNext <=> \/ \E r \in Routes : RouteStep(r)
                 \/ \E k \in Kills : KillRedis(k) \/ KillStep(k)
                 \/ \E u \in Unlocks : UnlockRedis(u) \/ UnlockSentinel(u)
                 \/ RedisStep
BY DEF KillNext, RouteStep, KillStep, RedisStep

\* A loop over a list of orders only reports failures of calls it made.
LEMMA FailureTypes ==
    /\ <<"redis", 0>> \in Failures
    /\ \A leg \in Legs : FetchFailures(leg) \subseteq Failures
    /\ \A r \in Routes : CallFailures(r) \subseteq Failures
BY DEF Failures

LEMMA RouteTypeOK ==
    ASSUME KillTypeOK, NEW r \in Routes, RouteStep(r)
    PROVE  KillTypeOK'
<1> USE DEF KillTypeOK, routeFrame, flagVars, callVars, Goto
<1>1. CASE HaltRead(r)
  BY <1>1 DEF HaltRead
<1>2. CASE SentinelCheck(r)
  BY <1>2 DEF SentinelCheck
<1>3. CASE CheckRefuses(r)
  BY <1>3 DEF CheckRefuses
<1>4. CASE Dispatch(r)
  BY <1>4 DEF Dispatch
<1>5. CASE Rests(r) \/ Fills(r) \/ StopsOut(r)
  BY <1>5 DEF Rests, Fills, StopsOut, OrderMoves
<1> QED
  BY <1>1, <1>2, <1>3, <1>4, <1>5 DEF RouteStep

LEMMA WorkTypeOK ==
    ASSUME KillTypeOK, NEW k \in Kills,
           \/ Work(k, "open", "cancelled")
           \/ Work(k, "position", "closed")
    PROVE  KillTypeOK'
<1>1. PICK r \in todo[k], to \in {"cancelled", "closed"} :
        /\ order' \in {order, [order EXCEPT ![r] = to]}
        /\ failures' \in {failures, [failures EXCEPT ![k] = @ \union {<<to, r>>}]}
        /\ todo' = [todo EXCEPT ![k] = Rest(k, r)]
        /\ UNCHANGED <<killFrame, haltKey, sentinel, sealed, killPc, killLeg, caught>>
  BY DEF Work
<1>2. r \in Routes /\ <<to, r>> \in Failures
  BY <1>1, FailureTypes DEF KillTypeOK, CallFailures
<1>3. failures' \in [Kills -> SUBSET Failures]
  BY <1>1, <1>2 DEF KillTypeOK
<1>4. order' \in [Routes -> {"none", "travelling", "open", "position", "cancelled", "closed"}]
  BY <1>1, <1>2 DEF KillTypeOK
<1> QED
  BY <1>1, <1>3, <1>4 DEF KillTypeOK, killFrame, Rest

LEMMA FetchTypeOK ==
    ASSUME KillTypeOK, NEW k \in Kills, NEW what \in {"open", "position"},
           NEW next \in {"cancelling", "closing"}, Fetch(k, what, next)
    PROVE  KillTypeOK'
<1>1. failures' \in [Kills -> SUBSET Failures]
  <2>1. ASSUME NEW f \in FetchFailures(killLeg[k]),
               failures' = [failures EXCEPT ![k] = @ \union {f}]
        PROVE  failures' \in [Kills -> SUBSET Failures]
    <3>1. f \in Failures
      BY FailureTypes DEF KillTypeOK
    <3> QED
      BY <2>1, <3>1 DEF KillTypeOK
  <2> QED
    BY <2>1 DEF Fetch, KillTypeOK
<1>2. todo' \in [Kills -> SUBSET Routes]
  <2>1. PICK list \in SUBSET Routes : todo' = [todo EXCEPT ![k] = list]
    BY DEF Fetch
  <2> QED
    BY <2>1 DEF KillTypeOK
<1> QED
  BY <1>1, <1>2 DEF Fetch, KillTypeOK, KillGoto, killFrame

LEMMA CallTypeOK ==
    ASSUME KillTypeOK, NEW k \in Kills, KillRedis(k) \/ KillStep(k)
    PROVE  KillTypeOK'
<1> USE DEF KillGoto, killFrame
<1>1. CASE KillRedis(k)
  <2>1. failures' \in [Kills -> SUBSET Failures]
    BY <1>1, FailureTypes DEF KillRedis, KillTypeOK
  <2>2. haltKey' \in BOOLEAN
    BY <1>1 DEF KillRedis, KillTypeOK
  <2> QED
    BY <1>1, <2>1, <2>2 DEF KillRedis, KillTypeOK
<1>2. CASE KillSentinel(k)
  <2>1. caught' \in [Kills -> SUBSET Routes]
    BY <1>2 DEF KillSentinel, KillTypeOK
  <2>2. sentinel' \in BOOLEAN /\ sealed' \in BOOLEAN
    BY <1>2 DEF KillSentinel
  <2> QED
    BY <1>2, <2>1, <2>2 DEF KillSentinel, KillTypeOK
<1>3. CASE KillFetchOrders(k)
  BY <1>3, FetchTypeOK DEF KillFetchOrders
<1>4. CASE KillFetchPositions(k)
  BY <1>4, FetchTypeOK DEF KillFetchPositions
<1>5. CASE KillCancel(k) \/ KillClose(k)
  BY <1>5, WorkTypeOK DEF KillCancel, KillClose
<1>6. CASE KillNextLeg(k)
  <2>1. killLeg' \in [Kills -> Legs]
    BY <1>6, KillSwitchAssumption DEF KillNextLeg, LastLeg, KillTypeOK, Legs
  <2>2. killPc' \in [Kills -> {"idle", "sentinel", "fetchOrders", "cancelling",
                               "closing", "done"}]
    BY <1>6 DEF KillNextLeg, KillTypeOK
  <2> QED
    BY <1>6, <2>1, <2>2 DEF KillNextLeg, KillTypeOK
<1> QED
  BY <1>1, <1>2, <1>3, <1>4, <1>5, <1>6 DEF KillStep

LEMMA StepKillTypeOK ==
    ASSUME KillTypeOK, KillNext
    PROVE  KillTypeOK'
<1>1. ASSUME NEW u \in Unlocks, UnlockRedis(u) \/ UnlockSentinel(u)
      PROVE  KillTypeOK'
  BY <1>1 DEF UnlockRedis, UnlockSentinel, KillTypeOK, unlockFrame, callVars
<1>2. ASSUME RedisStep
      PROVE  KillTypeOK'
  BY <1>2 DEF RedisStep, RedisFails, RedisReturns, KillTypeOK, redisFrame, callVars
<1> QED
  BY <1>1, <1>2, RouteTypeOK, CallTypeOK, StepsOfKillNext

------------------------------------------------------------------------------
\* Who looks at the flags, and when.

LEMMA StepNotYetSent ==
    ASSUME KillTypeOK, NotYetSent, KillNext
    PROVE  NotYetSent'
<1> USE DEF KillTypeOK, NotYetSent
<1>1. ASSUME NEW r \in Routes, RouteStep(r)
      PROVE  NotYetSent'
  <2> USE DEF Goto
  <2>1. CASE HaltRead(r)
    BY <2>1 DEF HaltRead
  <2>2. CASE SentinelCheck(r)
    BY <2>2 DEF SentinelCheck
  <2>3. CASE CheckRefuses(r)
    BY <2>3 DEF CheckRefuses
  <2>4. CASE Dispatch(r)
    BY <2>4 DEF Dispatch
  <2>5. CASE Rests(r) \/ Fills(r) \/ StopsOut(r)
    BY <2>5 DEF Rests, Fills, StopsOut, OrderMoves
  <2> QED
    BY <1>1, <2>1, <2>2, <2>3, <2>4, <2>5 DEF RouteStep
<1>2. ASSUME NEW k \in Kills, NEW what \in {"open", "position"},
             NEW to \in {"cancelled", "closed"}, Work(k, what, to)
      PROVE  NotYetSent'
  BY <1>2 DEF Work, killFrame
<1>3. ASSUME NEW k \in Kills, KillRedis(k) \/ KillStep(k)
      PROVE  NotYetSent'
  BY <1>2, <1>3 DEF KillRedis, KillStep, KillSentinel, KillFetchOrders, KillCancel,
                    KillFetchPositions, KillClose, KillNextLeg, Fetch, killFrame
<1>4. ASSUME \/ RedisStep
             \/ \E u \in Unlocks : UnlockRedis(u) \/ UnlockSentinel(u)
      PROVE  UNCHANGED <<routePc, order>>
  BY <1>4 DEF RedisStep, RedisFails, RedisReturns, UnlockRedis, UnlockSentinel,
              redisFrame, unlockFrame
<1> QED
  BY <1>1, <1>3, <1>4, StepsOfKillNext

LEMMA RouteSealing ==
    ASSUME KillTypeOK, NotYetSent, Sealing, LateEntryRefused, NEW r \in Routes, RouteStep(r)
    PROVE  Sealing' /\ LateEntryRefused'
<1> USE DEF KillTypeOK, NotYetSent, Sealing, LateEntryRefused, Goto, routeFrame, flagVars
<1>1. CASE HaltRead(r)
  <2>1. Sealing'
    BY <1>1 DEF HaltRead
  <2> QED
    BY <1>1, <2>1 DEF HaltRead
<1>2. CASE SentinelCheck(r)
  <2>1. r \in late => sentinel
    OBVIOUS
  <2> QED
    BY <1>2, <2>1 DEF SentinelCheck
<1>3. CASE CheckRefuses(r)
  BY <1>3 DEF CheckRefuses
<1>4. CASE Dispatch(r)
  BY <1>4 DEF Dispatch
<1>5. CASE Rests(r) \/ Fills(r) \/ StopsOut(r)
  BY <1>5 DEF Rests, Fills, StopsOut, OrderMoves
<1> QED
  BY <1>1, <1>2, <1>3, <1>4, <1>5 DEF RouteStep

\* A kill raises the flags and closes what is open; it sends nothing.
LEMMA CallSealing ==
    ASSUME KillTypeOK, Sealing, LateEntryRefused, NEW k \in Kills, KillRedis(k) \/ KillStep(k)
    PROVE  Sealing' /\ LateEntryRefused'
<1>1. UNCHANGED <<late, routePc>>
  BY DEF KillRedis, KillStep, KillSentinel, KillFetchOrders, KillCancel,
         KillFetchPositions, KillClose, KillNextLeg, Work, Fetch, killFrame
<1>2. UNCHANGED <<sealed, sentinel>> \/ (sealed' /\ sentinel')
  BY DEF KillRedis, KillStep, KillSentinel, KillFetchOrders, KillCancel,
         KillFetchPositions, KillClose, KillNextLeg, Work, Fetch, killFrame
<1>3. \A r \in Routes : order[r] = "none" => order'[r] = "none"
  <2>1. ASSUME NEW what \in {"open", "position"}, NEW to \in {"cancelled", "closed"},
               Work(k, what, to), NEW r \in Routes, order[r] = "none"
        PROVE  order'[r] = "none"
    BY <2>1 DEF Work, KillTypeOK
  <2> QED
    BY <2>1 DEF KillRedis, KillStep, KillSentinel, KillFetchOrders, KillCancel,
                KillFetchPositions, KillClose, KillNextLeg, Fetch
<1>4. late \subseteq Routes
  BY DEF KillTypeOK
<1> QED
  BY <1>1, <1>2, <1>3, <1>4 DEF Sealing, LateEntryRefused

LEMMA StepSealing ==
    ASSUME KillTypeOK, NotYetSent, Sealing, LateEntryRefused, KillNext
    PROVE  Sealing' /\ LateEntryRefused'
<1>1. ASSUME NEW u \in Unlocks, UnlockRedis(u)
      PROVE  Sealing' /\ LateEntryRefused'
  <2>1. CASE redisUp
    BY <1>1, <2>1 DEF UnlockRedis, Sealing, LateEntryRefused
  <2>2. CASE ~redisUp
    BY <1>1, <2>2 DEF UnlockRedis, unlockFrame, Sealing, LateEntryRefused
  <2> QED
    BY <2>1, <2>2
<1>2. ASSUME NEW u \in Unlocks, UnlockSentinel(u)
      PROVE  Sealing' /\ LateEntryRefused'
  BY <1>2 DEF UnlockSentinel, Sealing, LateEntryRefused
<1>3. ASSUME RedisStep
      PROVE  Sealing' /\ LateEntryRefused'
  <2>1. UNCHANGED <<sealed, sentinel, late, routePc, order>>
    BY <1>3 DEF RedisStep, RedisFails, RedisReturns, redisFrame
  <2> QED
    BY <2>1 DEF Sealing, LateEntryRefused
<1> QED
  BY <1>1, <1>2, <1>3, RouteSealing, CallSealing, StepsOfKillNext

------------------------------------------------------------------------------
\* What a kill found, up to its return.

\* What one kill reports in answer to a call is a reason for that call's order.
LEMMA WorkEffect ==
    ASSUME KillTypeOK, NEW k \in Kills, NEW what \in {"open", "position"},
           NEW to \in {"cancelled", "closed"}, Work(k, what, to)
    PROVE  \E r \in todo[k] :
              /\ r \in Routes
              /\ \/ order[r] = what /\ order' = [order EXCEPT ![r] = to] /\ UNCHANGED failures
                 \/ /\ order' = order \/ (order[r] = what /\ order' = [order EXCEPT ![r] = to])
                    /\ failures' = [failures EXCEPT ![k] = @ \union {<<to, r>>}]
              /\ todo' = [todo EXCEPT ![k] = @ \ {r}]
              /\ UNCHANGED <<legOf, killPc, killLeg, caught>>
<1>1. todo \in [Kills -> SUBSET Routes]
  BY DEF KillTypeOK
<1> QED
  BY <1>1 DEF Work, Rest, killFrame

LEMMA EveryOrderStep ==
    ASSUME KillTypeOK, NotYetSent, KillNext
    PROVE  OrderStep /\ legOf' = legOf
<1> USE DEF KillTypeOK, OrderStep
<1>1. ASSUME NEW r \in Routes, RouteStep(r)
      PROVE  OrderStep /\ legOf' = legOf
  <2>1. CASE HaltRead(r) \/ SentinelCheck(r) \/ CheckRefuses(r)
    BY <2>1 DEF HaltRead, SentinelCheck, CheckRefuses, routeFrame
  <2>2. CASE Dispatch(r)
    BY <2>2 DEF Dispatch, routeFrame, NotYetSent
  <2>3. CASE Rests(r)
    BY <2>3 DEF Rests, OrderMoves
  <2>4. CASE Fills(r)
    BY <2>4 DEF Fills, OrderMoves
  <2>5. CASE StopsOut(r)
    BY <2>5 DEF StopsOut, OrderMoves
  <2> QED
    BY <1>1, <2>1, <2>2, <2>3, <2>4, <2>5 DEF RouteStep
<1>2. ASSUME NEW k \in Kills, KillCancel(k)
      PROVE  OrderStep /\ legOf' = legOf
  BY <1>2, WorkEffect DEF KillCancel
<1>3. ASSUME NEW k \in Kills, KillClose(k)
      PROVE  OrderStep /\ legOf' = legOf
  BY <1>3, WorkEffect DEF KillClose
<1>4. ASSUME NEW k \in Kills, \/ KillRedis(k) \/ KillSentinel(k) \/ KillFetchOrders(k)
                              \/ KillFetchPositions(k) \/ KillNextLeg(k)
      PROVE  UNCHANGED <<order, legOf>>
  BY <1>4 DEF KillRedis, KillSentinel, KillFetchOrders, KillFetchPositions, KillNextLeg,
              Fetch, killFrame
<1>5. ASSUME \/ RedisStep
             \/ \E u \in Unlocks : UnlockRedis(u) \/ UnlockSentinel(u)
      PROVE  UNCHANGED <<order, legOf>>
  BY <1>5 DEF RedisStep, RedisFails, RedisReturns, UnlockRedis, UnlockSentinel,
              redisFrame, unlockFrame
<1> QED
  BY <1>1, <1>2, <1>3, <1>4, <1>5, StepsOfKillNext DEF KillStep

\* Whatever the others do, a kill that does not move itself still has its orders
\* ahead of it, or a reason.
LEMMA OthersKeep ==
    ASSUME KillTypeOK, OrderStep, legOf' = legOf,
           NEW k \in Kills, NEW r \in caught[k], Accounted(k, r),
           killPc'[k] = killPc[k], killLeg'[k] = killLeg[k], todo'[k] = todo[k],
           failures'[k] = failures[k]
    PROVE  Accounted(k, r)'
<1>1. r \in Routes
  BY DEF KillTypeOK
<1>2. \/ order'[r] = order[r]
      \/ order[r] = "open" /\ order'[r] \in {"position", "cancelled"}
      \/ order[r] = "position" /\ order'[r] = "closed"
  BY <1>1 DEF OrderStep, Accounted
<1>3. CASE order'[r] \in {"cancelled", "closed"}
  BY <1>3 DEF Accounted, Explained
<1>4. CASE order'[r] \notin {"cancelled", "closed"} /\ Explained(k, r)
  <2>1. Explained(k, r)'
    BY <1>2, <1>4 DEF Explained, FetchFailures, CallFailures
  <2> QED
    BY <1>2, <2>1 DEF Accounted
<1>5. CASE order'[r] \notin {"cancelled", "closed"} /\ Ahead(k, r)
  <2>1. Ahead(k, r)'
    BY <1>2, <1>5 DEF Ahead
  <2> QED
    BY <1>2, <2>1 DEF Accounted
<1> QED
  BY <1>3, <1>4, <1>5 DEF Accounted

\* An answer to a call: the order has ended, or the failure is reported.
LEMMA WorkKeeps ==
    ASSUME KillTypeOK, NEW k \in Kills,
           \/ KillCancel(k)
           \/ KillClose(k),
           NEW r \in caught[k], Accounted(k, r)
    PROVE  Accounted(k, r)'
<1> DEFINE what == IF killPc[k] = "cancelling" THEN "open" ELSE "position"
           to == IF killPc[k] = "cancelling" THEN "cancelled" ELSE "closed"
<1>1. /\ killPc[k] \in {"cancelling", "closing"}
      /\ Work(k, what, to)
  BY DEF KillCancel, KillClose
<1>2. PICK s \in todo[k] :
        /\ s \in Routes
        /\ \/ order[s] = what /\ order' = [order EXCEPT ![s] = to] /\ UNCHANGED failures
           \/ /\ order' = order \/ (order[s] = what /\ order' = [order EXCEPT ![s] = to])
              /\ failures' = [failures EXCEPT ![k] = @ \union {<<to, s>>}]
        /\ todo' = [todo EXCEPT ![k] = @ \ {s}]
        /\ UNCHANGED <<legOf, killPc, killLeg, caught>>
  BY <1>1, WorkEffect
<1>3. r \in Routes /\ failures[k] \subseteq failures'[k]
  BY <1>2 DEF KillTypeOK
<1>4. order'[r] \in {"open", "position", "cancelled", "closed"}
  BY <1>2, <1>3 DEF KillTypeOK, Accounted
<1>5. CASE Explained(k, r)
  <2>1. order[r] \in {"cancelled", "closed"} => order'[r] \in {"cancelled", "closed"}
    BY <1>2, <1>3 DEF KillTypeOK
  <2>2. Explained(k, r)'
    BY <1>2, <1>3, <1>5, <2>1 DEF Explained, FetchFailures, CallFailures
  <2> QED
    BY <1>1, <1>2, <1>4, <2>2 DEF Accounted
<1>6. CASE r = s
  <2>1. \/ order'[r] \in {"cancelled", "closed"}
        \/ <<to, r>> \in failures'[k]
    BY <1>2, <1>3, <1>6 DEF KillTypeOK
  <2>2. Explained(k, r)'
    BY <2>1 DEF Explained, CallFailures
  <2> QED
    BY <1>1, <1>2, <1>4, <2>2 DEF Accounted
<1>7. CASE r # s /\ Ahead(k, r)
  <2>1. order'[r] = order[r] /\ (r \in todo[k] <=> r \in todo'[k])
    BY <1>2, <1>3, <1>7 DEF KillTypeOK
  <2>2. Ahead(k, r)'
    BY <1>2, <1>7, <2>1 DEF Ahead
  <2> QED
    BY <1>1, <1>2, <1>4, <2>2 DEF Accounted
<1> QED
  BY <1>5, <1>6, <1>7 DEF Accounted

\* A kill that lists a leg puts what it has to do there on its list.
LEMMA FetchKeeps ==
    ASSUME KillTypeOK, NEW k \in Kills,
           \/ KillFetchOrders(k)
           \/ KillFetchPositions(k),
           NEW r \in caught[k], Accounted(k, r)
    PROVE  Accounted(k, r)'
<1> DEFINE what == IF killPc[k] = "fetchOrders" THEN "open" ELSE "position"
           next == IF killPc[k] = "fetchOrders" THEN "cancelling" ELSE "closing"
          <1>1. /\ killPc[k] = "fetchOrders" \/ (killPc[k] = "cancelling" /\ todo[k] = {})
      /\ Fetch(k, what, next)
  BY DEF KillFetchOrders, KillFetchPositions
<1>2. /\ r \in Routes
      /\ UNCHANGED <<legOf, order, killLeg, caught>>
      /\ killPc' = [killPc EXCEPT ![k] = next]
  BY <1>1 DEF Fetch, killFrame, KillGoto, KillTypeOK
<1>3. killPc'[k] = next
  BY <1>2 DEF KillTypeOK
<1>4. \/ /\ todo'[k] = {s \in Routes : legOf[s] = killLeg[k] /\ order[s] = what}
         /\ failures'[k] = failures[k]
      \/ \E f \in FetchFailures(killLeg[k]) : failures'[k] = failures[k] \union {f}
  BY <1>1 DEF Fetch, KillTypeOK
<1>5. CASE Explained(k, r)
  <2>1. failures[k] \subseteq failures'[k]
    BY <1>4
  <2>2. Explained(k, r)'
    BY <1>2, <1>5, <2>1 DEF Explained, FetchFailures, CallFailures
  <2> QED
    BY <1>2, <1>3, <2>2 DEF Accounted
<1>6. CASE legOf[r] > killLeg[k]
  BY <1>2, <1>3, <1>6 DEF Accounted, Ahead
<1>7. CASE /\ legOf[r] = killLeg[k]
           /\ \E f \in FetchFailures(killLeg[k]) : failures'[k] = failures[k] \union {f}
  <2>1. FetchFailures(legOf[r])' = FetchFailures(legOf[r])
    BY <1>2 DEF FetchFailures
  <2>2. Explained(k, r)'
    BY <1>7, <2>1 DEF Explained
  <2> QED
    BY <1>2, <1>3, <2>2 DEF Accounted
<1>8. CASE /\ legOf[r] = killLeg[k] /\ ~Explained(k, r) /\ Ahead(k, r)
           /\ todo'[k] = {s \in Routes : legOf[s] = killLeg[k] /\ order[s] = what}
  <2>1. order[r] \in {"open", "position"}
    BY <1>8 DEF Accounted, Explained
  <2>2. CASE killPc[k] = "fetchOrders"
    BY <1>2, <1>3, <1>8, <2>1, <2>2 DEF Accounted, Ahead
  <2>3. CASE killPc[k] = "cancelling" /\ todo[k] = {}
    <3>1. order[r] = "position"
      <4>1. ~(legOf[r] > killLeg[k])
        BY <1>2, <1>8, KillSwitchAssumption DEF KillTypeOK, Legs
      <4> QED
        BY <1>8, <2>1, <2>3, <4>1 DEF Ahead
    <3> QED
      BY <1>2, <1>3, <1>8, <2>3, <3>1 DEF Accounted, Ahead
  <2> QED
    BY <1>1, <2>2, <2>3
<1> QED
  BY <1>4, <1>5, <1>6, <1>7, <1>8 DEF Accounted, Ahead

\* A kill only leaves a leg, or returns, with nothing left to do there.
LEMMA NextLegKeeps ==
    ASSUME KillTypeOK, NEW k \in Kills, KillNextLeg(k), NEW r \in caught[k], Accounted(k, r)
    PROVE  Accounted(k, r)'
<1>1. /\ killPc[k] = "closing" /\ todo[k] = {}
      /\ UNCHANGED <<legOf, order, failures, caught>>
  BY DEF KillNextLeg, killFrame
<1>2. /\ r \in Routes /\ legOf[r] \in 1 .. NumLegs /\ killLeg[k] \in 1 .. NumLegs
      /\ NumLegs \in Nat
  BY KillSwitchAssumption DEF KillTypeOK, Legs
<1>3. killPc'[k] \in {"done", "fetchOrders"}
  BY DEF KillNextLeg, KillGoto, KillTypeOK
<1>4. CASE Explained(k, r)
  <2>1. Explained(k, r)'
    BY <1>1, <1>4 DEF Explained, FetchFailures, CallFailures
  <2> QED
    BY <1>1, <1>3, <2>1 DEF Accounted
<1>5. CASE legOf[r] > killLeg[k]
  <2>1. killLeg'[k] = killLeg[k] + 1 /\ killPc'[k] = "fetchOrders"
    BY <1>2, <1>5 DEF KillNextLeg, LastLeg, KillGoto, KillTypeOK
  <2> QED
    BY <1>1, <1>2, <1>5, <2>1 DEF Accounted, Ahead
<1> QED
  BY <1>1, <1>4, <1>5 DEF Accounted, Ahead

LEMMA StepAccounts ==
    ASSUME KillTypeOK, NotYetSent, Accounts, FromFirstLeg, KillNext
    PROVE  Accounts'
<1>1. OrderStep /\ legOf' = legOf
  BY EveryOrderStep
<1>2. ASSUME UNCHANGED callVars
      PROVE  Accounts'
  BY <1>1, <1>2, OthersKeep DEF Accounts, callVars
<1>3. ASSUME NEW k \in Kills, KillRedis(k) \/ KillStep(k), NEW j \in Kills, j # k
      PROVE  /\ killPc'[j] = killPc[j] /\ killLeg'[j] = killLeg[j] /\ todo'[j] = todo[j]
             /\ failures'[j] = failures[j] /\ caught'[j] = caught[j]
  <2>1. CASE KillRedis(k) \/ KillSentinel(k) \/ KillNextLeg(k)
    BY <1>3, <2>1 DEF KillRedis, KillSentinel, KillNextLeg, KillGoto, KillTypeOK
  <2>2. CASE KillFetchOrders(k) \/ KillFetchPositions(k)
    BY <1>3, <2>2 DEF KillFetchOrders, KillFetchPositions, Fetch, KillGoto, KillTypeOK
  <2>3. CASE KillCancel(k) \/ KillClose(k)
    BY <1>3, <2>3 DEF KillCancel, KillClose, Work, KillTypeOK
  <2> QED
    BY <1>3, <2>1, <2>2, <2>3 DEF KillStep
<1>4. ASSUME NEW k \in Kills, KillRedis(k) \/ KillStep(k), NEW r \in caught'[k]
      PROVE  Accounted(k, r)'
  <2>1. CASE KillRedis(k)
    <3>1. caught'[k] = caught[k] /\ killPc[k] = "idle"
      BY <2>1 DEF KillRedis
    <3> QED
      BY <1>4, <3>1 DEF Accounts, Accounted
  <2>2. CASE KillSentinel(k)
    <3>1. caught'[k] = {s \in Routes : OpenAtBroker(s)} /\ killPc'[k] = "fetchOrders"
      BY <2>2 DEF KillSentinel, KillGoto, KillTypeOK
    <3>2. killLeg'[k] = killLeg[k] /\ killLeg[k] = 1 /\ order' = order
      BY <2>2 DEF KillSentinel, FromFirstLeg
    <3>3. legOf[r] >= 1 /\ legOf[r] \in Nat
      BY <1>4, <3>1, KillSwitchAssumption DEF KillTypeOK, Legs
    <3> QED
      BY <1>1, <1>4, <3>1, <3>2, <3>3 DEF OpenAtBroker, Accounted, Ahead, KillTypeOK, Legs
  <2>3. CASE KillFetchOrders(k) \/ KillFetchPositions(k)
    <3>1. caught' = caught
      BY <2>3 DEF KillFetchOrders, KillFetchPositions, Fetch
    <3> QED
      BY <1>4, <2>3, <3>1, FetchKeeps DEF Accounts
  <2>4. CASE KillCancel(k) \/ KillClose(k)
    <3>1. caught' = caught
      BY <2>4 DEF KillCancel, KillClose, Work
    <3> QED
      BY <1>4, <2>4, <3>1, WorkKeeps DEF Accounts
  <2>5. CASE KillNextLeg(k)
    <3>1. caught' = caught
      BY <2>5 DEF KillNextLeg
    <3> QED
      BY <1>4, <2>5, <3>1, NextLegKeeps DEF Accounts
  <2> QED
    BY <1>4, <2>1, <2>2, <2>3, <2>4, <2>5 DEF KillStep
<1>5. ASSUME NEW k \in Kills, KillRedis(k) \/ KillStep(k)
      PROVE  Accounts'
  <2>1. ASSUME NEW j \in Kills, j # k, NEW r \in caught'[j]
        PROVE  Accounted(j, r)'
    BY <1>1, <1>3, <1>5, <2>1, OthersKeep DEF Accounts
  <2> QED
    BY <1>4, <1>5, <2>1 DEF Accounts
<1>6. ASSUME \/ RedisStep
             \/ \E r \in Routes : RouteStep(r)
             \/ \E u \in Unlocks : UnlockRedis(u) \/ UnlockSentinel(u)
      PROVE  UNCHANGED callVars
  BY <1>6 DEF RedisStep, RedisFails, RedisReturns, UnlockRedis, UnlockSentinel, RouteStep,
              HaltRead, SentinelCheck, CheckRefuses, Dispatch, Rests, Fills, StopsOut,
              OrderMoves, redisFrame, unlockFrame, routeFrame
<1> QED
  BY <1>2, <1>5, <1>6, StepsOfKillNext

LEMMA StepFromFirstLeg ==
    ASSUME KillTypeOK, FromFirstLeg, KillNext
    PROVE  FromFirstLeg'
<1> USE DEF KillTypeOK, FromFirstLeg
<1>1. ASSUME NEW k \in Kills, KillRedis(k) \/ KillStep(k)
      PROVE  FromFirstLeg'
  <2>1. CASE KillRedis(k) \/ KillSentinel(k)
    BY <2>1 DEF KillRedis, KillSentinel, KillGoto
  <2>2. CASE KillFetchOrders(k) \/ KillFetchPositions(k)
    BY <2>2 DEF KillFetchOrders, KillFetchPositions, Fetch, KillGoto
  <2>3. CASE KillCancel(k) \/ KillClose(k)
    BY <2>3 DEF KillCancel, KillClose, Work
  <2>4. CASE KillNextLeg(k)
    <3>1. killPc'[k] \in {"done", "fetchOrders"}
      BY <2>4 DEF KillNextLeg, KillGoto
    <3>2. \A j \in Kills : j # k => killPc'[j] = killPc[j] /\ killLeg'[j] = killLeg[j]
      BY <2>4 DEF KillNextLeg, KillGoto
    <3> QED
      BY <3>1, <3>2
  <2> QED
    BY <1>1, <2>1, <2>2, <2>3, <2>4 DEF KillStep
<1>2. ASSUME \/ RedisStep
             \/ \E r \in Routes : RouteStep(r)
             \/ \E u \in Unlocks : UnlockRedis(u) \/ UnlockSentinel(u)
      PROVE  UNCHANGED <<killPc, killLeg>>
  BY <1>2 DEF RedisStep, RedisFails, RedisReturns, UnlockRedis, UnlockSentinel, RouteStep,
              HaltRead, SentinelCheck, CheckRefuses, Dispatch, Rests, Fills, StopsOut,
              OrderMoves, redisFrame, unlockFrame, routeFrame, callVars
<1> QED
  BY <1>1, <1>2, StepsOfKillNext

LEMMA StepKillIInv == KillIInv /\ [KillNext]_killSwitchVars => KillIInv'
<1>1. ASSUME KillIInv, KillNext
      PROVE  KillIInv'
  BY <1>1, StepKillTypeOK, StepNotYetSent, StepSealing, StepAccounts, StepFromFirstLeg
     DEF KillIInv
<1>2. ASSUME KillIInv, UNCHANGED killSwitchVars
      PROVE  KillIInv'
  <2>1. UNCHANGED <<redisUp, haltKey, sentinel, legOf, routePc, order, killPc, killLeg, todo,
                    failures, caught, unlockPc, sealed, late>>
    BY <1>2 DEF killSwitchVars, flagVars, callVars
  <2>2. KillTypeOK'
    BY <1>2, <2>1 DEF KillIInv, KillTypeOK
  <2>3. NotYetSent' /\ Sealing' /\ LateEntryRefused' /\ FromFirstLeg'
    BY <1>2, <2>1 DEF KillIInv, NotYetSent, Sealing, LateEntryRefused, FromFirstLeg
  <2>4. Accounts'
    BY <1>2, <2>1 DEF KillIInv, Accounts, Accounted, Explained, Ahead, FetchFailures,
                      CallFailures
  <2> QED
    BY <2>2, <2>3, <2>4 DEF KillIInv
<1> QED
  BY <1>1, <1>2

\* A kill that has returned has nothing ahead of it.
LEMMA NothingAhead ==
    ASSUME KillIInv
    PROVE  KillAccounts
<1> SUFFICES ASSUME NEW k \in Kills, killPc[k] = "done", NEW r \in caught[k]
             PROVE  Explained(k, r)
  BY DEF KillAccounts
<1>1. ~Ahead(k, r)
  BY DEF Ahead
<1> QED
  BY <1>1 DEF KillIInv, Accounts, Accounted

------------------------------------------------------------------------------
\* What a kill has found is explained or ahead of it, and the flags outlive the
\* entries that came after it.
THEOREM KillInvariance == KillSpec => []KillIInv
BY InitKillIInv, StepKillIInv, PTL DEF KillSpec

\* The flags, the calls and the orders keep their types.
THEOREM KillTypeCorrect == KillSpec => []KillTypeOK
<1>1. KillIInv => KillTypeOK
  BY DEF KillIInv
<1> QED
  BY <1>1, KillInvariance, PTL

\* An entry that asks after a kill has raised both flags is refused up to the
\* next unlock, whatever Redis does (is_halted is fail-closed).
THEOREM LateEntriesRefused == KillSpec => []LateEntryRefused
<1>1. KillIInv => LateEntryRefused
  BY DEF KillIInv
<1> QED
  BY <1>1, KillInvariance, PTL

\* kill_all deals with, or reports, every order and position it found on any leg.
THEOREM KillAccountsForAll == KillSpec => []KillAccounts
BY NothingAhead, KillInvariance, PTL
=============================================================================
