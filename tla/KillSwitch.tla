----------------------------- MODULE KillSwitch -----------------------------
(***************************************************************************)
(* The kill switch (src/src/core/kill_switch.py) against the one door it   *)
(* has to close, route_order (src/src/core/order_router.py).               *)
(*                                                                         *)
(* All of it runs as coroutines of one event loop around a Redis that may  *)
(* go away or restart empty, a sentinel file, and one broker per leg. An   *)
(* action is what happens between two awaits: Redis or a broker serves a   *)
(* call at one moment, the code that awaited it goes on at a later one.    *)
(* Auto-triggers, the cockpit's button and the operator's script all call  *)
(* kill_all; the audit and alert calls at its end change nothing here.     *)
(***************************************************************************)
EXTENDS Integers

CONSTANTS
    Routes,         \* route_order calls, and the orders they may place
    Kills,          \* kill_all calls
    Unlocks,        \* unlock calls that gave the right phrase
    NumLegs,        \* the brokers kill_all goes through, in their order
    RedisVolatile   \* whether a Redis restart loses the keys

ASSUME KillSwitchAssumption ==
    /\ NumLegs \in Nat \ {0}
    /\ RedisVolatile \in BOOLEAN

VARIABLES
    redisUp,
    haltKey,        \* TRADING_HALTED is "1"
    sentinel,       \* the sentinel file exists
    legOf,          \* the leg of each order
    routePc,        \* where each route_order call stands
    order,          \* its order at the broker
    killPc, killLeg,           \* where each kill_all call stands
    todo,           \* what its current loop still has to cancel or close
    failures,       \* KillReport.failures
    unlockPc,
    sealed,         \* ghost: a kill has raised both flags, no unlock acted since
    late,           \* ghost: calls that asked while sealed, with no unlock since
    caught          \* ghost: what was open when the kill had raised its flags

callVars  == <<killPc, killLeg, todo, failures, caught>>
flagVars  == <<redisUp, haltKey, sentinel>>
killSwitchVars == <<flagVars, legOf, routePc, order, callVars, unlockPc, sealed, late>>

Legs == 1 .. NumLegs
OpenAtBroker(r) == order[r] \in {"open", "position"}

\* The entries of KillReport.failures that a loop over a leg may add.
FetchFailures(leg) == {<<"list open", leg>>, <<"list position", leg>>}
CallFailures(r)    == {<<"cancelled", r>>, <<"closed", r>>}
Failures ==
    {<<"redis", 0>>} \union (UNION {FetchFailures(leg) : leg \in Legs})
                     \union (UNION {CallFailures(r) : r \in Routes})

------------------------------------------------------------------------------
KillInit ==
    /\ redisUp  = TRUE
    /\ haltKey  = FALSE
    /\ sentinel = FALSE
    /\ legOf \in [Routes -> Legs]
    /\ routePc  = [r \in Routes |-> "idle"]
    /\ order    = [r \in Routes |-> "none"]
    /\ killPc   = [k \in Kills |-> "idle"]
    /\ killLeg  = [k \in Kills |-> 1]
    /\ todo     = [k \in Kills |-> {}]
    /\ failures = [k \in Kills |-> {}]
    /\ caught   = [k \in Kills |-> {}]
    /\ unlockPc = [u \in Unlocks |-> "idle"]
    /\ sealed   = FALSE
    /\ late     = {}

\* ------------------------------ route_order -------------------------------

routeFrame == <<flagVars, legOf, callVars, unlockPc, sealed>>

Goto(r, place) == routePc' = [routePc EXCEPT ![r] = place]

\* is_halted, the Redis half: an error or the flag halts.
HaltRead(r) ==
    /\ routePc[r] = "idle"
    /\ Goto(r, IF redisUp /\ ~haltKey THEN "sentinel" ELSE "refused")
    /\ late' = IF sealed THEN late \union {r} ELSE late
    /\ UNCHANGED <<routeFrame, order>>

\* is_halted, once the answer is back: the sentinel file, now.
\* (SentinelIgnored: Redis alone decides.)
SentinelIgnored(r) ==
    /\ routePc[r] = "sentinel"
    /\ Goto(r, "checks")
    /\ UNCHANGED <<routeFrame, late, order>>

SentinelCheck(r) ==
    /\ routePc[r] = "sentinel"
    /\ Goto(r, IF sentinel THEN "refused" ELSE "checks")
    /\ UNCHANGED <<routeFrame, late, order>>

\* Pause, VaR cache, signal, band, session, portfolio guard, sizing, margin: a
\* dozen awaits, any of which may refuse. None looks at the flags again.
CheckRefuses(r) ==
    /\ routePc[r] = "checks"
    /\ Goto(r, "refused")
    /\ UNCHANGED <<routeFrame, late, order>>

Dispatch(r) ==
    /\ routePc[r] = "checks"
    /\ Goto(r, "dispatched")
    /\ order' = [order EXCEPT ![r] = "travelling"]
    /\ UNCHANGED <<routeFrame, late>>

\* ------------------------------- the broker -------------------------------

OrderMoves(r, from, to) ==
    /\ order[r] \in from
    /\ order' = [order EXCEPT ![r] = to]
    /\ UNCHANGED <<flagVars, legOf, routePc, callVars, unlockPc, sealed, late>>

Rests(r)    == OrderMoves(r, {"travelling"}, "open")
Fills(r)    == OrderMoves(r, {"travelling", "open"}, "position")
StopsOut(r) == OrderMoves(r, {"position"}, "closed")

\* -------------------------------- kill_all --------------------------------

killFrame == <<redisUp, legOf, routePc, unlockPc, late>>

KillGoto(k, place) == killPc' = [killPc EXCEPT ![k] = place]

\* The call begins with the Redis flag: best effort, a failure is recorded.
KillRedis(k) ==
    /\ killPc[k] = "idle"
    /\ haltKey' = (haltKey \/ redisUp)
    /\ failures' = [failures EXCEPT ![k] =
                      IF redisUp THEN @ ELSE @ \union {<<"redis", 0>>}]
    /\ KillGoto(k, "sentinel")
    /\ UNCHANGED <<killFrame, sentinel, sealed, order, killLeg, todo, caught>>

\* The file is written, then the first call to a broker goes out.
KillSentinel(k) ==
    /\ killPc[k] = "sentinel"
    /\ sentinel' = TRUE
    /\ sealed' = TRUE
    /\ caught' = [caught EXCEPT ![k] = {r \in Routes : OpenAtBroker(r)}]
    /\ KillGoto(k, "fetchOrders")
    /\ UNCHANGED <<killFrame, haltKey, order, killLeg, todo, failures>>

\* What the broker of this leg lists, or nothing and a failure.
Fetch(k, what, next) ==
    /\ \/ /\ todo' = [todo EXCEPT ![k] =
                        {r \in Routes : legOf[r] = killLeg[k] /\ order[r] = what}]
          /\ UNCHANGED failures
       \/ /\ todo' = [todo EXCEPT ![k] = {}]
          /\ \E f \in FetchFailures(killLeg[k]) :
                /\ f[1] = (IF what = "open" THEN "list open" ELSE "list position")
                /\ failures' = [failures EXCEPT ![k] = @ \union {f}]
    /\ KillGoto(k, next)
    /\ UNCHANGED <<killFrame, haltKey, sentinel, sealed, order, killLeg, caught>>

KillFetchOrders(k) ==
    /\ killPc[k] = "fetchOrders"
    /\ Fetch(k, "open", "cancelling")

\* What a loop still has to do after an item. (RestForever: the item stays.)
RestForever(k, r) == todo[k]
Rest(k, r) == todo[k] \ {r}

\* One call per listed item, and the loop goes on past a failure. The call
\* fails on an item that is no longer what was listed; any call may fail,
\* having taken effect or not.
Work(k, what, to) ==
    \E r \in todo[k] :
        /\ \/ /\ order[r] = what
              /\ order' = [order EXCEPT ![r] = to]
              /\ UNCHANGED failures
           \/ /\ order' \in {order} \union
                    (IF order[r] = what THEN {[order EXCEPT ![r] = to]} ELSE {})
              /\ failures' = [failures EXCEPT ![k] = @ \union {<<to, r>>}]
        /\ todo' = [todo EXCEPT ![k] = Rest(k, r)]
        /\ UNCHANGED <<killFrame, haltKey, sentinel, sealed, killPc, killLeg, caught>>

KillCancel(k) == killPc[k] = "cancelling" /\ Work(k, "open", "cancelled")

KillFetchPositions(k) ==
    /\ killPc[k] = "cancelling"
    /\ todo[k] = {}
    /\ Fetch(k, "position", "closing")

KillClose(k) == killPc[k] = "closing" /\ Work(k, "position", "closed")

\* Whether no leg is left. (FirstLegOnly: the loop ends after one leg.)
FirstLegOnly(k) == killLeg[k] >= 1
LastLeg(k)      == killLeg[k] = NumLegs

\* On to the next leg, or back to the caller.
KillNextLeg(k) ==
    /\ killPc[k] = "closing"
    /\ todo[k] = {}
    /\ IF LastLeg(k)
       THEN UNCHANGED killLeg /\ KillGoto(k, "done")
       ELSE killLeg' = [killLeg EXCEPT ![k] = @ + 1] /\ KillGoto(k, "fetchOrders")
    /\ UNCHANGED <<killFrame, haltKey, sentinel, sealed, order, todo, failures, caught>>

KillStep(k) ==
    \/ KillSentinel(k) \/ KillFetchOrders(k) \/ KillCancel(k)
    \/ KillFetchPositions(k) \/ KillClose(k) \/ KillNextLeg(k)

\* --------------------------------- unlock ---------------------------------

unlockFrame == <<redisUp, legOf, routePc, order, callVars>>

\* Refused while Redis is unreachable.
UnlockRedis(u) ==
    /\ unlockPc[u] = "idle"
    /\ haltKey' = (haltKey /\ ~redisUp)
    /\ unlockPc' = [unlockPc EXCEPT ![u] = IF redisUp THEN "sentinel" ELSE "refused"]
    /\ sealed' = (sealed /\ ~redisUp)
    /\ late' = IF redisUp THEN {} ELSE late
    /\ UNCHANGED <<unlockFrame, sentinel>>

UnlockSentinel(u) ==
    /\ unlockPc[u] = "sentinel"
    /\ sentinel' = FALSE
    /\ unlockPc' = [unlockPc EXCEPT ![u] = "done"]
    /\ sealed' = FALSE
    /\ late' = {}
    /\ UNCHANGED <<unlockFrame, haltKey>>

\* --------------------------------- Redis ----------------------------------

redisFrame == <<sentinel, legOf, routePc, order, callVars, unlockPc, sealed, late>>

RedisFails ==
    /\ redisUp
    /\ redisUp' = FALSE
    /\ UNCHANGED <<redisFrame, haltKey>>

RedisReturns ==
    /\ ~redisUp
    /\ redisUp' = TRUE
    /\ haltKey' \in {haltKey} \union (IF RedisVolatile THEN {FALSE} ELSE {})
    /\ UNCHANGED redisFrame

------------------------------------------------------------------------------
KillNext ==
    \/ \E r \in Routes :
        \/ HaltRead(r) \/ SentinelCheck(r) \/ CheckRefuses(r) \/ Dispatch(r)
        \/ Rests(r) \/ Fills(r) \/ StopsOut(r)
    \/ \E k \in Kills :
        \/ KillRedis(k) \/ KillSentinel(k) \/ KillFetchOrders(k) \/ KillCancel(k)
        \/ KillFetchPositions(k) \/ KillClose(k) \/ KillNextLeg(k)
    \/ \E u \in Unlocks : UnlockRedis(u) \/ UnlockSentinel(u)
    \/ RedisFails \/ RedisReturns

\* Every await of kill_all ends, with an answer or an exception.
KillFairness == \A k \in Kills : WF_killSwitchVars(KillStep(k))

KillSpec == KillInit /\ [][KillNext]_killSwitchVars /\ KillFairness

------------------------------------------------------------------------------
KillTypeOK ==
    /\ redisUp \in BOOLEAN /\ haltKey \in BOOLEAN /\ sentinel \in BOOLEAN
    /\ legOf   \in [Routes -> Legs]
    /\ routePc \in [Routes -> {"idle", "sentinel", "checks", "dispatched", "refused"}]
    /\ order   \in [Routes -> {"none", "travelling", "open", "position", "cancelled",
                               "closed"}]
    /\ killPc  \in [Kills -> {"idle", "sentinel", "fetchOrders", "cancelling",
                              "closing", "done"}]
    /\ killLeg \in [Kills -> Legs]
    /\ todo \in [Kills -> SUBSET Routes] /\ caught \in [Kills -> SUBSET Routes]
    /\ failures \in [Kills -> SUBSET Failures]
    /\ unlockPc \in [Unlocks -> {"idle", "sentinel", "refused", "done"}]
    /\ sealed \in BOOLEAN
    /\ late \subseteq Routes

\* An entry that asks after a kill has raised both flags is never dispatched
\* before an operator unlocks, although Redis may fail, come back or restart
\* without the flag in the meantime (kill_switch.py:4-5: fail-closed, halted
\* if either flag is set).
LateEntryRefused ==
    \A r \in late : routePc[r] \in {"sentinel", "refused"} /\ order[r] = "none"

\* kill_all goes on past every failure and hides none: what was open on any
\* leg when it raised its flags is flat when it returns, or its report says why
\* (kill_switch.py:6-7).
Explained(k, r) ==
    \/ order[r] \in {"cancelled", "closed"}
    \/ (FetchFailures(legOf[r]) \union CallFailures(r)) \cap failures[k] # {}

KillAccounts ==
    \A k \in Kills : killPc[k] = "done" => \A r \in caught[k] : Explained(k, r)

\* The red button always finishes, whatever the brokers and Redis answer.
KillCompletes == \A k \in Kills : killPc[k] = "sentinel" ~> killPc[k] = "done"

\* kill_switch.py:6: "kill_all cancels every open order and closes every open
\* position on every leg": after a kill with a clean report, and no unlock
\* since, the broker is flat. The code does not keep it: see the README,
\* Divergences.
FlatAfterKill ==
    \A k \in Kills :
        killPc[k] = "done" /\ failures[k] = {} /\ sealed =>
            \A r \in Routes : ~OpenAtBroker(r)
=============================================================================
