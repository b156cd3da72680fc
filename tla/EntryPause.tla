----------------------------- MODULE EntryPause -----------------------------
(***************************************************************************)
(* Who may stop new entries without stopping the system: the anomaly       *)
(* guard's shock reflex (src/src/intel/anomaly_guard.py), the safe start   *)
(* of a live runtime (src/src/runtime.py), the cockpit's pause and resume  *)
(* buttons as scripts/run_paper.py wires them, and the check route_order   *)
(* makes (src/src/core/order_router.py).                                   *)
(*                                                                         *)
(* They share one Redis key, PAUSE_ENTRIES. A live Redis may be away for a *)
(* while and comes back with its keys (docker-compose runs it with         *)
(* --appendonly); the paper Redis is a dict of the process and ends with   *)
(* it. Time is counted in ticks; how a shock is recognised in a tick is    *)
(* left open: any tick of any symbol may be one.                           *)
(***************************************************************************)
EXTENDS Integers

CONSTANTS
    Symbols,     \* the symbols whose ticks the guard processes
    Routes,      \* route_order calls
    Cooloff,     \* cooloff_seconds
    MaxTime      \* bound of the model: the clock stops there

ASSUME PauseAssumption == Cooloff \in Nat \ {0} /\ MaxTime \in Nat

VARIABLES
    mode,        \* the runtime's mode
    now,
    redisUp,
    pausedUntil, \* PAUSE_ENTRIES: no longer there from this time on
    cockpitKey,  \* "pause_entries" is in Redis
    lastShock,   \* _last_shock_ts, per symbol
    acting,      \* the symbol whose shock process_tick is acting on
    routePc,     \* where each route_order call stands
    stood,       \* ghost: why entries were to be refused when a call asked
    operator,    \* ghost: the operator wants entries paused
    shockUntil,  \* ghost: end of the longest cool-off of a recorded shock
    freshBoot    \* ghost: live, no resume and no recorded shock since the boot

sharedVars == <<redisUp, pausedUntil, cockpitKey>>
guardVars  == <<lastShock, acting>>
pauseGhosts == <<operator, shockUntil, freshBoot>>
pauseVars  == <<mode, now, sharedVars, guardVars, routePc, stood, pauseGhosts>>

Never   == -1
Forever == MaxTime + Cooloff + 1
NoOne   == "none"

Paused == now < pausedUntil

------------------------------------------------------------------------------
\* build_runtime, in a fresh process: a live one pauses entries, with no TTL.
\* (BootPauseTimed: with one.)
BootPauseTimed == IF mode = "live" THEN now + Cooloff ELSE 0
BootPause == IF mode = "live" THEN Forever ELSE 0

PauseInit ==
    /\ mode \in {"paper", "live"}
    /\ now = 0
    /\ redisUp = TRUE
    /\ cockpitKey = FALSE
    /\ pausedUntil = BootPause
    /\ routePc = [r \in Routes |-> "idle"]
    /\ stood = [r \in Routes |-> {}]
    /\ lastShock = [s \in Symbols |-> Never]
    /\ acting = NoOne
    /\ operator = (mode = "live")
    /\ freshBoot = (mode = "live")
    /\ shockUntil = 0

\* The process dies, calls in flight with it, and boots again. A live boot
\* needs Redis, or build_runtime raises.
Restart ==
    /\ redisUp
    /\ pausedUntil' = BootPause
    /\ cockpitKey' = FALSE
    /\ routePc' = [r \in Routes |-> IF routePc[r] = "checks" THEN "died" ELSE routePc[r]]
    /\ lastShock' = [s \in Symbols |-> Never]
    /\ acting' = NoOne
    /\ operator' = (mode = "live")
    /\ freshBoot' = (mode = "live")
    /\ shockUntil' = IF mode = "live" THEN shockUntil ELSE 0
    /\ UNCHANGED <<mode, now, redisUp, stood>>

TimePasses ==
    /\ now < MaxTime
    /\ now' = now + 1
    /\ UNCHANGED <<mode, sharedVars, guardVars, routePc, stood, pauseGhosts>>

\* process_tick of a tick that trips a threshold, up to the await of Redis: it
\* acts once per symbol and cool-off.
ShockDetected(s) ==
    /\ acting = NoOne
    /\ lastShock[s] = Never \/ now - lastShock[s] >= Cooloff
    /\ lastShock' = [lastShock EXCEPT ![s] = now]
    /\ acting' = s
    /\ UNCHANGED <<mode, now, sharedVars, routePc, stood, pauseGhosts>>

\* When SETEX lets the key expire. (ExpiryOfTheFirst: a key that is there
\* keeps its expiry.)
ExpiryOfTheFirst == IF Paused THEN pausedUntil ELSE now + Cooloff
Expiry           == now + Cooloff

\* _act_on_shock: SETEX replaces the value and its TTL; a failure is noted and
\* the callbacks run.
ShockActs ==
    /\ acting # NoOne
    /\ acting' = NoOne
    /\ IF redisUp
       THEN /\ pausedUntil' = Expiry
            /\ shockUntil' = now + Cooloff
            /\ freshBoot' = FALSE
       ELSE UNCHANGED <<pausedUntil, shockUntil, freshBoot>>
    /\ UNCHANGED <<mode, now, redisUp, cockpitKey, lastShock, routePc, stood, operator>>

\* route_order's second check, once the kill switch has let it pass.
AskPause(r) ==
    /\ routePc[r] = "idle"
    /\ routePc' = [routePc EXCEPT ![r] = IF redisUp /\ ~Paused THEN "checks" ELSE "refused"]
    /\ stood' = [stood EXCEPT ![r] = {w \in {"operator", "shock", "boot"} :
                    \/ w = "operator" /\ operator
                    \/ w = "shock" /\ now < shockUntil
                    \/ w = "boot" /\ freshBoot}]
    /\ UNCHANGED <<mode, now, sharedVars, guardVars, pauseGhosts>>

\* The checks that follow do not look at the pause again.
Dispatched(r) ==
    /\ routePc[r] = "checks"
    /\ routePc' = [routePc EXCEPT ![r] = "dispatched"]
    /\ UNCHANGED <<mode, now, sharedVars, guardVars, stood, pauseGhosts>>

\* The cockpit's PAUSE button: run_paper.py:392 is the only wiring there is.
OperatorPause ==
    /\ mode = "paper"
    /\ redisUp
    /\ cockpitKey' = TRUE
    /\ operator' = TRUE
    /\ UNCHANGED <<mode, now, redisUp, pausedUntil, guardVars, routePc, stood,
                   shockUntil, freshBoot>>

\* RESUME: run_paper.py:393 in paper, runtime.resume_entries in live, which
\* ends every pause there is.
OperatorResume ==
    /\ redisUp
    /\ operator' = FALSE
    /\ freshBoot' = FALSE
    /\ IF mode = "live"
       THEN pausedUntil' = 0 /\ shockUntil' = 0 /\ UNCHANGED cockpitKey
       ELSE cockpitKey' = FALSE /\ UNCHANGED <<pausedUntil, shockUntil>>
    /\ UNCHANGED <<mode, now, redisUp, guardVars, routePc, stood>>

RedisSwitches ==
    /\ mode = "live"
    /\ redisUp' = ~redisUp
    /\ UNCHANGED <<mode, now, pausedUntil, cockpitKey, guardVars, routePc, stood, pauseGhosts>>

PauseNext ==
    \/ Restart \/ TimePasses \/ RedisSwitches
    \/ \E s \in Symbols : ShockDetected(s)
    \/ ShockActs
    \/ \E r \in Routes : AskPause(r) \/ Dispatched(r)
    \/ OperatorPause \/ OperatorResume

PauseSpec == PauseInit /\ [][PauseNext]_pauseVars

------------------------------------------------------------------------------
PauseTypeOK ==
    /\ mode \in {"paper", "live"}
    /\ now \in 0 .. MaxTime
    /\ redisUp \in BOOLEAN /\ cockpitKey \in BOOLEAN
    /\ pausedUntil \in 0 .. Forever
    /\ lastShock \in [Symbols -> {Never} \union 0 .. MaxTime]
    /\ acting \in Symbols \union {NoOne}
    /\ routePc \in [Routes -> {"idle", "checks", "dispatched", "refused", "died"}]
    /\ stood \in [Routes -> SUBSET {"operator", "shock", "boot"}]
    /\ operator \in BOOLEAN /\ freshBoot \in BOOLEAN
    /\ shockUntil \in 0 .. MaxTime + Cooloff

RefusedFor(why) == \A r \in Routes : why \in stood[r] => routePc[r] = "refused"

\* A shock that reached Redis keeps every entry out for its whole cool-off,
\* whatever other shocks, Redis outages and cockpit clicks follow; only a live
\* operator's resume ends it early (anomaly_guard.py:10, 15-16).
ShockHolds == RefusedFor("shock")

\* A live runtime never trades between its boot and the first resume, unless a
\* shock takes the key over (runtime.py:171): no restart and no outage of Redis
\* opens the door.
SafeStartHolds == RefusedFor("boot")

\* docs/MASTER_BUILD_SPEC_V2.md:470 "pause/resume entries"; runtime.py:172 "no
\* TTL - explicit resume only": what asks while the operator holds entries
\* paused is refused. The code does not keep it: see the README, Divergences.
OperatorPauseHolds == RefusedFor("operator")
=============================================================================
