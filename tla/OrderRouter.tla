----------------------------- MODULE OrderRouter -----------------------------
(***************************************************************************)
(* Dispatching an order to a broker over an unreliable link                *)
(* (src/src/core/order_router.py, _dispatch and _broker_lookup), driven by *)
(* a caller that keeps asking until it holds a position                    *)
(* (src/src/ops/strategy_engine.py, _evaluate_symbol and _enter), against  *)
(* the brokers it is wired to:                                             *)
(*   "mt5"      src/mt5_service: executes at the terminal, answers with    *)
(*              the executed volume and remembers the order, in memory,    *)
(*              only once the terminal has answered;                       *)
(*   "openalgo" an OpenAlgo server (external): answers with an order id    *)
(*              and no fill, never learns our client order id;             *)
(*   "paper"    src/src/ops/paper_server.py: runs inside our own process,  *)
(*              so a call is neither lost nor delayed.                     *)
(* One action is what runs between two awaits. The checks route_order      *)
(* makes before it dispatches only refuse: see KillSwitch and EntryPause.  *)
(***************************************************************************)
EXTENDS OrderStateMachine

CONSTANTS
    Symbols,     \* what the caller wants to hold
    SymbolOf     \* the symbol of each order

ASSUME SymbolAssumption == SymbolOf \in [Orders -> Symbols]

VARIABLES
    leg,         \* the broker leg the configuration gives each symbol
    pc,          \* where the route_order call of an order stands
    request,     \* what has become of its POST
    executed,    \* quantity the broker has executed for it
    registry,    \* quantity GET /order/{client_order_id} reports; NoId: 404
    reply,       \* the response on its way back
    accepted     \* RouteResult.accepted

linkVars == <<request, executed, registry, reply>>
routerVars == <<osmVars, leg, pc, linkVars, accepted>>

Legs == {"mt5", "openalgo", "paper"}
Leg(o) == leg[SymbolOf[o]]

Remote(o) == Leg(o) # "paper"
Routing(o) == pc[o] \in {"posting", "lookup"}

\* strategy_engine.py:135-139: the symbol has an open position, which it gets
\* when a route is accepted with a fill (179-187).
\* (ClaimedByFilled: a partial fill does not count.)
ClaimedByFilled(sym) ==
    \E o \in Orders : SymbolOf[o] = sym /\ accepted[o] /\ state[o] = "FILLED"
Claimed(sym) == \E o \in Orders : SymbolOf[o] = sym /\ accepted[o] /\ filled[o] > 0

\* The caller awaits one route after another; an exception out of route_order
\* ends the loop that called it.
CallerFree(sym) ==
    \A o \in Orders : SymbolOf[o] = sym => ~Routing(o) /\ pc[o] # "raised"

Reply(o, status, qty) == reply' = [reply EXCEPT ![o] = [status |-> status, qty |-> qty]]

NoReply == [status |-> "none", qty |-> 0]

------------------------------------------------------------------------------
RouterInit ==
    /\ Init
    /\ leg \in [Symbols -> Legs]
    /\ pc       = [o \in Orders |-> "idle"]
    /\ request  = [o \in Orders |-> "none"]
    /\ executed = [o \in Orders |-> 0]
    /\ registry = [o \in Orders |-> NoId]
    /\ reply    = [o \in Orders |-> NoReply]
    /\ accepted = [o \in Orders |-> FALSE]

\* The caller asks again whenever it holds no position: create, mark_sent and
\* the POST, with no await in between.
Route(o) ==
    /\ pc[o] = "idle"
    /\ CallerFree(SymbolOf[o])
    /\ ~Claimed(SymbolOf[o])
    /\ state'   = [state   EXCEPT ![o] = Transition("CREATED", "SENT")]
    /\ request' = [request EXCEPT ![o] = "travelling"]
    /\ pc'      = [pc      EXCEPT ![o] = "posting"]
    /\ UNCHANGED <<filled, brokerId, retryOf, looking, leg, executed, registry, reply, accepted>>

\* ------------------------------- the brokers ------------------------------

brokerFrame == <<osmVars, leg, pc, accepted>>

Lose(o) ==
    /\ Remote(o)
    /\ request[o] = "travelling"
    /\ request' = [request EXCEPT ![o] = "lost"]
    /\ UNCHANGED <<brokerFrame, executed, registry, reply>>

\* Every broker may refuse: 503 terminal disconnected, 400 no price, ...
Refuse(o) ==
    /\ request[o] = "travelling"
    /\ request' = [request EXCEPT ![o] = "settled"]
    /\ Reply(o, "error", 0)
    /\ UNCHANGED <<brokerFrame, executed, registry>>

\* paper_server.py:71-80: executes and remembers in one go.
PaperExecute(o) ==
    /\ Leg(o) = "paper"
    /\ request[o] = "travelling"
    /\ request'  = [request  EXCEPT ![o] = "settled"]
    /\ executed' = [executed EXCEPT ![o] = Requested[o]]
    /\ registry' = [registry EXCEPT ![o] = Requested[o]]
    /\ Reply(o, "ok", Requested[o])
    /\ UNCHANGED brokerFrame

\* aiomql_impl.py:46-53: order.send() executes at the terminal; the service
\* is still waiting for its result.
Mt5Execute(o) ==
    /\ Leg(o) = "mt5"
    /\ request[o] = "travelling"
    /\ request' = [request EXCEPT ![o] = "executing"]
    /\ \E qty \in 0 .. Requested[o] : executed' = [executed EXCEPT ![o] = qty]
    /\ UNCHANGED <<brokerFrame, registry, reply>>

\* aiomql_impl.py:54-58: the result is in; remember it and answer.
Mt5Register(o) ==
    /\ request[o] = "executing"
    /\ request'  = [request  EXCEPT ![o] = "settled"]
    /\ registry' = [registry EXCEPT ![o] = executed[o]]
    /\ Reply(o, "ok", executed[o])
    /\ UNCHANGED <<brokerFrame, executed>>

\* order.send() raised after the terminal had the order: HTTP 500.
Mt5Raise(o) ==
    /\ request[o] = "executing"
    /\ request' = [request EXCEPT ![o] = "settled"]
    /\ Reply(o, "error", 0)
    /\ UNCHANGED <<brokerFrame, executed, registry>>

\* The service restarts: _orders was in memory, calls it was serving die.
Mt5Restart ==
    /\ \E o \in Orders : registry[o] # NoId \/ request[o] = "executing"
    /\ registry' = [o \in Orders |-> IF Leg(o) = "mt5" THEN NoId ELSE registry[o]]
    /\ request'  = [o \in Orders |->
                      IF request[o] = "executing" THEN "lost" ELSE request[o]]
    /\ UNCHANGED <<brokerFrame, executed, reply>>

\* {"orderid", "status"}: accepted, nothing said about fills.
OpenAlgoAccept(o) ==
    /\ Leg(o) = "openalgo"
    /\ request[o] = "travelling"
    /\ request' = [request EXCEPT ![o] = "working"]
    /\ Reply(o, "ok", 0)
    /\ UNCHANGED <<brokerFrame, executed, registry>>

OpenAlgoFill(o) ==
    /\ request[o] = "working"
    /\ \E qty \in executed[o] + 1 .. Requested[o] :
           executed' = [executed EXCEPT ![o] = qty]
    /\ UNCHANGED <<brokerFrame, request, registry, reply>>

\* ----------------------- the rest of route_order --------------------------

\* (FinishOrRepeat: a route that failed sends the same record again.)
FinishOrRepeat(o, ok) ==
    /\ pc'       = [pc       EXCEPT ![o] = IF ok THEN "done" ELSE "idle"]
    /\ accepted' = [accepted EXCEPT ![o] = ok]

Finish(o, ok) ==
    /\ pc'       = [pc       EXCEPT ![o] = "done"]
    /\ accepted' = [accepted EXCEPT ![o] = ok]

\* The fill an answer carries. (AnsweredAsAsked: the quantity we asked for.)
AnsweredAsAsked(o) == Requested[o]
AnsweredQty(o) == reply[o].qty

\* order_router.py:279-285: ack, then the fill.
Answered(o) ==
    /\ pc[o] = "posting"
    /\ reply[o].status = "ok"
    /\ LET acked == Transition(state[o], "ACKED")
           after == IF AnsweredQty(o) > 0
                    THEN AfterFill(o, acked, filled[o] + AnsweredQty(o))
                    ELSE [state |-> acked, filled |-> filled[o]]
       IN  /\ state'  = [state  EXCEPT ![o] = after.state]
           /\ filled' = [filled EXCEPT ![o] = after.filled]
    /\ \E id \in BrokerIds : brokerId' = [brokerId EXCEPT ![o] = id]
    /\ Finish(o, TRUE)
    /\ UNCHANGED <<retryOf, looking, leg, linkVars>>

\* 275-277: http >= 400.
AnsweredError(o) ==
    /\ pc[o] = "posting"
    /\ reply[o].status = "error"
    /\ OnReject(o)
    /\ Finish(o, FALSE)
    /\ UNCHANGED <<leg, linkVars>>

\* 279: resp.json() raises on a body that is not JSON (a proxy's page); the
\* exception leaves route_order and the record stays as it was.
AnsweredGarbage(o) ==
    /\ Remote(o)
    /\ pc[o] = "posting"
    /\ reply[o].status = "ok"
    /\ pc' = [pc EXCEPT ![o] = "raised"]
    /\ UNCHANGED <<osmVars, leg, linkVars, accepted>>

\* 266-268: no answer in time, or the connection broke: UNKNOWN, and the one
\* reconcile begins. The request and its answer go on without us.
\* (TimedOutNever: a client without a timeout.)
TimedOutNever(o) == FALSE /\ UNCHANGED routerVars

TimedOut(o) ==
    /\ Remote(o)
    /\ pc[o] = "posting"
    /\ state'   = [state EXCEPT ![o] = Transition(@, "UNKNOWN")]
    /\ looking' = looking \union {o}
    /\ pc'      = [pc EXCEPT ![o] = "lookup"]
    /\ UNCHANGED <<filled, brokerId, retryOf, leg, linkVars, accepted>>

\* 269-273, after reconcile_unknown.
FinishReconciled(o) ==
    Finish(o, state'[o] \in {"ACKED", "PARTIAL", "FILLED"})

LookupFailed(o) ==
    /\ pc[o] = "lookup"
    /\ ReconcileFailed(o)
    /\ FinishReconciled(o)
    /\ UNCHANGED <<leg, linkVars>>

\* 290-291: HTTP 404 is None.
LookupAbsent(o) ==
    /\ pc[o] = "lookup"
    /\ registry[o] = NoId
    /\ ReconcileAbsent(o)
    /\ FinishReconciled(o)
    /\ UNCHANGED <<leg, linkVars>>

LookupFound(o) ==
    /\ pc[o] = "lookup"
    /\ registry[o] # NoId
    /\ \E id \in BrokerIds :
           ReconcileTruth(o, [status |-> "filled", filled |-> registry[o],
                              priced |-> TRUE, id |-> id])
    /\ FinishReconciled(o)
    /\ UNCHANGED <<leg, linkVars>>

RouterNext ==
    \/ Mt5Restart
    \/ \E o \in Orders :
        \/ Route(o)
        \/ Lose(o) \/ Refuse(o) \/ PaperExecute(o)
        \/ Mt5Execute(o) \/ Mt5Register(o) \/ Mt5Raise(o)
        \/ OpenAlgoAccept(o) \/ OpenAlgoFill(o)
        \/ Answered(o) \/ AnsweredError(o) \/ AnsweredGarbage(o)
        \/ TimedOut(o)
        \/ LookupFailed(o) \/ LookupAbsent(o) \/ LookupFound(o)

\* Every await of route_order ends: a remote call by its answer or by httpx's
\* timeout, a paper call because its handler runs in this process.
Fairness ==
    \A o \in Orders :
        /\ WF_routerVars(TimedOut(o))
        /\ WF_routerVars(LookupFailed(o))
        /\ WF_routerVars(PaperExecute(o))
        /\ WF_routerVars(Answered(o) \/ AnsweredError(o))

RouterSpec == RouterInit /\ [][RouterNext]_routerVars /\ Fairness

------------------------------------------------------------------------------
RouterTypeOK ==
    /\ TypeOK
    /\ leg      \in [Symbols -> Legs]
    /\ pc       \in [Orders -> {"idle", "posting", "lookup", "done", "raised"}]
    /\ request  \in [Orders -> {"none", "travelling", "lost", "executing", "working",
                                "settled"}]
    /\ executed \in [Orders -> Nat]
    /\ registry \in [Orders -> Nat \union {NoId}]
    /\ reply    \in [Orders -> [status : {"none", "ok", "error"}, qty : Nat]]
    /\ accepted \in [Orders -> BOOLEAN]

\* The ledger never books a unit the broker did not execute, whatever is lost,
\* late, raised or forgotten on the way (on_fill, reconcile_unknown).
BooksWithinTruth ==
    \A o \in Orders : filled[o] <= executed[o] /\ executed[o] <= Requested[o]

\* Once a route has returned FILLED or PARTIAL, the books hold exactly what the
\* broker executed, through the answer or through the reconcile.
SettledBooksExact ==
    \A o \in Orders :
        state[o] \in {"FILLED", "PARTIAL"} => filled[o] = executed[o]

\* The caller holds at most one booked position per symbol out of this path.
BookedOnce ==
    \A o, p \in Orders :
        SymbolOf[o] = SymbolOf[p] /\ filled[o] > 0 /\ filled[p] > 0 => o = p

\* order_state_machine.py:11-12: FAILED_NOT_PLACED is "proven not at broker".
\* The code does not keep it: see the README, Divergences.
AbsentMeansAbsent ==
    \A o \in Orders : state[o] = "FAILED_NOT_PLACED" => executed[o] = 0

\* docs/MASTER_BUILD_SPEC_V2.md:581 "unknown order state = no retry until
\* reconciled": nothing is sent for a symbol while an order of it is UNKNOWN.
\* Nor does it keep this.
NoRetryWhileUnknown ==
    [][\A o, p \in Orders :
          SymbolOf[o] = SymbolOf[p] /\ state[p] = "UNKNOWN" /\ state[o] = "NEW"
              => state'[o] = "NEW"]_state

\* route_order always returns to its caller.
RouteReturns == \A o \in Orders : Routing(o) ~> ~Routing(o)
=============================================================================
