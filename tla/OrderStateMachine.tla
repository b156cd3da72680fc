-------------------------- MODULE OrderStateMachine --------------------------
(***************************************************************************)
(* The order state machine (src/src/core/order_state_machine.py).          *)
(*                                                                         *)
(* Every method of OrderStateMachine is an action, enabled in every state  *)
(* in which the code lets it run to its end, a raised exception included:  *)
(* a method that raises keeps what it assigned before the raise. A call    *)
(* that raises before it assigns anything is a stuttering step and is left *)
(* out. reconcile_unknown awaits the broker in the middle, so it is two    *)
(* actions with any other call in between.                                 *)
(*                                                                         *)
(* Quantities are whole units (the code compares floats with a tolerance   *)
(* of 1e-9); prices, history rows and reject reasons are left out.         *)
(***************************************************************************)
EXTENDS Integers

CONSTANTS
    Orders,      \* client order ids (uuid4 per attempt)
    BrokerIds,   \* ids a broker may answer with
    NoId,        \* broker_order_id is None; also "not a retry"
    Requested    \* requested_qty of each order

ASSUME OrdersAssumption ==
    /\ Requested \in [Orders -> Nat \ {0}]
    /\ NoId \notin BrokerIds
    /\ NoId \notin Orders

VARIABLES
    state,       \* OrderRecord.state; "NEW" while the record does not exist
    filled,      \* OrderRecord.filled_qty
    brokerId,    \* OrderRecord.broker_order_id
    retryOf,     \* the attempt this one retries (its first history row)
    looking      \* orders whose reconcile_unknown awaits the broker's answer

osmVars == <<state, filled, brokerId, retryOf, looking>>

------------------------------------------------------------------------------
OrderStates == {"CREATED", "SENT", "ACKED", "PARTIAL", "FILLED", "REJECTED",
                "CANCELLED", "UNKNOWN", "FAILED_NOT_PLACED"}

TerminalStates == {"FILLED", "REJECTED", "CANCELLED", "FAILED_NOT_PLACED"}

\* The edges of _LEGAL.
Legal(s) ==
    CASE s = "CREATED" -> {"SENT", "FAILED_NOT_PLACED"}
      [] s = "SENT"    -> {"ACKED", "REJECTED", "UNKNOWN", "FILLED", "PARTIAL"}
      [] s = "ACKED"   -> {"PARTIAL", "FILLED", "REJECTED", "CANCELLED", "UNKNOWN"}
      [] s = "PARTIAL" -> {"PARTIAL", "FILLED", "CANCELLED", "REJECTED", "UNKNOWN"}
      [] s = "UNKNOWN" -> {"ACKED", "PARTIAL", "FILLED", "REJECTED", "CANCELLED",
                           "FAILED_NOT_PLACED"}
      [] OTHER         -> {}

\* _transition: the state it leaves behind. Staying in a state is always allowed;
\* an edge that is not legal raises IllegalTransition and the state stays.
Transition(s, new) == IF new \in Legal(s) THEN new ELSE s

Created(o) == state[o] # "NEW"

\* on_fill: FILLED when the whole quantity is in, PARTIAL before.
FillState(o, total) == IF total = Requested[o] THEN "FILLED" ELSE "PARTIAL"

\* What on_fill leaves behind for a new total: the quantity is booked before
\* _transition may raise; an overfill raises before anything is booked.
\* (AfterFillUnchecked: the same without the overfill check.)
AfterFillUnchecked(o, s, total) ==
    [state |-> Transition(s, FillState(o, total)), filled |-> total]
AfterFill(o, s, total) ==
    IF total > Requested[o]
    THEN [state |-> s, filled |-> filled[o]]
    ELSE [state |-> Transition(s, FillState(o, total)), filled |-> total]

\* Broker truth, as a lookup may report it: total quantity filled (a broker
\* that is wrong may report one unit too many), whether a price came along and
\* the broker's id, if it gave one.
TruthStatus == {"acked", "filled", "rejected", "cancelled"}
Truths(o) == [status : TruthStatus, filled : 0 .. Requested[o] + 1,
              priced : BOOLEAN, id : BrokerIds \union {NoId}]

\* The tail of reconcile_unknown, after the await. It runs on the record as
\* it is now: nothing looks again whether the order is still UNKNOWN.
\* (AfterTruthBlind: the same, booking a lower total as well.)
AfterTruthBlind(o, t) ==
    IF t.priced
    THEN AfterFill(o, IF state[o] = "UNKNOWN" THEN "ACKED" ELSE state[o], t.filled)
    ELSE [state |-> state[o], filled |-> filled[o]]
AfterTruth(o, t) ==
    IF t.filled > filled[o] /\ t.priced
    THEN AfterFill(o, IF state[o] = "UNKNOWN" THEN "ACKED" ELSE state[o], t.filled)
    ELSE [filled |-> filled[o],
          state  |-> CASE t.status = "acked"     -> Transition(state[o], "ACKED")
                       [] t.status = "rejected"  -> Transition(state[o], "REJECTED")
                       [] t.status = "cancelled" -> Transition(state[o], "CANCELLED")
                       [] OTHER                  -> state[o]]

------------------------------------------------------------------------------
Init ==
    /\ state    = [o \in Orders |-> "NEW"]
    /\ filled   = [o \in Orders |-> 0]
    /\ brokerId = [o \in Orders |-> NoId]
    /\ retryOf  = [o \in Orders |-> NoId]
    /\ looking  = {}

Create(o) ==
    /\ ~Created(o)
    /\ state' = [state EXCEPT ![o] = "CREATED"]
    /\ UNCHANGED <<filled, brokerId, retryOf, looking>>

Move(o, new) ==
    /\ Created(o)
    /\ state' = [state EXCEPT ![o] = Transition(@, new)]

MarkSent(o) ==
    /\ Move(o, "SENT")
    /\ UNCHANGED <<filled, brokerId, retryOf, looking>>

\* The broker's id is stored before the transition that may raise.
OnAck(o, id) ==
    /\ Move(o, "ACKED")
    /\ brokerId' = [brokerId EXCEPT ![o] = id]
    /\ UNCHANGED <<filled, retryOf, looking>>

OnFill(o, qty) ==
    /\ Created(o)
    /\ qty > 0
    /\ LET after == AfterFill(o, state[o], filled[o] + qty)
       IN  /\ state'  = [state  EXCEPT ![o] = after.state]
           /\ filled' = [filled EXCEPT ![o] = after.filled]
    /\ UNCHANGED <<brokerId, retryOf, looking>>

OnReject(o) ==
    /\ Move(o, "REJECTED")
    /\ UNCHANGED <<filled, brokerId, retryOf, looking>>

OnCancel(o) ==
    /\ Move(o, "CANCELLED")
    /\ UNCHANGED <<filled, brokerId, retryOf, looking>>

OnTimeout(o) ==
    /\ Move(o, "UNKNOWN")
    /\ UNCHANGED <<filled, brokerId, retryOf, looking>>

\* reconcile_unknown up to the await of broker_lookup.
ReconcileCall(o) ==
    /\ state[o] = "UNKNOWN"
    /\ looking' = looking \union {o}
    /\ UNCHANGED <<state, filled, brokerId, retryOf>>

\* broker_lookup raised: the order stays as it is.
ReconcileFailed(o) ==
    /\ o \in looking
    /\ looking' = looking \ {o}
    /\ UNCHANGED <<state, filled, brokerId, retryOf>>

\* broker_lookup returned None.
ReconcileAbsent(o) ==
    /\ o \in looking
    /\ looking' = looking \ {o}
    /\ state' = [state EXCEPT ![o] = Transition(@, "FAILED_NOT_PLACED")]
    /\ UNCHANGED <<filled, brokerId, retryOf>>

ReconcileTruth(o, t) ==
    /\ o \in looking
    /\ looking' = looking \ {o}
    /\ brokerId' = [brokerId EXCEPT ![o] = IF t.id = NoId THEN @ ELSE t.id]
    /\ LET after == AfterTruth(o, t)
       IN  /\ state'  = [state  EXCEPT ![o] = after.state]
           /\ filled' = [filled EXCEPT ![o] = after.filled]
    /\ UNCHANGED retryOf

RetryAsNew(o, fresh) ==
    /\ state[o] = "FAILED_NOT_PLACED"
    /\ ~Created(fresh)
    /\ Requested[fresh] = Requested[o]
    /\ state'   = [state   EXCEPT ![fresh] = "CREATED"]
    /\ retryOf' = [retryOf EXCEPT ![fresh] = o]
    /\ UNCHANGED <<filled, brokerId, looking>>

Next ==
    \E o \in Orders :
        \/ Create(o)
        \/ MarkSent(o)
        \/ \E id \in BrokerIds : OnAck(o, id)
        \/ \E qty \in 1 .. Requested[o] : OnFill(o, qty)
        \/ OnReject(o)
        \/ OnCancel(o)
        \/ OnTimeout(o)
        \/ ReconcileCall(o)
        \/ ReconcileFailed(o)
        \/ ReconcileAbsent(o)
        \/ \E t \in Truths(o) : ReconcileTruth(o, t)
        \/ \E fresh \in Orders : RetryAsNew(o, fresh)

Spec == Init /\ [][Next]_osmVars

------------------------------------------------------------------------------
TypeOK ==
    /\ state    \in [Orders -> OrderStates \union {"NEW"}]
    /\ filled   \in [Orders -> Nat]
    /\ brokerId \in [Orders -> BrokerIds \union {NoId}]
    /\ retryOf  \in [Orders -> Orders \union {NoId}]
    /\ looking  \subseteq Orders

\* The state and the booked quantity tell one story, in any order of acks,
\* fills, timeouts and late broker answers: nothing is ever booked beyond the
\* request, FILLED means all of it and PARTIAL means some of it
\* (on_fill, order_state_machine.py:142-156).
BooksAgree ==
    \A o \in Orders :
        /\ filled[o] <= Requested[o]
        /\ state[o] = "FILLED"  => filled[o] = Requested[o]
        /\ state[o] = "PARTIAL" => filled[o] \in 1 .. Requested[o] - 1

\* An attempt that retries another one does so from a confirmed absence, and
\* the absent attempt stays absent whatever answers arrive for it later
\* (retry_as_new, order_state_machine.py:208-216).
RetryFromAbsence ==
    \A o \in Orders :
        retryOf[o] # NoId => state[retryOf[o]] = "FAILED_NOT_PLACED"

\* No call, however late, moves an order along an edge _LEGAL does not have;
\* in particular a terminal order never changes state again although the tail
\* of reconcile_unknown does not look at the state it finds after its await.
LegalSteps ==
    [][\A o \in Orders :
          state'[o] # state[o] =>
              \/ state[o] = "NEW" /\ state'[o] = "CREATED"
              \/ state'[o] \in Legal(state[o])]_state

\* The ledger's promise: see OrderLifecycle.
Phase(s) ==
    IF s = "NEW" THEN "none" ELSE IF s \in TerminalStates THEN "closed" ELSE "open"

Lifecycle == INSTANCE OrderLifecycle
    WITH phase <- [o \in Orders |-> Phase(state[o])], booked <- filled

LifecycleSpec == Lifecycle!Spec
=============================================================================
