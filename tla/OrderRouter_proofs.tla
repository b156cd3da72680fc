-------------------------- MODULE OrderRouter_proofs --------------------------
(***************************************************************************)
(* What OrderStateMachine and OrderRouter keep for every set of orders,    *)
(* symbols and quantities, on every leg.                                   *)
(*                                                                         *)
(* The state machine: seen from the state and the quantity of the orders,  *)
(* every call either creates an order or has a lawful Effect on one        *)
(* (StepEffect). The books, the legal edges and the lifecycle follow from  *)
(* that alone.                                                             *)
(*                                                                         *)
(* The router: the books never exceed what the broker executed, settled    *)
(* books are exact, and a symbol is booked once. None of the three is      *)
(* inductive: RouterIInv adds where an order stands in its route (Stages), *)
(* how the broker's answer and registry relate to what it executed         *)
(* (BrokerTruth), what a booking rests on (Bookings) and that a caller     *)
(* never has two routes of one symbol in flight (OneAtATime).              *)
(***************************************************************************)
EXTENDS OrderRouter, TLAPS

------------------------------------------------------------------------------
(* The state machine.                                                       *)

AllStates == OrderStates \union {"NEW"}

\* An order someone is looking up exists: the tail of reconcile_unknown never
\* runs on a record that was not created.
LookedUpExist == \A o \in looking : Created(o)

IInv == TypeOK /\ LookedUpExist /\ BooksAgree /\ RetryFromAbsence

\* What a call may make of an order: keep its books and follow an edge that
\* books nothing, or book more and follow the edge for it, if there is one.
Effect(o, s, f) ==
    \/ /\ f = filled[o]
       /\ \/ s = state[o]
          \/ s \in Legal(state[o]) \ {"FILLED", "PARTIAL"}
    \/ /\ f \in Nat /\ f > filled[o] /\ f <= Requested[o]
       /\ s = Transition(state[o], FillState(o, f))

Applies(o, s, f) ==
    /\ state'  = [state  EXCEPT ![o] = s]
    /\ filled' = [filled EXCEPT ![o] = f]

Creates(o) ==
    /\ ~Created(o)
    /\ state' = [state EXCEPT ![o] = "CREATED"]
    /\ UNCHANGED filled

------------------------------------------------------------------------------
LEMMA LegalType == \A s \in AllStates : Legal(s) \subseteq OrderStates
BY DEF AllStates, Legal, OrderStates

LEMMA EffectType ==
    ASSUME TypeOK, NEW o \in Orders, NEW s, NEW f, Effect(o, s, f)
    PROVE  s \in AllStates /\ f \in Nat /\ (Created(o) => s # "NEW")
<1>1. f \in Nat
  BY DEF TypeOK, Effect
<1>2. s \in AllStates /\ (Created(o) => s # "NEW")
  <2>1. state[o] \in AllStates
    BY DEF TypeOK, AllStates
  <2>2. Legal(state[o]) \subseteq OrderStates
    BY <2>1, LegalType
  <2> QED
    BY <2>1, <2>2 DEF Effect, Transition, FillState, Created, AllStates, OrderStates
<1> QED
  BY <1>1, <1>2

\* on_fill: an effect, whatever the total.
LEMMA FillEffect ==
    ASSUME TypeOK, NEW o \in Orders, NEW total \in Nat, total > filled[o]
    PROVE  Effect(o, AfterFill(o, state[o], total).state,
                     AfterFill(o, state[o], total).filled)
BY OrdersAssumption DEF TypeOK, Effect, AfterFill

\* The tail of reconcile_unknown: an effect, whatever the broker answers and
\* whatever has become of the order since the question was asked.
LEMMA TruthEffect ==
    ASSUME TypeOK, NEW o \in Orders, NEW t \in Truths(o)
    PROVE  Effect(o, AfterTruth(o, t).state, AfterTruth(o, t).filled)
<1>1. t.filled \in Nat /\ Requested[o] \in Nat /\ filled[o] \in Nat
  BY OrdersAssumption DEF Truths, TypeOK
<1>2. CASE t.filled > filled[o] /\ t.priced /\ state[o] # "UNKNOWN"
  BY <1>1, <1>2, FillEffect DEF AfterTruth
<1>3. CASE t.filled > filled[o] /\ t.priced /\ state[o] = "UNKNOWN"
  BY <1>1, <1>3 DEF AfterTruth, AfterFill, Effect, Transition, FillState, Legal
<1>4. CASE ~(t.filled > filled[o] /\ t.priced)
  BY <1>1, <1>4 DEF AfterTruth, Effect, Transition
<1> QED
  BY <1>2, <1>3, <1>4

------------------------------------------------------------------------------
LEMMA StepEffect ==
    ASSUME TypeOK, LookedUpExist, Next
    PROVE  \/ \E o \in Orders : Creates(o)
           \/ \E o \in Orders : \E s, f : Created(o) /\ Effect(o, s, f) /\ Applies(o, s, f)
<1> DEFINE Lawful(o) == \E s, f : Created(o) /\ Effect(o, s, f) /\ Applies(o, s, f)
<1> SUFFICES ASSUME NEW o \in Orders,
                    \/ Create(o) \/ MarkSent(o)
                    \/ \E id \in BrokerIds : OnAck(o, id)
                    \/ \E qty \in 1 .. Requested[o] : OnFill(o, qty)
                    \/ OnReject(o) \/ OnCancel(o) \/ OnTimeout(o)
                    \/ ReconcileCall(o) \/ ReconcileFailed(o) \/ ReconcileAbsent(o)
                    \/ \E t \in Truths(o) : ReconcileTruth(o, t)
                    \/ \E fresh \in Orders : RetryAsNew(o, fresh)
             PROVE  (\E p \in Orders : Creates(p)) \/ (\E p \in Orders : Lawful(p))
  BY DEF Next
<1>1. ASSUME NEW new \in {"SENT", "ACKED", "REJECTED", "CANCELLED", "UNKNOWN",
                          "FAILED_NOT_PLACED"},
             Created(o), UNCHANGED filled,
             state' = [state EXCEPT ![o] = Transition(@, new)]
      PROVE  Lawful(o)
  <2>1. Effect(o, Transition(state[o], new), filled[o])
    BY <1>1 DEF Effect, Transition
  <2>2. Applies(o, Transition(state[o], new), filled[o])
    BY <1>1 DEF Applies, TypeOK
  <2> QED
    BY <1>1, <2>1, <2>2
<1>2. ASSUME UNCHANGED <<state, filled>>, Created(o)
      PROVE  Lawful(o)
  <2>1. Effect(o, state[o], filled[o]) /\ Applies(o, state[o], filled[o])
    BY <1>2 DEF Effect, Applies, TypeOK
  <2> QED
    BY <1>2, <2>1
<1>3. CASE Create(o)
  BY <1>3 DEF Create, Creates
<1>4. CASE MarkSent(o)
  BY <1>1, <1>4 DEF MarkSent, Move
<1>5. CASE \E id \in BrokerIds : OnAck(o, id)
  BY <1>1, <1>5 DEF OnAck, Move
<1>6. CASE \E qty \in 1 .. Requested[o] : OnFill(o, qty)
  <2> PICK qty \in 1 .. Requested[o] : OnFill(o, qty)
    BY <1>6
  <2> DEFINE after == AfterFill(o, state[o], filled[o] + qty)
  <2>1. filled[o] + qty \in Nat /\ filled[o] + qty > filled[o]
    BY OrdersAssumption DEF TypeOK
  <2>2. Effect(o, after.state, after.filled)
    BY <2>1, FillEffect
  <2>3. Created(o) /\ Applies(o, after.state, after.filled)
    BY DEF OnFill, Applies
  <2> QED
    BY <2>2, <2>3
<1>7. CASE OnReject(o)
  BY <1>1, <1>7 DEF OnReject, Move
<1>8. CASE OnCancel(o)
  BY <1>1, <1>8 DEF OnCancel, Move
<1>9. CASE OnTimeout(o)
  BY <1>1, <1>9 DEF OnTimeout, Move
<1>10. CASE ReconcileCall(o)
  BY <1>2, <1>10 DEF ReconcileCall, Created
<1>11. CASE ReconcileFailed(o)
  BY <1>2, <1>11 DEF ReconcileFailed, LookedUpExist
<1>12. CASE ReconcileAbsent(o)
  BY <1>1, <1>12 DEF ReconcileAbsent, LookedUpExist
<1>13. CASE \E t \in Truths(o) : ReconcileTruth(o, t)
  <2> PICK t \in Truths(o) : ReconcileTruth(o, t)
    BY <1>13
  <2> DEFINE after == AfterTruth(o, t)
  <2>1. Effect(o, after.state, after.filled)
    BY TruthEffect
  <2>2. Created(o) /\ Applies(o, after.state, after.filled)
    BY DEF ReconcileTruth, Applies, LookedUpExist
  <2> QED
    BY <2>1, <2>2
<1>14. CASE \E fresh \in Orders : RetryAsNew(o, fresh)
  BY <1>14 DEF RetryAsNew, Creates
<1> QED
  BY <1>3, <1>4, <1>5, <1>6, <1>7, <1>8, <1>9, <1>10, <1>11, <1>12, <1>13, <1>14

------------------------------------------------------------------------------
LEMMA InitIInv == Init => IInv
BY OrdersAssumption
   DEF Init, IInv, TypeOK, LookedUpExist, BooksAgree, RetryFromAbsence, OrderStates

\* A call touches the other variables as their types allow.
LEMMA StepTypeOK ==
    ASSUME TypeOK, LookedUpExist, Next
    PROVE  TypeOK'
<1>1. state' \in [Orders -> AllStates] /\ filled' \in [Orders -> Nat]
  <2>1. CASE \E o \in Orders : Creates(o)
    BY <2>1 DEF Creates, TypeOK, AllStates, OrderStates
  <2>2. CASE \E o \in Orders : \E s, f : Created(o) /\ Effect(o, s, f) /\ Applies(o, s, f)
    BY <2>2, EffectType DEF Applies, TypeOK, AllStates
  <2> QED
    BY <2>1, <2>2, StepEffect
<1>2. brokerId' \in [Orders -> BrokerIds \union {NoId}]
  BY DEF Next, TypeOK, Create, MarkSent, OnAck, OnFill, OnReject, OnCancel, OnTimeout,
         ReconcileCall, ReconcileFailed, ReconcileAbsent, ReconcileTruth, RetryAsNew, Truths
<1>3. retryOf' \in [Orders -> Orders \union {NoId}]
  BY DEF Next, TypeOK, Create, MarkSent, OnAck, OnFill, OnReject, OnCancel, OnTimeout,
         ReconcileCall, ReconcileFailed, ReconcileAbsent, ReconcileTruth, RetryAsNew
<1>4. looking' \subseteq Orders
  BY DEF Next, TypeOK, Create, MarkSent, OnAck, OnFill, OnReject, OnCancel, OnTimeout,
         ReconcileCall, ReconcileFailed, ReconcileAbsent, ReconcileTruth, RetryAsNew
<1> QED
  BY <1>1, <1>2, <1>3, <1>4 DEF TypeOK, AllStates

\* No order is ever uncreated, so that the orders being looked up exist.
LEMMA StepLookedUpExist ==
    ASSUME TypeOK, LookedUpExist, Next
    PROVE  LookedUpExist'
<1>1. \A o \in Orders : Created(o) => Created(o)'
  <2>1. CASE \E o \in Orders : Creates(o)
    BY <2>1 DEF Creates, Created, TypeOK
  <2>2. CASE \E o \in Orders : \E s, f : Created(o) /\ Effect(o, s, f) /\ Applies(o, s, f)
    BY <2>2, EffectType DEF Applies, Created, TypeOK
  <2> QED
    BY <2>1, <2>2, StepEffect
<1>2. \A o \in looking' : o \in Orders /\ Created(o)
  BY DEF Next, LookedUpExist, TypeOK, Created, Create, MarkSent, OnAck, OnFill, OnReject,
         OnCancel, OnTimeout, ReconcileCall, ReconcileFailed, ReconcileAbsent,
         ReconcileTruth, RetryAsNew
<1> QED
  BY <1>1, <1>2 DEF LookedUpExist

LEMMA StepBooksAgree ==
    ASSUME TypeOK, LookedUpExist, BooksAgree, Next
    PROVE  BooksAgree'
<1>1. CASE \E o \in Orders : Creates(o)
  BY <1>1 DEF Creates, BooksAgree, TypeOK
<1>2. ASSUME NEW o \in Orders, NEW s, NEW f, Effect(o, s, f), Applies(o, s, f)
      PROVE  BooksAgree'
  <2>1. state'[o] = s /\ filled'[o] = f
    BY <1>2 DEF Applies, TypeOK
  <2>2. \A p \in Orders \ {o} : state'[p] = state[p] /\ filled'[p] = filled[p]
    BY <1>2 DEF Applies, TypeOK
  <2>3. filled[o] \in Nat /\ Requested[o] \in Nat \ {0}
    BY OrdersAssumption DEF TypeOK
  <2>4. f <= Requested[o] /\ (s = "FILLED" => f = Requested[o])
    BY <1>2, <2>3 DEF Effect, BooksAgree, Transition, FillState
  <2>5. s = "PARTIAL" => f \in 1 .. Requested[o] - 1
    BY <1>2, <2>3 DEF Effect, BooksAgree, Transition, FillState, Legal
  <2> QED
    BY <2>1, <2>2, <2>4, <2>5 DEF BooksAgree
<1> QED
  BY <1>1, <1>2, StepEffect

\* A confirmed absence is final: no call, and no late answer, moves it.
LEMMA AbsenceStays ==
    ASSUME TypeOK, LookedUpExist, Next, NEW o \in Orders,
           state[o] = "FAILED_NOT_PLACED"
    PROVE  state'[o] = "FAILED_NOT_PLACED"
<1>1. CASE \E p \in Orders : Creates(p)
  BY <1>1 DEF Creates, Created, TypeOK
<1>2. CASE \E p \in Orders : \E s, f : Created(p) /\ Effect(p, s, f) /\ Applies(p, s, f)
  BY <1>2 DEF Effect, Applies, Transition, Legal, TypeOK
<1> QED
  BY <1>1, <1>2, StepEffect

LEMMA StepRetryFromAbsence ==
    ASSUME TypeOK, LookedUpExist, RetryFromAbsence, Next
    PROVE  RetryFromAbsence'
<1> SUFFICES ASSUME NEW o \in Orders, retryOf'[o] # NoId
             PROVE  state'[retryOf'[o]] = "FAILED_NOT_PLACED"
  BY DEF RetryFromAbsence
<1>1. \/ retryOf' = retryOf
      \/ \E old, fresh \in Orders : RetryAsNew(old, fresh)
  BY DEF Next, Create, MarkSent, OnAck, OnFill, OnReject, OnCancel, OnTimeout,
         ReconcileCall, ReconcileFailed, ReconcileAbsent, ReconcileTruth
<1>2. CASE retryOf' = retryOf
  <2>1. retryOf[o] \in Orders /\ state[retryOf[o]] = "FAILED_NOT_PLACED"
    BY <1>2 DEF RetryFromAbsence, TypeOK
  <2> QED
    BY <1>2, <2>1, AbsenceStays
<1>3. CASE \E old, fresh \in Orders : RetryAsNew(old, fresh)
  <2> PICK old, fresh \in Orders : RetryAsNew(old, fresh)
    BY <1>3
  <2>1. retryOf'[o] \in Orders /\ state[retryOf'[o]] = "FAILED_NOT_PLACED"
    BY DEF RetryAsNew, RetryFromAbsence, TypeOK
  <2> QED
    BY <2>1, AbsenceStays
<1> QED
  BY <1>1, <1>2, <1>3

LEMMA StepIInv == IInv /\ [Next]_osmVars => IInv'
<1>1. ASSUME IInv, Next
      PROVE  IInv'
  BY <1>1, StepTypeOK, StepLookedUpExist, StepBooksAgree, StepRetryFromAbsence DEF IInv
<1>2. ASSUME IInv, UNCHANGED osmVars
      PROVE  IInv'
  BY <1>2 DEF osmVars, IInv, TypeOK, LookedUpExist, BooksAgree, RetryFromAbsence, Created
<1> QED
  BY <1>1, <1>2

\* The inductive invariant holds throughout.
THEOREM Invariance == Spec => []IInv
BY InitIInv, StepIInv, PTL DEF Spec

\* Every record stays well formed.
THEOREM TypeCorrect == Spec => []TypeOK
<1>1. IInv => TypeOK
  BY DEF IInv
<1> QED
  BY <1>1, Invariance, PTL

\* State and booked quantity tell one story, whatever the order of acks, fills,
\* timeouts and late answers (on_fill, reconcile_unknown).
THEOREM BooksAlwaysAgree == Spec => []BooksAgree
<1>1. IInv => BooksAgree
  BY DEF IInv
<1> QED
  BY <1>1, Invariance, PTL

\* Whatever was retried stays a confirmed absence (retry_as_new).
THEOREM RetriesOnlyAbsence == Spec => []RetryFromAbsence
<1>1. IInv => RetryFromAbsence
  BY DEF IInv
<1> QED
  BY <1>1, Invariance, PTL

\* Every change of state follows an edge of _LEGAL, late answers included.
THEOREM StepsAreLegal == Spec => LegalSteps
<1> DEFINE Step == \A o \in Orders :
             state'[o] # state[o] =>
                 \/ state[o] = "NEW" /\ state'[o] = "CREATED"
                 \/ state'[o] \in Legal(state[o])
<1>1. ASSUME IInv, Next
      PROVE  Step
  <2>1. CASE \E o \in Orders : Creates(o)
    BY <1>1, <2>1 DEF Creates, Created, IInv, TypeOK
  <2>2. CASE \E o \in Orders : \E s, f : Created(o) /\ Effect(o, s, f) /\ Applies(o, s, f)
    BY <1>1, <2>2 DEF Effect, Applies, Transition, IInv, TypeOK
  <2> QED
    BY <1>1, <2>1, <2>2, StepEffect DEF IInv
<1>2. IInv /\ [Next]_osmVars => [Step]_state
  BY <1>1 DEF osmVars
<1> QED
  BY <1>2, Invariance, PTL DEF Spec, LegalSteps

\* The state machine keeps the ledger's promise: an attempt is opened once, a
\* closed one is never reopened, nothing booked is taken back or exceeds the
\* request.
THEOREM ImplementsLifecycle == Spec => LifecycleSpec
<1>1. Init => Lifecycle!Init
  BY DEF Init, Lifecycle!Init, Phase
<1>2. ASSUME IInv, IInv', Next
      PROVE  Lifecycle!Next
  <2>1. CASE \E o \in Orders : Creates(o)
    <3> PICK o \in Orders : Creates(o)
      BY <2>1
    <3>1. Lifecycle!Open(o)
      BY <1>2 DEF Lifecycle!Open, Creates, Created, Phase, TerminalStates, IInv, TypeOK
    <3> QED
      BY <3>1 DEF Lifecycle!Next
  <2>2. ASSUME NEW o \in Orders, NEW s, NEW f,
               Created(o), Effect(o, s, f), Applies(o, s, f)
        PROVE  Lifecycle!Next
    <3>1. state[o] # "NEW" /\ s # "NEW"
      BY <1>2, <2>2, EffectType DEF IInv, Created
    <3>2. f \in filled[o] .. Requested[o]
      BY <1>2, <2>2, OrdersAssumption DEF Effect, IInv, BooksAgree, TypeOK
    <3>3. Phase(s) \in {Phase(state[o]), "closed"}
      BY <2>2, <3>1 DEF Effect, Transition, Legal, Phase, TerminalStates, FillState
    <3>4. Lifecycle!Book(o)
      <4>1. [p \in Orders |-> Phase(state'[p])]
              = [[p \in Orders |-> Phase(state[p])] EXCEPT ![o] = Phase(s)]
        BY <1>2, <2>2 DEF Applies, IInv, TypeOK
      <4>2. Phase(state[o]) # "none"
        BY <3>1 DEF Phase
      <4> QED
        BY <2>2, <3>2, <3>3, <4>1, <4>2 DEF Lifecycle!Book, Applies
    <3> QED
      BY <3>4 DEF Lifecycle!Next
  <2> QED
    BY <1>2, <2>1, <2>2, StepEffect DEF IInv
<1>3. IInv /\ IInv' /\ [Next]_osmVars => [Lifecycle!Next]_(Lifecycle!lifecycleVars)
  BY <1>2 DEF osmVars, Lifecycle!lifecycleVars
<1> QED
  BY <1>1, <1>3, Invariance, PTL DEF Spec, LifecycleSpec, Lifecycle!Spec

------------------------------------------------------------------------------
(* The router.                                                              *)

Stages ==
    \A o \in Orders :
        /\ pc[o] = "idle"    => state[o] = "NEW" /\ request[o] = "none"
        /\ pc[o] = "posting" => state[o] = "SENT"
        /\ pc[o] = "lookup"  => state[o] = "UNKNOWN" /\ o \in looking
        /\ pc[o] # "done"    => filled[o] = 0

BrokerTruth ==
    \A o \in Orders :
        /\ executed[o] <= Requested[o]
        /\ registry[o] # NoId => request[o] = "settled" /\ registry[o] = executed[o]
        /\ reply[o].status = "ok" =>
              \/ request[o] = "settled" /\ reply[o].qty = executed[o]
              \/ request[o] = "working" /\ reply[o].qty = 0

Bookings ==
    \A o \in Orders :
        /\ filled[o] > 0 => /\ filled[o] = executed[o]
                            /\ request[o] = "settled"
                            /\ accepted[o]
        /\ state[o] \in {"FILLED", "PARTIAL"} => filled[o] > 0

OneAtATime ==
    \A o, p \in Orders :
        SymbolOf[o] = SymbolOf[p] /\ o # p =>
            /\ ~(Routing(o) /\ Routing(p))
            /\ ~(Routing(o) /\ filled[p] > 0)
            /\ ~(filled[o] > 0 /\ filled[p] > 0)

RouterIInv == RouterTypeOK /\ Stages /\ BrokerTruth /\ Bookings /\ OneAtATime

\* The steps of the brokers and the link: they leave our own process alone.
BrokerStep ==
    \/ Mt5Restart
    \/ \E o \in Orders :
        \/ Lose(o) \/ Refuse(o) \/ PaperExecute(o)
        \/ Mt5Execute(o) \/ Mt5Register(o) \/ Mt5Raise(o)
        \/ OpenAlgoAccept(o) \/ OpenAlgoFill(o)

\* The steps of route_order: they leave the brokers and the link alone, but for
\* the request that Route sends.
CallerStep(o) ==
    \/ Route(o)
    \/ Answered(o) \/ AnsweredError(o) \/ AnsweredGarbage(o)
    \/ TimedOut(o)
    \/ LookupFailed(o) \/ LookupAbsent(o) \/ LookupFound(o)

------------------------------------------------------------------------------
LEMMA RouterSteps == RouterNext <=> BrokerStep \/ \E o \in Orders : CallerStep(o)
BY DEF RouterNext, BrokerStep, CallerStep

LEMMA InitRouterIInv == RouterInit => RouterIInv
BY OrdersAssumption, SymbolAssumption
   DEF RouterInit, Init, RouterIInv, RouterTypeOK, TypeOK, OrderStates, Stages,
       BrokerTruth, Bookings, OneAtATime, Routing, NoReply

\* ------------------------------ broker steps ------------------------------

LEMMA BrokerFrame ==
    ASSUME BrokerStep
    PROVE  UNCHANGED <<osmVars, leg, pc, accepted>>
BY DEF BrokerStep, Mt5Restart, Lose, Refuse, PaperExecute, Mt5Execute, Mt5Register,
       Mt5Raise, OpenAlgoAccept, OpenAlgoFill, brokerFrame

LEMMA BrokerTypeOK ==
    ASSUME RouterTypeOK, BrokerTruth, BrokerStep
    PROVE  RouterTypeOK'
<1>1. TypeOK' /\ leg' \in [Symbols -> Legs] /\ accepted' \in [Orders -> BOOLEAN]
      /\ pc' \in [Orders -> {"idle", "posting", "lookup", "done", "raised"}]
  BY BrokerFrame DEF osmVars, RouterTypeOK, TypeOK
<1>2. request' \in [Orders -> {"none", "travelling", "lost", "executing", "working",
                               "settled"}]
  BY DEF RouterTypeOK, BrokerStep, Mt5Restart, Lose, Refuse, PaperExecute, Mt5Execute,
         Mt5Register, Mt5Raise, OpenAlgoAccept, OpenAlgoFill
<1>3. executed' \in [Orders -> Nat]
  BY OrdersAssumption
     DEF RouterTypeOK, BrokerStep, Mt5Restart, Lose, Refuse, PaperExecute, Mt5Execute,
         Mt5Register, Mt5Raise, OpenAlgoAccept, OpenAlgoFill
<1>4. registry' \in [Orders -> Nat \union {NoId}]
  BY OrdersAssumption
     DEF RouterTypeOK, BrokerStep, Mt5Restart, Lose, Refuse, PaperExecute, Mt5Execute,
         Mt5Register, Mt5Raise, OpenAlgoAccept, OpenAlgoFill
<1>5. reply' \in [Orders -> [status : {"none", "ok", "error"}, qty : Nat]]
  BY OrdersAssumption
     DEF RouterTypeOK, Reply, BrokerStep, Mt5Restart, Lose, Refuse, PaperExecute,
         Mt5Execute, Mt5Register, Mt5Raise, OpenAlgoAccept, OpenAlgoFill
<1> QED
  BY <1>1, <1>2, <1>3, <1>4, <1>5 DEF RouterTypeOK

\* What a broker step may make of one order's link.
LEMMA BrokerStages ==
    ASSUME RouterTypeOK, Stages, BrokerStep
    PROVE  Stages'
<1>1. \A o \in Orders : request[o] = "none" => request'[o] = "none"
  BY DEF RouterTypeOK, BrokerStep, Mt5Restart, Lose, Refuse, PaperExecute, Mt5Execute,
         Mt5Register, Mt5Raise, OpenAlgoAccept, OpenAlgoFill
<1> QED
  BY <1>1, BrokerFrame DEF Stages, osmVars

LEMMA BrokerBrokerTruth ==
    ASSUME RouterTypeOK, BrokerTruth, BrokerStep
    PROVE  BrokerTruth'
<1> SUFFICES ASSUME NEW p \in Orders
             PROVE  /\ executed'[p] <= Requested[p]
                    /\ registry'[p] # NoId =>
                          request'[p] = "settled" /\ registry'[p] = executed'[p]
                    /\ reply'[p].status = "ok" =>
                          \/ request'[p] = "settled" /\ reply'[p].qty = executed'[p]
                          \/ request'[p] = "working" /\ reply'[p].qty = 0
  BY DEF BrokerTruth
<1> USE OrdersAssumption DEF RouterTypeOK, BrokerTruth, Reply
<1>1. CASE Mt5Restart
  BY <1>1 DEF Mt5Restart
<1>2. ASSUME NEW o \in Orders, Lose(o) \/ Refuse(o) \/ Mt5Raise(o)
      PROVE  /\ executed'[p] <= Requested[p]
             /\ registry'[p] # NoId =>
                   request'[p] = "settled" /\ registry'[p] = executed'[p]
             /\ reply'[p].status = "ok" =>
                   \/ request'[p] = "settled" /\ reply'[p].qty = executed'[p]
                   \/ request'[p] = "working" /\ reply'[p].qty = 0
  BY <1>2 DEF Lose, Refuse, Mt5Raise
<1>3. ASSUME NEW o \in Orders, PaperExecute(o) \/ Mt5Execute(o) \/ Mt5Register(o)
      PROVE  /\ executed'[p] <= Requested[p]
             /\ registry'[p] # NoId =>
                   request'[p] = "settled" /\ registry'[p] = executed'[p]
             /\ reply'[p].status = "ok" =>
                   \/ request'[p] = "settled" /\ reply'[p].qty = executed'[p]
                   \/ request'[p] = "working" /\ reply'[p].qty = 0
  BY <1>3 DEF PaperExecute, Mt5Execute, Mt5Register
<1>4. ASSUME NEW o \in Orders, OpenAlgoAccept(o) \/ OpenAlgoFill(o)
      PROVE  /\ executed'[p] <= Requested[p]
             /\ registry'[p] # NoId =>
                   request'[p] = "settled" /\ registry'[p] = executed'[p]
             /\ reply'[p].status = "ok" =>
                   \/ request'[p] = "settled" /\ reply'[p].qty = executed'[p]
                   \/ request'[p] = "working" /\ reply'[p].qty = 0
  BY <1>4 DEF OpenAlgoAccept, OpenAlgoFill
<1> QED
  BY <1>1, <1>2, <1>3, <1>4 DEF BrokerStep

\* What was booked was settled, and a broker never touches a settled request.
LEMMA BrokerBookings ==
    ASSUME RouterTypeOK, Bookings, BrokerStep
    PROVE  Bookings'
<1>1. \A o \in Orders : request[o] = "settled" =>
          request'[o] = "settled" /\ executed'[o] = executed[o]
  BY DEF RouterTypeOK, BrokerStep, Mt5Restart, Lose, Refuse, PaperExecute, Mt5Execute,
         Mt5Register, Mt5Raise, OpenAlgoAccept, OpenAlgoFill
<1> QED
  BY <1>1, BrokerFrame DEF Bookings, osmVars

LEMMA BrokerOneAtATime ==
    ASSUME OneAtATime, BrokerStep
    PROVE  OneAtATime'
BY BrokerFrame DEF OneAtATime, Routing, osmVars

\* ------------------------------ caller steps ------------------------------

\* What one step of route_order may make of its own order.
Sends(o) ==
    /\ pc[o] = "idle" /\ pc'[o] = "posting"
    /\ CallerFree(SymbolOf[o]) /\ ~Claimed(SymbolOf[o])
    /\ state'[o] = "SENT" /\ filled'[o] = filled[o]
    /\ request'[o] = "travelling"

LooksUp(o) ==
    /\ pc[o] = "posting" /\ pc'[o] = "lookup"
    /\ state'[o] = "UNKNOWN" /\ o \in looking'
    /\ filled'[o] = filled[o] /\ request'[o] = request[o]

Raises(o) ==
    /\ Routing(o) /\ pc'[o] = "raised"
    /\ state'[o] = state[o] /\ filled'[o] = filled[o] /\ request'[o] = request[o]

Ends(o) ==
    /\ Routing(o) /\ pc'[o] = "done"
    /\ request'[o] = request[o] /\ state'[o] # "NEW"
    /\ \/ /\ filled'[o] = 0
          /\ state'[o] \notin {"FILLED", "PARTIAL"}
       \/ /\ filled'[o] > 0 /\ filled'[o] = executed[o]
          /\ request[o] = "settled" /\ accepted'[o]

OthersKept(o) ==
    \A p \in Orders \ {o} :
        /\ state'[p] = state[p] /\ filled'[p] = filled[p] /\ pc'[p] = pc[p]
        /\ request'[p] = request[p] /\ accepted'[p] = accepted[p]
        /\ p \in looking' <=> p \in looking

LEMMA CallerOthers ==
    ASSUME RouterTypeOK, NEW o \in Orders, CallerStep(o)
    PROVE  OthersKept(o) /\ UNCHANGED <<leg, executed, registry, reply>>
BY DEF RouterTypeOK, TypeOK, CallerStep, OthersKept, Route, Answered, AnsweredError,
       AnsweredGarbage, TimedOut, LookupFailed, LookupAbsent, LookupFound, Finish,
       FinishReconciled, OnReject, Move, ReconcileFailed, ReconcileAbsent,
       ReconcileTruth, linkVars, osmVars

\* What a transition leaves is a state, whichever edge is tried.
LEMMA TransitionType ==
    ASSUME NEW s \in OrderStates \union {"NEW"}, NEW new \in OrderStates
    PROVE  Transition(s, new) \in OrderStates \union {"NEW"}
BY DEF Transition

LEMMA AfterFillType ==
    ASSUME TypeOK, NEW o \in Orders, NEW s \in OrderStates \union {"NEW"}, NEW total \in Nat
    PROVE  /\ AfterFill(o, s, total).state \in OrderStates \union {"NEW"}
           /\ AfterFill(o, s, total).filled \in Nat
<1>1. Transition(s, FillState(o, total)) \in OrderStates \union {"NEW"}
  BY TransitionType DEF FillState, OrderStates
<1> QED
  BY <1>1 DEF AfterFill, TypeOK

LEMMA AfterTruthType ==
    ASSUME TypeOK, NEW o \in Orders, NEW t, t.filled \in Nat, t.status = "filled"
    PROVE  /\ AfterTruth(o, t).state \in OrderStates \union {"NEW"}
           /\ AfterTruth(o, t).filled \in Nat
<1> DEFINE s == IF state[o] = "UNKNOWN" THEN "ACKED" ELSE state[o]
<1>1. s \in OrderStates \union {"NEW"}
  BY DEF TypeOK, OrderStates
<1>2. /\ AfterFill(o, s, t.filled).state \in OrderStates \union {"NEW"}
      /\ AfterFill(o, s, t.filled).filled \in Nat
  BY <1>1, AfterFillType
<1>3. CASE t.filled > filled[o] /\ t.priced
  BY <1>2, <1>3 DEF AfterTruth
<1>4. CASE ~(t.filled > filled[o] /\ t.priced)
  BY <1>4 DEF AfterTruth, TypeOK
<1> QED
  BY <1>3, <1>4

\* Each step of route_order writes the ledger at its own order only.
LEMMA CallerBooksType ==
    ASSUME RouterTypeOK, NEW o \in Orders, CallerStep(o)
    PROVE  /\ state' \in [Orders -> OrderStates \union {"NEW"}]
           /\ filled' \in [Orders -> Nat]
<1>0. TypeOK /\ state[o] \in OrderStates \union {"NEW"}
  BY DEF RouterTypeOK, TypeOK
<1>1. CASE Route(o) \/ TimedOut(o) \/ AnsweredError(o) \/ LookupAbsent(o)
  <2>1. PICK s \in OrderStates \union {"NEW"} : state' = [state EXCEPT ![o] = s]
    BY <1>0, <1>1, TransitionType
       DEF Route, TimedOut, AnsweredError, LookupAbsent, OnReject, Move, ReconcileAbsent,
           OrderStates
  <2>2. filled' = filled
    BY <1>1 DEF Route, TimedOut, AnsweredError, LookupAbsent, OnReject, ReconcileAbsent
  <2> QED
    BY <1>0, <2>1, <2>2 DEF TypeOK
<1>2. CASE AnsweredGarbage(o) \/ LookupFailed(o)
  BY <1>0, <1>2 DEF AnsweredGarbage, LookupFailed, ReconcileFailed, osmVars, TypeOK
<1>3. CASE Answered(o)
  <2> DEFINE acked == Transition(state[o], "ACKED")
             after == IF AnsweredQty(o) > 0
                      THEN AfterFill(o, acked, filled[o] + AnsweredQty(o))
                      ELSE [state |-> acked, filled |-> filled[o]]
  <2>1. acked \in OrderStates \union {"NEW"} /\ filled[o] \in Nat
    BY <1>0, TransitionType DEF OrderStates, TypeOK
  <2>2. AnsweredQty(o) \in Nat
    BY DEF AnsweredQty, RouterTypeOK
  <2>3. /\ AfterFill(o, acked, filled[o] + AnsweredQty(o)).state
              \in OrderStates \union {"NEW"}
        /\ AfterFill(o, acked, filled[o] + AnsweredQty(o)).filled \in Nat
    <3>1. filled[o] + AnsweredQty(o) \in Nat
      BY <2>1, <2>2
    <3> HIDE DEF acked
    <3> QED
      BY <1>0, <2>1, <3>1, AfterFillType
  <2>4. after.state \in OrderStates \union {"NEW"} /\ after.filled \in Nat
    <3> HIDE DEF acked
    <3> QED
      BY <2>1, <2>3
  <2>5. /\ state'  = [state  EXCEPT ![o] = after.state]
        /\ filled' = [filled EXCEPT ![o] = after.filled]
    BY <1>3 DEF Answered
  <2> HIDE DEF after
  <2> QED
    BY <1>0, <2>4, <2>5 DEF TypeOK
<1>4. CASE LookupFound(o)
  <2>1. PICK id \in BrokerIds :
            ReconcileTruth(o, [status |-> "filled", filled |-> registry[o],
                               priced |-> TRUE, id |-> id])
    BY <1>4 DEF LookupFound
  <2> DEFINE t == [status |-> "filled", filled |-> registry[o],
                   priced |-> TRUE, id |-> id]
  <2>2. t.filled \in Nat /\ t.status = "filled"
    BY <1>4 DEF LookupFound, RouterTypeOK
  <2>3. /\ state'  = [state  EXCEPT ![o] = AfterTruth(o, t).state]
        /\ filled' = [filled EXCEPT ![o] = AfterTruth(o, t).filled]
    BY <2>1 DEF ReconcileTruth
  <2> HIDE DEF t
  <2>4. /\ AfterTruth(o, t).state \in OrderStates \union {"NEW"}
        /\ AfterTruth(o, t).filled \in Nat
    BY <1>0, <2>2, AfterTruthType
  <2> QED
    BY <1>0, <2>3, <2>4 DEF TypeOK
<1> QED
  BY <1>1, <1>2, <1>3, <1>4 DEF CallerStep

LEMMA CallerTypeOK ==
    ASSUME RouterTypeOK, NEW o \in Orders, CallerStep(o)
    PROVE  RouterTypeOK'
<1>1. brokerId' \in [Orders -> BrokerIds \union {NoId}]
  <2>1. CASE LookupFound(o)
    <3>1. PICK id \in BrokerIds :
              ReconcileTruth(o, [status |-> "filled", filled |-> registry[o],
                                 priced |-> TRUE, id |-> id])
      BY <2>1 DEF LookupFound
    <3>2. \E i \in BrokerIds \union {NoId} : brokerId' = [brokerId EXCEPT ![o] = i]
      BY <3>1 DEF ReconcileTruth, RouterTypeOK, TypeOK
    <3> QED
      BY <3>2 DEF RouterTypeOK, TypeOK
  <2>2. CASE ~LookupFound(o)
    BY <2>2
       DEF RouterTypeOK, TypeOK, CallerStep, Route, Answered, AnsweredError,
           AnsweredGarbage, TimedOut, LookupFailed, LookupAbsent, OnReject,
           ReconcileFailed, ReconcileAbsent, osmVars
  <2> QED
    BY <2>1, <2>2
<1>2. retryOf' = retryOf
  BY DEF CallerStep, Route, Answered, AnsweredError, AnsweredGarbage,
         TimedOut, LookupFailed, LookupAbsent, LookupFound, OnReject, ReconcileFailed,
         ReconcileAbsent, ReconcileTruth, osmVars
<1>3. looking' \subseteq looking \union {o}
  BY DEF CallerStep, Route, Answered, AnsweredError, AnsweredGarbage,
         TimedOut, LookupFailed, LookupAbsent, LookupFound, OnReject, ReconcileFailed,
         ReconcileAbsent, ReconcileTruth, osmVars
<1>4. TypeOK'
  BY <1>1, <1>2, <1>3, CallerBooksType DEF RouterTypeOK, TypeOK
<1>5. /\ pc' \in [Orders -> {"idle", "posting", "lookup", "done", "raised"}]
      /\ request' \in [Orders -> {"none", "travelling", "lost", "executing",
                                  "working", "settled"}]
  BY DEF RouterTypeOK, CallerStep, Route, Answered, AnsweredError, AnsweredGarbage,
         TimedOut, LookupFailed, LookupAbsent, LookupFound, Finish, FinishReconciled,
         linkVars
<1>6. accepted' \in [Orders -> BOOLEAN]
  <2>1. (state'[o] \in {"ACKED", "PARTIAL", "FILLED"}) \in BOOLEAN
    OBVIOUS
  <2>2. \/ accepted' = accepted
        \/ \E ok \in BOOLEAN : Finish(o, ok)
    BY <2>1, Zenon
       DEF CallerStep, Route, Answered, AnsweredError, AnsweredGarbage, TimedOut,
           LookupFailed, LookupAbsent, LookupFound, FinishReconciled
  <2> QED
    BY <2>2 DEF Finish, RouterTypeOK
<1> QED
  BY <1>4, <1>5, <1>6, CallerOthers DEF RouterTypeOK

LEMMA CallerEffect ==
    ASSUME RouterIInv, NEW o \in Orders, CallerStep(o)
    PROVE  Sends(o) \/ LooksUp(o) \/ Raises(o) \/ Ends(o)
<1> USE OrdersAssumption
    DEF RouterIInv, RouterTypeOK, TypeOK, Stages, BrokerTruth, Routing
<1>1. CASE Route(o)
  BY <1>1 DEF Route, Sends, Transition, Legal
<1>2. CASE TimedOut(o)
  BY <1>2 DEF TimedOut, LooksUp, Transition, Legal, linkVars
<1>3. CASE AnsweredGarbage(o)
  BY <1>3 DEF AnsweredGarbage, Raises, osmVars, linkVars
<1>4. CASE Answered(o)
  <2>1. /\ state[o] = "SENT" /\ filled[o] = 0 /\ pc[o] = "posting"
        /\ reply[o].qty \in Nat
        /\ reply[o].qty > 0 => reply[o].qty = executed[o] /\ request[o] = "settled"
        /\ reply[o].qty <= Requested[o]
    BY <1>4 DEF Answered
  <2>2. Transition("SENT", "ACKED") = "ACKED"
    BY DEF Transition, Legal
  <2>3. CASE reply[o].qty = 0
    BY <1>4, <2>1, <2>2, <2>3 DEF Answered, AnsweredQty, Finish, Ends, linkVars
  <2>4. CASE reply[o].qty > 0
    <3>1. Transition("ACKED", FillState(o, reply[o].qty)) # "NEW"
      BY DEF Transition, FillState
    <3> QED
      BY <1>4, <2>1, <2>2, <2>4, <3>1
         DEF Answered, AnsweredQty, AfterFill, Finish, Ends, linkVars
  <2> QED BY <2>1, <2>3, <2>4
<1>5. CASE AnsweredError(o)
  BY <1>5 DEF AnsweredError, OnReject, Move, Transition, Legal, Finish, Ends, linkVars
<1>6. CASE LookupFailed(o)
  BY <1>6 DEF LookupFailed, ReconcileFailed, FinishReconciled, Finish, Ends, linkVars
<1>7. CASE LookupAbsent(o)
  BY <1>7 DEF LookupAbsent, ReconcileAbsent, Transition, Legal, FinishReconciled, Finish,
              Ends, linkVars
<1>8. CASE LookupFound(o)
  <2>1. /\ state[o] = "UNKNOWN" /\ filled[o] = 0 /\ registry[o] \in Nat
        /\ registry[o] = executed[o] /\ request[o] = "settled"
        /\ registry[o] <= Requested[o]
    BY <1>8 DEF LookupFound
  <2>2. PICK id \in BrokerIds :
            ReconcileTruth(o, [status |-> "filled", filled |-> registry[o],
                               priced |-> TRUE, id |-> id])
    BY <1>8 DEF LookupFound
  <2>3. CASE registry[o] = 0
    <3>1. state'[o] = "UNKNOWN" /\ filled'[o] = 0
      BY <2>1, <2>2, <2>3 DEF ReconcileTruth, AfterTruth
    <3> QED
      BY <1>8, <3>1 DEF LookupFound, FinishReconciled, Finish, Ends, linkVars
  <2>4. CASE registry[o] > 0
    <3>1. /\ filled'[o] = registry[o]
          /\ state'[o] = Transition("ACKED", FillState(o, registry[o]))
      BY <2>1, <2>2, <2>4 DEF ReconcileTruth, AfterTruth, AfterFill
    <3>2. state'[o] \in {"FILLED", "PARTIAL"}
      BY <3>1 DEF Transition, Legal, FillState
    <3> QED
      BY <1>8, <2>1, <2>4, <3>1, <3>2
         DEF LookupFound, FinishReconciled, Finish, Ends, linkVars
  <2> QED BY <2>1, <2>3, <2>4
<1> QED
  BY <1>1, <1>2, <1>3, <1>4, <1>5, <1>6, <1>7, <1>8 DEF CallerStep

LEMMA CallerStages ==
    ASSUME RouterIInv, NEW o \in Orders, CallerStep(o)
    PROVE  Stages'
<1>1. RouterTypeOK /\ RouterTypeOK' /\ Stages
  BY CallerTypeOK DEF RouterIInv
<1>2. OthersKept(o)
  BY <1>1, CallerOthers
<1>3. /\ pc'[o] = "posting" => state'[o] = "SENT"
      /\ pc'[o] = "lookup"  => state'[o] = "UNKNOWN" /\ o \in looking'
      /\ pc'[o] # "idle"
      /\ pc'[o] # "done"    => filled'[o] = 0
  BY <1>1, CallerEffect DEF Stages, Sends, LooksUp, Raises, Ends, Routing
<1> QED
  BY <1>1, <1>2, <1>3 DEF Stages, OthersKept

LEMMA CallerBrokerTruth ==
    ASSUME RouterIInv, NEW o \in Orders, CallerStep(o)
    PROVE  BrokerTruth'
<1>1. RouterTypeOK /\ Stages /\ BrokerTruth
  BY DEF RouterIInv
<1>2. OthersKept(o) /\ UNCHANGED <<executed, registry, reply>>
  BY <1>1, CallerOthers
\* A new request has no answer and is in no registry yet.
<1>3. \/ request'[o] = request[o]
      \/ request[o] = "none"
  BY <1>1, CallerEffect DEF Stages, Sends, LooksUp, Raises, Ends
<1> QED
  BY <1>1, <1>2, <1>3 DEF BrokerTruth, OthersKept

LEMMA CallerBookings ==
    ASSUME RouterIInv, NEW o \in Orders, CallerStep(o)
    PROVE  Bookings'
<1>1. RouterTypeOK /\ Stages /\ Bookings
  BY DEF RouterIInv
<1>2. OthersKept(o) /\ UNCHANGED executed
  BY <1>1, CallerOthers
<1>3. /\ filled'[o] > 0 => /\ filled'[o] = executed[o]
                           /\ request'[o] = "settled"
                           /\ accepted'[o]
      /\ state'[o] \in {"FILLED", "PARTIAL"} => filled'[o] > 0
  <2>1. CASE Ends(o)
    BY <2>1 DEF Ends
  <2>2. CASE Sends(o) \/ LooksUp(o) \/ Raises(o)
    BY <1>1, <2>2 DEF Sends, LooksUp, Raises, Stages, Bookings, Routing
  <2> QED
    BY <2>1, <2>2, CallerEffect
<1> QED
  BY <1>2, <1>3, <1>1 DEF Bookings, OthersKept

\* A route starts only when nothing of its symbol is in flight or booked, so
\* what it books later is the only booking of the symbol.
LEMMA CallerOneAtATime ==
    ASSUME RouterIInv, NEW o \in Orders, CallerStep(o)
    PROVE  OneAtATime'
<1>1. RouterTypeOK /\ Stages /\ Bookings /\ OneAtATime
  BY DEF RouterIInv
<1>2. OthersKept(o)
  BY <1>1, CallerOthers
<1>3. ASSUME NEW p \in Orders, SymbolOf[o] = SymbolOf[p], o # p
      PROVE  /\ ~(Routing(o)' /\ Routing(p)')
             /\ ~(Routing(o)' /\ filled'[p] > 0)
             /\ ~(Routing(p)' /\ filled'[o] > 0)
             /\ ~(filled'[o] > 0 /\ filled'[p] > 0)
  <2>1. pc'[p] = pc[p] /\ filled'[p] = filled[p]
    BY <1>2, <1>3 DEF OthersKept
  <2>2. CASE Sends(o)
    <3>1. ~Routing(p)
      BY <1>3, <2>2 DEF Sends, CallerFree
    <3>2. ~(filled[p] > 0)
      BY <1>1, <1>3, <2>2 DEF Sends, Claimed, Bookings
    <3> QED
      BY <1>1, <2>1, <2>2, <3>1, <3>2 DEF Sends, Stages, Routing
  <2>3. CASE LooksUp(o) \/ Raises(o) \/ Ends(o)
    <3>1. Routing(o)
      BY <2>3 DEF LooksUp, Raises, Ends, Routing
    <3>2. ~Routing(p) /\ ~(filled[p] > 0)
      BY <1>1, <1>3, <3>1 DEF OneAtATime
    <3> QED
      BY <2>1, <3>2 DEF Routing
  <2> QED
    BY <2>2, <2>3, CallerEffect
<1>4. ASSUME NEW p \in Orders, NEW q \in Orders, p # o, q # o,
             SymbolOf[p] = SymbolOf[q], p # q
      PROVE  /\ ~(Routing(p)' /\ Routing(q)')
             /\ ~(Routing(p)' /\ filled'[q] > 0)
             /\ ~(filled'[p] > 0 /\ filled'[q] > 0)
  BY <1>1, <1>2, <1>4 DEF OneAtATime, OthersKept, Routing
<1> QED
  BY <1>3, <1>4 DEF OneAtATime

\* ------------------------------- invariance -------------------------------

LEMMA StepRouterIInv ==
    ASSUME RouterIInv, [RouterNext]_routerVars
    PROVE  RouterIInv'
<1>1. CASE BrokerStep
  BY <1>1, BrokerTypeOK, BrokerStages, BrokerBrokerTruth, BrokerBookings, BrokerOneAtATime
     DEF RouterIInv
<1>2. CASE \E o \in Orders : CallerStep(o)
  <2>1. PICK o \in Orders : CallerStep(o)
    BY <1>2
  <2>2. RouterTypeOK'
    BY <2>1, CallerTypeOK DEF RouterIInv
  <2>3. Stages' /\ BrokerTruth' /\ Bookings' /\ OneAtATime'
    BY <2>1, CallerStages, CallerBrokerTruth, CallerBookings, CallerOneAtATime
  <2> QED
    BY <2>2, <2>3 DEF RouterIInv
<1>3. CASE UNCHANGED routerVars
  BY <1>3 DEF routerVars, osmVars, linkVars, RouterIInv, RouterTypeOK, TypeOK, Stages,
              BrokerTruth, Bookings, OneAtATime, Routing
<1> QED
  BY <1>1, <1>2, <1>3, RouterSteps

\* The strengthened invariant, for every set of orders and on every leg.
THEOREM RouterInvariance == RouterSpec => []RouterIInv
<1>1. RouterIInv /\ [RouterNext]_routerVars => RouterIInv'
  BY StepRouterIInv
<1> QED
  BY <1>1, InitRouterIInv, PTL DEF RouterSpec

\* Every variable keeps its type, the record's own and the link's.
THEOREM RouterTypeCorrect == RouterSpec => []RouterTypeOK
<1>1. RouterIInv => RouterTypeOK
  BY DEF RouterIInv
<1> QED
  BY <1>1, RouterInvariance, PTL

\* Nothing is booked that the broker did not execute, through lost requests,
\* late answers, restarts and lookups (_dispatch, reconcile_unknown).
THEOREM NothingBookedUnexecuted == RouterSpec => []BooksWithinTruth
<1>1. ASSUME RouterIInv, NEW o \in Orders
      PROVE  filled[o] <= executed[o] /\ executed[o] <= Requested[o]
  <2>1. filled[o] \in Nat /\ executed[o] \in Nat
    BY <1>1 DEF RouterIInv, RouterTypeOK, TypeOK
  <2>2. filled[o] > 0 => filled[o] = executed[o]
    BY <1>1 DEF RouterIInv, Bookings
  <2>3. executed[o] <= Requested[o]
    BY <1>1 DEF RouterIInv, BrokerTruth
  <2> QED
    BY <2>1, <2>2, <2>3
<1>2. RouterIInv => BooksWithinTruth
  BY <1>1 DEF BooksWithinTruth
<1> QED
  BY <1>2, RouterInvariance, PTL

\* FILLED and PARTIAL tell exactly what the broker executed.
THEOREM SettledIsExact == RouterSpec => []SettledBooksExact
<1>1. RouterIInv => SettledBooksExact
  BY DEF RouterIInv, Bookings, SettledBooksExact
<1> QED
  BY <1>1, RouterInvariance, PTL

\* A symbol is booked by one order at most (_evaluate_symbol, _enter).
THEOREM BookedOnceAlways == RouterSpec => []BookedOnce
<1>1. RouterIInv => BookedOnce
  BY DEF RouterIInv, OneAtATime, BookedOnce
<1> QED
  BY <1>1, RouterInvariance, PTL

\* ------------------------------- refinement -------------------------------

LEMMA CallerKeepsLifecycle ==
    ASSUME RouterIInv, RouterIInv', NEW o \in Orders, CallerStep(o)
    PROVE  Lifecycle!Open(o) \/ Lifecycle!Book(o)
<1>1. RouterTypeOK /\ RouterTypeOK' /\ Stages /\ BrokerTruth /\ BrokerTruth'
  BY DEF RouterIInv
<1>2. OthersKept(o) /\ executed' = executed
  BY <1>1, CallerOthers
<1>3. [p \in Orders |-> Phase(state'[p])]
        = [[p \in Orders |-> Phase(state[p])] EXCEPT ![o] = Phase(state'[o])]
  BY <1>1, <1>2 DEF OthersKept, RouterTypeOK, TypeOK
<1>4. filled' = [filled EXCEPT ![o] = filled'[o]]
  BY <1>1, <1>2 DEF OthersKept, RouterTypeOK, TypeOK
<1>5. CASE Sends(o)
  <2>1. Phase(state[o]) = "none" /\ Phase(state'[o]) = "open"
    BY <1>1, <1>5 DEF Sends, Stages, Phase, TerminalStates
  <2>2. filled' = filled
    BY <1>1, <1>4, <1>5 DEF Sends, RouterTypeOK, TypeOK
  <2> QED
    BY <1>3, <2>1, <2>2 DEF Lifecycle!Open
<1>6. CASE LooksUp(o) \/ Raises(o) \/ Ends(o)
  <2>1. state[o] \in {"SENT", "UNKNOWN"} /\ state'[o] # "NEW" /\ filled[o] = 0
    BY <1>1, <1>6 DEF LooksUp, Raises, Ends, Stages, Routing
  <2>2. Phase(state[o]) = "open" /\ Phase(state'[o]) \in {"open", "closed"}
    BY <2>1 DEF Phase, TerminalStates
  <2>3. filled'[o] \in filled[o] .. Requested[o]
    BY <1>1, <1>2, <1>6, <2>1, OrdersAssumption
       DEF LooksUp, Raises, Ends, BrokerTruth, RouterTypeOK, TypeOK
  <2> QED
    BY <1>3, <1>4, <2>2, <2>3 DEF Lifecycle!Book
<1> QED
  BY <1>5, <1>6, CallerEffect

\* The router on top of the state machine still keeps the ledger's promise.
THEOREM RouterImplementsLifecycle == RouterSpec => LifecycleSpec
<1>1. RouterInit => Lifecycle!Init
  BY DEF RouterInit, Init, Lifecycle!Init, Phase
<1>2. ASSUME RouterIInv, RouterIInv', [RouterNext]_routerVars
      PROVE  [Lifecycle!Next]_(Lifecycle!lifecycleVars)
  <2>1. CASE BrokerStep \/ UNCHANGED routerVars
    <3>1. state' = state /\ filled' = filled
      BY <2>1, BrokerFrame DEF osmVars, routerVars
    <3> QED
      BY <3>1 DEF Lifecycle!lifecycleVars
  <2>2. CASE \E o \in Orders : CallerStep(o)
    BY <1>2, <2>2, CallerKeepsLifecycle DEF Lifecycle!Next
  <2> QED
    BY <1>2, <2>1, <2>2, RouterSteps
<1>3. RouterIInv /\ RouterIInv' /\ [RouterNext]_routerVars
        => [Lifecycle!Next]_(Lifecycle!lifecycleVars)
  BY <1>2
<1> QED
  BY <1>1, <1>3, RouterInvariance, PTL DEF RouterSpec, LifecycleSpec, Lifecycle!Spec
=============================================================================
