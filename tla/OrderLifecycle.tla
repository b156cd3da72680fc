--------------------------- MODULE OrderLifecycle ---------------------------
(***************************************************************************)
(* What the order ledger promises about each order attempt, whatever the   *)
(* broker, the network and the callers of the state machine do:            *)
(*   - an attempt is opened once and a closed attempt is never reopened;   *)
(*   - a booked quantity is never taken back and never exceeds the         *)
(*     quantity that was asked for.                                        *)
(* It does not say when an attempt closes or that it ever does.            *)
(***************************************************************************)
EXTENDS Integers

CONSTANTS
    Orders,      \* the client order ids
    Requested    \* the quantity each order asks for

VARIABLES
    phase,       \* "none", "open" or "closed", per order
    booked       \* the quantity booked so far, per order

lifecycleVars == <<phase, booked>>

Init ==
    /\ phase = [o \in Orders |-> "none"]
    /\ booked = [o \in Orders |-> 0]

Open(o) ==
    /\ phase[o] = "none"
    /\ phase' = [phase EXCEPT ![o] = "open"]
    /\ UNCHANGED booked

\* A fill is booked; the order may close with it. A fill that arrives for a
\* closed attempt is still booked: the quantity is real.
Book(o) ==
    /\ phase[o] # "none"
    /\ \E q \in booked[o] .. Requested[o] :
           booked' = [booked EXCEPT ![o] = q]
    /\ \E p \in {phase[o], "closed"} :
           phase' = [phase EXCEPT ![o] = p]

Close(o) ==
    /\ phase[o] = "open"
    /\ phase' = [phase EXCEPT ![o] = "closed"]
    /\ UNCHANGED booked

Next == \E o \in Orders : Open(o) \/ Book(o) \/ Close(o)

Spec == Init /\ [][Next]_lifecycleVars
=============================================================================
