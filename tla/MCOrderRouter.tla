--------------------------- MODULE MCOrderRouter ---------------------------
(***************************************************************************)
(* Two orders for one symbol show what a caller that asks again does, on   *)
(* each leg in turn; three units give several partial fills.        *)
(***************************************************************************)
EXTENDS OrderRouter

MCRequested == [o \in Orders |-> 3]
MCSymbolOf == [o \in Orders |-> "EURUSD"]
MCSymbols == {"EURUSD"}
=============================================================================
