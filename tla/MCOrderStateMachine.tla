------------------------ MODULE MCOrderStateMachine ------------------------
(***************************************************************************)
(* Two attempts for three units each are enough for a retry of an absent   *)
(* attempt, two successive partial fills and the fill that completes them, *)
(* an overfill by one unit, and a stale answer that finds the order in any *)
(* state. Attempts only meet in retry_as_new.                              *)
(***************************************************************************)
EXTENDS OrderStateMachine

MCRequested == [o \in Orders |-> 3]
=============================================================================
