----------------------------- MODULE MCOperations -----------------------------
(***************************************************************************)
(* The end-of-day job and one other loop, one restart each, with and       *)
(* without an alert_fn. Live asks for three clean days of which the last   *)
(* two stand in a row, and one clean live day ends the ramp. Five runs are *)
(* three to go live, one that gets dirty or ends the ramp, and one more:   *)
(* the gate is also reached over a dirty day, and a dirty day shuts it.    *)
(***************************************************************************)
EXTENDS Operations
MCWorkers == <<"exit_manager", "eod">>
=============================================================================
