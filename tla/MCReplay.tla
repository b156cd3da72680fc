------------------------------- MODULE MCReplay -------------------------------
(***************************************************************************)
(* A channel breakout with windows of two bars, on bars that open alike    *)
(* and close apart: small ones, and one wide enough to be a shock.         *)
(***************************************************************************)
EXTENDS Replay
MCShapes == {[open |-> 4, high |-> 5, low |-> 4, close |-> 5],
             [open |-> 4, high |-> 4, low |-> 3, close |-> 3],
             [open |-> 6, high |-> 7, low |-> 6, close |-> 7],
             [open |-> 6, high |-> 24, low |-> 1, close |-> 2]}
=============================================================================
