---------------------------- MODULE MCEntryPause ----------------------------
(***************************************************************************)
(* Two symbols, so that a shock of one falls into the cool-off of the      *)
(* other; time for two cool-offs to follow each other and overlap.         *)
(***************************************************************************)
EXTENDS EntryPause
=============================================================================
