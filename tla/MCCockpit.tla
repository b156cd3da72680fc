------------------------------ MODULE MCCockpit ------------------------------
(***************************************************************************)
(* Two requests at a time, two settings, so that a save has another one's  *)
(* to keep, and two starts, one after the other or overlapping, in one     *)
(* second or in two. Two deeds are under way at a time before the first    *)
(* start, one before the second, and none after it.                        *)
(***************************************************************************)
EXTENDS Cockpit
=============================================================================
