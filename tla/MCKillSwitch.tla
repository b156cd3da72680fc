---------------------------- MODULE MCKillSwitch ----------------------------
(***************************************************************************)
(* Two entries, on the same leg or on two (one may rest or be held when    *)
(* the other is still being checked), one kill and one unlock, which may   *)
(* overlap in every way. Nothing tells the entries apart, so that one of   *)
(* them may be put on the first leg.                                       *)
(***************************************************************************)
EXTENDS KillSwitch

MCInit == KillInit /\ legOf[CHOOSE r \in Routes : TRUE] = 1

MCSpec == MCInit /\ [][KillNext]_killSwitchVars /\ KillFairness
=============================================================================
