---------------------------- MODULE MCExitManager ----------------------------
(***************************************************************************)
(* One position on each kind of venue. The prices are the least that tell  *)
(* the thresholds apart: 0 is the initial stop, 2 the entry, 4 breakeven   *)
(* and the locked level, 5 the profit lock, 6 the second partial; gaps     *)
(* between any two of them happen. Four lots carve one lot for either      *)
(* partial, two lots carve none. The trails 1 and 3 stand for a tight and  *)
(* a wide regime: changing over pulls the raw trail down, and MinStep 2    *)
(* keeps some moves from being made. Two failing calls let a call fail     *)
(* again after the one restart the worker has, so that it is given up too. *)
(***************************************************************************)
EXTENDS ExitManager
=============================================================================
