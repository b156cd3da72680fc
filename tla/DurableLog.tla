----------------------------- MODULE DurableLog -----------------------------
(***************************************************************************)
(* What the audit log promises, whatever processes write it and wherever   *)
(* they are cut off:                                                       *)
(*   - what a reader of the file gets is only ever extended, and contains  *)
(*     every acknowledged row, in the order they were acknowledged in;     *)
(*   - or the file is refused, and from then on for good: a history that   *)
(*     has been damaged is never read as if it had not.                    *)
(* It does not promise that the file can be read.                          *)
(***************************************************************************)
EXTENDS Sequences

CONSTANTS
    Rows,        \* everything a row may be
    Refused      \* reading the file raises an error

VARIABLES
    acked,       \* the rows whose append has returned
    readable     \* what reading the file gives

logVars == <<acked, readable>>

Init == acked = <<>> /\ readable = <<>>

\* A row reaches the file, acknowledged or not.
Store ==
    /\ readable # Refused
    /\ \E row \in Rows :
        /\ readable' = Append(readable, row)
        /\ acked' \in {acked, Append(acked, row)}

\* A row that damages the file, or is added to a damaged one, may be
\* acknowledged all the same.
Damage ==
    /\ readable' = Refused
    /\ acked' = acked \/ \E row \in Rows : acked' = Append(acked, row)

Next == Store \/ Damage

Spec == Init /\ [][Next]_logVars
=============================================================================
