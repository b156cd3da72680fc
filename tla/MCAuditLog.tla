----------------------------- MODULE MCAuditLog -----------------------------
(***************************************************************************)
(* Two processes are enough for a fork of the chain, five appends for a    *)
(* cut one between acknowledged ones and for one that is added to a line   *)
(* without an end. Genesis, Piece and Refused are unlike any row.          *)
(***************************************************************************)
EXTENDS AuditLog

=============================================================================
