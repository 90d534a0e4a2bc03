----------------------------- MODULE MCDialling -----------------------------
(***************************************************************************)
(* Values for the constants of Dialling: an attempt may take all but one   *)
(* unit of the poll interval, and attempt and replies together outlast it. *)
(***************************************************************************)
EXTENDS Dialling

CONSTANT d1

MCNone == {}
=============================================================================
