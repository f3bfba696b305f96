------------------------------- MODULE MCSaga -------------------------------
(* Instances of Saga for TLC. *)
EXTENDS Saga

CONSTANTS e1, e2
=============================================================================
