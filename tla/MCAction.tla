------------------------------ MODULE MCAction ------------------------------
(* Two goals, so that one can overtake or follow the other.                *)
EXTENDS Action
=============================================================================
