------------------------------- MODULE MCScreen -------------------------------
(* Screen for TLC: the sets and bounds are in the configurations.           *)
EXTENDS Screen
=============================================================================
