--------------------------- MODULE MCSessionManager ---------------------------
(* SessionManager for TLC: ids and goroutines are model values, the clients *)
(* may be exchanged (the ids may not: Init chooses one), the bounds and the *)
(* operations in play are in the configurations.                            *)
EXTENDS SessionManager, TLC

Symmetric == Permutations(Clients)
=============================================================================
