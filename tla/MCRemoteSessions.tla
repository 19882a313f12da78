--------------------------- MODULE MCRemoteSessions ---------------------------
(* Values of the constants for TLC: two sessions and the dialog; one       *)
(* session, the dialog and the collector; one session, a loss and the      *)
(* collector.                                                              *)
EXTENDS RemoteSessionsProofs, TLC

One == {CHOOSE s \in Sessions : TRUE}

MCVisits ==
  {[sessions |-> Sessions, dials |-> 1, drops |-> 0, sweeps |-> 0],
   [sessions |-> One, dials |-> 1, drops |-> 0, sweeps |-> 1],
   [sessions |-> One, dials |-> 0, drops |-> 1, sweeps |-> 1]}
=============================================================================
