----------------------------- MODULE MCDaemonFeed -----------------------------
(* Values of the constants for TLC: two calls of two goroutines; two calls *)
(* of one while the host changes; hook events while a session is deleted;  *)
(* hook events while the host is connected twice.                          *)
EXTENDS DaemonFeedProofs

One == {CHOOSE c \in Callers : TRUE}

MCVisits ==
  {[connections |-> 1, callers |-> Callers, kinds |-> Kinds, calls |-> 2, events |-> 0, changes |-> 0],
   [connections |-> 1, callers |-> One, kinds |-> Kinds, calls |-> 2, events |-> 0, changes |-> 1],
   [connections |-> 1, callers |-> One, kinds |-> {"delete"}, calls |-> 1, events |-> 2, changes |-> 1],
   [connections |-> 2, callers |-> {}, kinds |-> {}, calls |-> 0, events |-> 2, changes |-> 0]}
=============================================================================
