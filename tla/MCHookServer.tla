---------------------------- MODULE MCHookServer ----------------------------
(* HookServer for TLC: a calm surrounding, in which every prompt must be     *)
(* answered, and a rough one, where a small buffer fills, hooks give up and  *)
(* the TUI restarts.                                                         *)
EXTENDS HookServer

Calmly  == [buffer |-> 8, turns |-> 2, tools |-> 2, restarts |-> 0, may |-> {}]
Roughly == [buffer |-> 1, turns |-> 1, tools |-> 1, restarts |-> 1, may |-> Disturbance]

MCEnvironments == {Calmly, Roughly}
=============================================================================
