-------------------------- MODULE MCRemoteConnection --------------------------
(* RemoteConnection for TLC: the callers are model values, the bounds are   *)
(* in the configurations.                                                   *)
EXTENDS RemoteConnectionProofs
=============================================================================
