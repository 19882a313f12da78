-------------------------- MODULE ConnectionLifecycle --------------------------
(***************************************************************************)
(* What a RemoteConnection promises to the TUI: the state machine of       *)
(* connection.go, over the state it reports and the wire under it.  A loss *)
(* is the only way into Reconnecting, an attempt that opened a new wire    *)
(* the only way into Connected, and nothing but a success or giving up     *)
(* ends an attempt.  A second user may take the connection over at any     *)
(* time; nothing is promised after that.                                   *)
(***************************************************************************)
VARIABLES
  phase,  (* the ConnectionState that State() reports, or "Shared"         *)
  wire,   (* the tunnel of the last connection: "none", "up" or "down"     *)
  opened  (* the current attempt has opened its wire                       *)

vars == <<phase, wire, opened>>

Init == phase = "Disconnected" /\ wire = "none" /\ opened = FALSE

Call == phase = "Disconnected" /\ phase' = "Connecting" /\ UNCHANGED <<wire, opened>>

Open ==
  /\ phase = "Connecting" /\ ~opened /\ wire # "up"
  /\ wire' \in {"up", "down"} /\ opened' = TRUE
  /\ UNCHANGED phase

Ready == phase = "Connecting" /\ opened /\ phase' = "Connected" /\ opened' = FALSE /\ UNCHANGED wire

Lose == wire = "up" /\ wire' = "down" /\ UNCHANGED <<phase, opened>>

Notice ==
  /\ phase = "Connected" /\ wire = "down"
  /\ phase' = "Reconnecting"
  /\ UNCHANGED <<wire, opened>>

Retry == phase = "Reconnecting" /\ phase' = "Connecting" /\ UNCHANGED <<wire, opened>>

GiveUp ==
  /\ phase \in {"Connecting", "Reconnecting"} /\ ~opened
  /\ phase' = "ConnectionError"
  /\ UNCHANGED <<wire, opened>>

TakeOver ==
  /\ phase # "Shared" /\ phase' = "Shared"
  /\ wire' = "none" /\ opened' = FALSE

Next == TakeOver \/ Call \/ Open \/ Ready \/ Lose \/ Notice \/ Retry \/ GiveUp

Spec == Init /\ [][Next]_vars

Fairness == WF_vars(Ready) /\ WF_vars(Notice) /\ WF_vars(Retry \/ GiveUp \/ Ready)

FairSpec == Spec /\ Fairness
=============================================================================
