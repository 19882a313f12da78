--------------------------- MODULE RemoteConnection ---------------------------
(***************************************************************************)
(* The connection of the TUI to one remote daemon:                         *)
(* internal/daemon/connection_impl.go, with the SSH tunnel (tunnel.go) and *)
(* the daemon discovery (lifecycle.go) it drives.                          *)
(*                                                                         *)
(* Threads are the callers of Connect and Disconnect and, for every        *)
(* connection that was ever published, its monitor goroutine.  A published *)
(* connection, its tunnel, its context and its monitor share one number,   *)
(* its generation.  connMu serialises attempts and Disconnect; setState    *)
(* and the monitor's own steps take only rc.mu, so every section between   *)
(* two uses of rc.mu is an action of its own.                              *)
(***************************************************************************)
EXTENDS Naturals

CONSTANTS
  Callers,        (* goroutines that call Connect and Disconnect           *)
  NoThread,       (* connMu is free                                        *)
  MaxGens,        (* bound: connections ever published                     *)
  MaxConnects,    (* bound: calls of Connect                               *)
  MaxDisconnects, (* bound: calls of Disconnect                            *)
  MaxDrops,       (* bound: tunnels that die by themselves                 *)
  MaxRetries,     (* DefaultMaxRetries                                     *)
  RemoteHealthy   (* TRUE: SSH and daemon fail only for a local reason     *)

Gens == 1 .. MaxGens
Threads == Callers \cup Gens

ASSUME ConstantsAssumption ==
  /\ MaxGens \in Nat \ {0}
  /\ MaxConnects \in Nat /\ MaxDisconnects \in Nat /\ MaxDrops \in Nat /\ MaxRetries \in Nat
  /\ RemoteHealthy \in BOOLEAN
  /\ Callers \cap Gens = {}
  /\ NoThread \notin Threads

VARIABLES
  state,      (* rc.state                                                  *)
  tunnel,     (* rc.tunnel: a generation, 0 is nil                         *)
  client,     (* rc.client is not nil                                      *)
  cancel,     (* rc.cancel: the generation it cancels, 0 is nil            *)
  attempts,   (* rc.backoff.attempts                                       *)
  connMu,     (* the thread holding rc.connMu                              *)
  attempt,    (* locals of connectLocked: the holder of connMu owns them   *)
  torn,       (* locals of Disconnect: the cancel and tunnel it took over  *)
  pc,         (* where each thread is                                      *)
  seen,       (* the tunnel each monitor watches                           *)
  link,       (* the ssh process of each published tunnel                  *)
  cancelled,  (* the monitor contexts that are done                        *)
  gens,       (* connections published so far                              *)
  connects, disconnects, drops  (* calls and losses so far                 *)

rcVars  == <<state, tunnel, client, cancel, attempts>>
budgets == <<connects, disconnects, drops>>
vars == <<rcVars, connMu, attempt, torn, pc, seen, link, cancelled, gens, budgets>>

States == {"Disconnected", "Connecting", "Connected", "Reconnecting", "ConnectionError"}
Links  == {"none", "alive", "dead"}
Attempt == [discovered : BOOLEAN, restarted : BOOLEAN, link : Links]
NoAttempt == [discovered |-> FALSE, restarted |-> FALSE, link |-> "none"]
Torn == [cancel : 0 .. MaxGens, tunnel : 0 .. MaxGens]
NothingTorn == [cancel |-> 0, tunnel |-> 0]

Attempting == {"connecting", "discover", "startDaemon", "startTunnel", "health", "publish", "published"}
TearingDown == {"cancelling", "stopping", "closing"}
Monitoring == {"unborn", "start", "watch", "lost", "loop", "backoff", "lock", "failed", "done"}
Labels == {"idle"} \cup Attempting \cup TearingDown \cup Monitoring

TypeOK ==
  /\ state \in States
  /\ tunnel \in 0 .. MaxGens /\ cancel \in 0 .. MaxGens
  /\ client \in BOOLEAN
  /\ attempts \in 0 .. MaxRetries
  /\ connMu \in Threads \cup {NoThread}
  /\ attempt \in Attempt
  /\ torn \in Torn
  /\ pc \in [Threads -> Labels]
  /\ seen \in [Gens -> 0 .. MaxGens]
  /\ link \in [Gens -> Links]
  /\ cancelled \subseteq Gens
  /\ gens \in 0 .. MaxGens
  /\ connects \in 0 .. MaxConnects
  /\ disconnects \in 0 .. MaxDisconnects
  /\ drops \in 0 .. MaxDrops

Init ==
  /\ state = "Disconnected" /\ tunnel = 0 /\ client = FALSE /\ cancel = 0 /\ attempts = 0
  /\ connMu = NoThread /\ attempt = NoAttempt /\ torn = NothingTorn
  /\ pc = [t \in Threads |-> IF t \in Callers THEN "idle" ELSE "unborn"]
  /\ seen = [g \in Gens |-> 0]
  /\ link = [g \in Gens |-> "none"]
  /\ cancelled = {} /\ gens = 0
  /\ connects = 0 /\ disconnects = 0 /\ drops = 0

Goto(t, label) == pc' = [pc EXCEPT ![t] = label]

\* Connect is called with context.Background(), an attempt of reconnect with
\* the monitor's own context.
CtxDone(t) == t \in cancelled

\* A remote step may succeed only under a live context, and it may fail for
\* a reason of its own unless the remote side is healthy.
MaySucceed(t) == ~CtxDone(t)
MayFail(t) == CtxDone(t) \/ ~RemoteHealthy

-----------------------------------------------------------------------------
(* connectLocked, run by a caller (Connect) or by a monitor (reconnect).   *)

\* Lock connMu and cancel the previous monitor: connectLocked's first section.
Begin(t) ==
  /\ connMu = NoThread
  /\ \/ t \in Callers /\ pc[t] = "idle" /\ connects < MaxConnects /\ connects' = connects + 1
     \/ t \in Gens /\ pc[t] = "lock" /\ UNCHANGED connects
  /\ connMu' = t
  /\ cancelled' = cancelled \cup ({cancel} \ {0})
  /\ cancel' = 0
  /\ Goto(t, "connecting")
  /\ UNCHANGED <<state, tunnel, client, attempts, attempt, torn, seen, link, gens, disconnects, drops>>

SetConnecting(t) ==
  /\ connMu = t /\ pc[t] = "connecting"
  /\ state' = "Connecting"
  /\ Goto(t, "discover")
  /\ UNCHANGED <<tunnel, client, cancel, attempts, connMu, attempt, torn, seen, link, cancelled, gens, budgets>>

Discover(t) ==
  /\ connMu = t /\ pc[t] = "discover"
  /\ \/ /\ MaySucceed(t)
        /\ attempt' = [NoAttempt EXCEPT !.discovered = TRUE]
        /\ Goto(t, "startTunnel")
     \/ /\ attempt' = NoAttempt \* no daemon.json on the host, or ssh failed
        /\ Goto(t, "startDaemon")
  /\ UNCHANGED <<rcVars, connMu, torn, seen, link, cancelled, gens, budgets>>

\* Mutant of Fail: the state is left at Connecting.
FailSilently(t) ==
  /\ connMu' = NoThread
  /\ attempt' = NoAttempt
  /\ Goto(t, IF t \in Callers THEN "idle" ELSE "failed")
  /\ UNCHANGED <<rcVars, torn, seen, link, cancelled, gens, budgets>>

\* Every error return of connectLocked: the new tunnel, if any, is stopped.
Fail(t) ==
  /\ state' = "ConnectionError"
  /\ connMu' = NoThread
  /\ attempt' = NoAttempt
  /\ Goto(t, IF t \in Callers THEN "idle" ELSE "failed")
  /\ UNCHANGED <<tunnel, client, cancel, attempts, torn, seen, link, cancelled, gens, budgets>>

Advance(t, label, a) ==
  /\ attempt' = a
  /\ Goto(t, label)
  /\ UNCHANGED <<rcVars, connMu, torn, seen, link, cancelled, gens, budgets>>

StartDaemon(t) ==
  /\ connMu = t /\ pc[t] = "startDaemon"
  /\ \/ MaySucceed(t) /\ Advance(t, "startTunnel", attempt)
     \/ MayFail(t) /\ Fail(t)

StartTunnel(t) ==
  /\ connMu = t /\ pc[t] = "startTunnel"
  /\ \/ MaySucceed(t) /\ Advance(t, "health", [attempt EXCEPT !.link = "alive"])
     \/ MayFail(t) /\ Fail(t)

\* A discovered daemon that does not answer is replaced once; any other
\* failure, and a daemon of another API version, ends the attempt.
CheckHealth(t) ==
  /\ connMu = t /\ pc[t] = "health"
  /\ LET stale == attempt.discovered /\ ~attempt.restarted
         noAnswer == MayFail(t) \/ attempt.link = "dead"
     IN \/ MaySucceed(t) /\ attempt.link = "alive" /\ Advance(t, "publish", attempt)
        \/ ~RemoteHealthy /\ attempt.link = "alive" /\ Fail(t) \* API version mismatch
        \/ noAnswer /\ stale
             /\ Advance(t, "startDaemon", [discovered |-> TRUE, restarted |-> TRUE, link |-> "none"])
        \/ noAnswer /\ ~stale /\ Fail(t)

\* Mutant of Publish: the monitor's cancel is not kept.
PublishNoCancel(t) ==
  /\ connMu = t /\ pc[t] = "publish" /\ gens < MaxGens
  /\ gens' = gens + 1
  /\ tunnel' = gens + 1 /\ client' = TRUE /\ attempts' = 0
  /\ link' = [link EXCEPT ![gens + 1] = attempt.link]
  /\ attempt' = NoAttempt
  /\ Goto(t, "published")
  /\ UNCHANGED <<state, cancel, connMu, torn, seen, cancelled, budgets>>

Publish(t) ==
  /\ connMu = t /\ pc[t] = "publish" /\ gens < MaxGens
  /\ gens' = gens + 1
  /\ tunnel' = gens + 1 /\ client' = TRUE /\ cancel' = gens + 1 /\ attempts' = 0
  /\ link' = [link EXCEPT ![gens + 1] = attempt.link]
  /\ attempt' = NoAttempt
  /\ Goto(t, "published")
  /\ UNCHANGED <<state, connMu, torn, seen, cancelled, budgets>>

\* setState(Connected), go monitorTunnel, unlock connMu.  No reconnect hook
\* is ever registered, so a monitor whose attempt succeeded returns.
SetConnected(t) ==
  /\ connMu = t /\ pc[t] = "published"
  /\ state' = "Connected"
  /\ connMu' = NoThread
  /\ pc' = [pc EXCEPT ![t] = IF t \in Callers THEN "idle" ELSE "done", ![gens] = "start"]
  /\ UNCHANGED <<tunnel, client, cancel, attempts, attempt, torn, seen, link, cancelled, gens, budgets>>

-----------------------------------------------------------------------------
(* Disconnect                                                              *)

TakeDown(c) ==
  /\ connMu = NoThread /\ pc[c] = "idle" /\ disconnects < MaxDisconnects
  /\ disconnects' = disconnects + 1
  /\ connMu' = c
  /\ torn' = [cancel |-> cancel, tunnel |-> tunnel]
  /\ cancel' = 0 /\ tunnel' = 0 /\ client' = FALSE
  /\ Goto(c, "cancelling")
  /\ UNCHANGED <<state, attempts, attempt, seen, link, cancelled, gens, connects, drops>>

CancelMonitor(c) ==
  /\ connMu = c /\ pc[c] = "cancelling"
  /\ cancelled' = cancelled \cup ({torn.cancel} \ {0})
  /\ Goto(c, "stopping")
  /\ UNCHANGED <<rcVars, connMu, attempt, torn, seen, link, gens, budgets>>

\* Mutant of StopTunnel: the ssh process is left running.
StopTunnelForgotten(c) ==
  /\ connMu = c /\ pc[c] = "stopping"
  /\ Goto(c, "closing")
  /\ UNCHANGED <<rcVars, connMu, attempt, torn, seen, link, cancelled, gens, budgets>>

StopTunnel(c) ==
  /\ connMu = c /\ pc[c] = "stopping"
  /\ link' = [g \in Gens |-> IF g = torn.tunnel THEN "dead" ELSE link[g]]
  /\ Goto(c, "closing")
  /\ UNCHANGED <<rcVars, connMu, attempt, torn, seen, cancelled, gens, budgets>>

SetDisconnected(c) ==
  /\ connMu = c /\ pc[c] = "closing"
  /\ state' = "Disconnected"
  /\ connMu' = NoThread /\ torn' = NothingTorn
  /\ Goto(c, "idle")
  /\ UNCHANGED <<tunnel, client, cancel, attempts, attempt, seen, link, cancelled, gens, budgets>>

-----------------------------------------------------------------------------
(* monitorTunnel and reconnect                                             *)

\* Mutant of MonitorStart: a tunnel that is dead already is not watched.
MonitorStartIfAlive(m) ==
  /\ pc[m] = "start"
  /\ seen' = [seen EXCEPT ![m] = tunnel]
  /\ Goto(m, IF tunnel = 0 \/ \E g \in Gens : g = tunnel /\ link[g] = "dead" THEN "done" ELSE "watch")
  /\ UNCHANGED <<rcVars, connMu, attempt, torn, link, cancelled, gens, budgets>>

MonitorStart(m) ==
  /\ pc[m] = "start"
  /\ seen' = [seen EXCEPT ![m] = tunnel]
  /\ Goto(m, IF tunnel = 0 THEN "done" ELSE "watch")
  /\ UNCHANGED <<rcVars, connMu, attempt, torn, link, cancelled, gens, budgets>>

\* Mutant of MonitorCancelled: only the backoff selects on the context.
MonitorCancelledInBackoff(m) ==
  /\ pc[m] = "backoff" /\ CtxDone(m)
  /\ Goto(m, "done")
  /\ UNCHANGED <<rcVars, connMu, attempt, torn, seen, link, cancelled, gens, budgets>>

\* ctx.Done in either select; Go picks any ready case, so it does not
\* pre-empt TunnelLost or BackoffElapsed.
MonitorCancelled(m) ==
  /\ pc[m] \in {"watch", "backoff"} /\ CtxDone(m)
  /\ Goto(m, "done")
  /\ UNCHANGED <<rcVars, connMu, attempt, torn, seen, link, cancelled, gens, budgets>>

TunnelLost(m) ==
  /\ pc[m] = "watch" /\ link[seen[m]] = "dead"
  /\ Goto(m, "lost")
  /\ UNCHANGED <<rcVars, connMu, attempt, torn, seen, link, cancelled, gens, budgets>>

SetReconnecting(m) ==
  /\ pc[m] = "lost"
  /\ state' = "Reconnecting"
  /\ Goto(m, "loop")
  /\ UNCHANGED <<tunnel, client, cancel, attempts, connMu, attempt, torn, seen, link, cancelled, gens, budgets>>

\* Mutant of NextAttempt: without backoff.Exhausted.
NextAttemptUnlimited(m) ==
  /\ pc[m] = "loop"
  /\ attempts' = attempts + 1 /\ Goto(m, "backoff")
  /\ UNCHANGED <<state, tunnel, client, cancel, connMu, attempt, torn, seen, link, cancelled, gens, budgets>>

\* The head of the retry loop: backoff.Exhausted, backoff.Next.
NextAttempt(m) ==
  /\ pc[m] = "loop"
  /\ \/ attempts < MaxRetries /\ attempts' = attempts + 1 /\ Goto(m, "backoff") /\ UNCHANGED state
     \/ attempts >= MaxRetries /\ state' = "ConnectionError" /\ Goto(m, "done") /\ UNCHANGED attempts
  /\ UNCHANGED <<tunnel, client, cancel, connMu, attempt, torn, seen, link, cancelled, gens, budgets>>

BackoffElapsed(m) ==
  /\ pc[m] = "backoff"
  /\ Goto(m, "lock")
  /\ UNCHANGED <<rcVars, connMu, attempt, torn, seen, link, cancelled, gens, budgets>>

\* Mutant of AfterFailure: retries in any state.
AfterFailureAlways(m) ==
  /\ pc[m] = "failed"
  /\ Goto(m, "loop")
  /\ UNCHANGED <<rcVars, connMu, attempt, torn, seen, link, cancelled, gens, budgets>>

AfterFailure(m) ==
  /\ pc[m] = "failed"
  /\ Goto(m, IF state \in {"Reconnecting", "Connecting"} THEN "loop" ELSE "done")
  /\ UNCHANGED <<rcVars, connMu, attempt, torn, seen, link, cancelled, gens, budgets>>

-----------------------------------------------------------------------------
(* The environment: an ssh process exits by itself.                        *)

Drop ==
  /\ drops < MaxDrops /\ drops' = drops + 1
  /\ \/ \E g \in Gens : /\ link[g] = "alive"
                        /\ link' = [link EXCEPT ![g] = "dead"]
                        /\ UNCHANGED attempt
     \/ attempt.link = "alive" /\ attempt' = [attempt EXCEPT !.link = "dead"] /\ UNCHANGED link
  /\ UNCHANGED <<rcVars, connMu, torn, pc, seen, cancelled, gens, connects, disconnects>>

AttemptStep(t) ==
  SetConnecting(t) \/ Discover(t) \/ StartDaemon(t) \/ StartTunnel(t)
    \/ CheckHealth(t) \/ Publish(t) \/ SetConnected(t)

DisconnectStep(c) == CancelMonitor(c) \/ StopTunnel(c) \/ SetDisconnected(c)

MonitorStep(m) ==
  MonitorStart(m) \/ MonitorCancelled(m) \/ TunnelLost(m) \/ SetReconnecting(m)
    \/ NextAttempt(m) \/ BackoffElapsed(m) \/ AfterFailure(m)

Next ==
  \/ \E t \in Threads : Begin(t) \/ AttemptStep(t)
  \/ \E c \in Callers : TakeDown(c) \/ DisconnectStep(c)
  \/ \E m \in Gens : MonitorStep(m)
  \/ Drop

Spec == Init /\ [][Next]_vars

\* Started calls and monitors keep running; ssh commands carry connect and
\* keep-alive timeouts.  Nothing obliges a caller to call or a tunnel to die.
Fairness ==
  /\ \A t \in Threads : WF_vars(AttemptStep(t))
  /\ \A c \in Callers : WF_vars(DisconnectStep(c))
  /\ \A m \in Gens : WF_vars(MonitorStep(m)) /\ SF_vars(Begin(m))

FairSpec == Spec /\ Fairness

-----------------------------------------------------------------------------
(* Properties                                                              *)

\* Whenever no call is in progress and the connection reports Connected, it
\* has a client and a tunnel, and the monitor of exactly that tunnel is alive
\* and not cancelled: a loss of the tunnel cannot go unnoticed
\* (connectLocked's publication against Disconnect and reconnect).
ConnectedIsWatched ==
  (connMu = NoThread /\ state = "Connected") =>
    /\ client /\ tunnel # 0 /\ cancel = tunnel /\ tunnel \notin cancelled
    /\ pc[tunnel] \in {"start", "watch", "lost"}
    /\ pc[tunnel] \in {"watch", "lost"} => seen[tunnel] = tunnel

\* A connection object that is connected once never leaves an ssh process
\* behind: every live tunnel is rc.tunnel or the one Disconnect is stopping,
\* and no attempt ends with a tunnel of its own (Tunnel.Stop on the error
\* paths of connectLocked).
NoTunnelLeak ==
  gens <= 1 =>
  /\ \A g \in Gens : link[g] = "alive" => g \in {tunnel, torn.tunnel}
  /\ connMu = NoThread => attempt.link = "none"

\* The death of the tunnel of a connected connection is noticed
\* (monitorTunnel's select on Tunnel.Wait).
LossNoticed ==
  \A g \in Gens :
    (state = "Connected" /\ connMu = NoThread /\ tunnel = g /\ link[g] = "dead") ~> (state # "Connected")

\* The goroutine of a cancelled context ends: neither Disconnect nor a newer
\* Connect leaves a monitor running (ctx.Done in monitorTunnel and reconnect).
CancelledMonitorsExit == \A g \in Gens : (g \in cancelled) ~> (pc[g] = "done")

\* No monitor sleeps through what it is there for, a loss or its own end.
MonitorsRespond == LossNoticed /\ CancelledMonitorsExit

\* root.go calls Connect once and nobody else touches the object.
SoleUser == connects <= 1 /\ disconnects = 0

\* For a sole user every attempt and every recovery ends in Connected or
\* ConnectionError: the status bar never shows "reconnecting" for ever
\* (reconnect's retry loop).
RecoveryEnds ==
  (state \in {"Connecting", "Reconnecting"}) ~> (state \in {"Connected", "ConnectionError"} \/ ~SoleUser)

\* The connection as its sole user sees it; see ConnectionLifecycle.
Lifecycle == INSTANCE ConnectionLifecycle WITH
  phase <- IF SoleUser THEN state ELSE "Shared",
  wire <- IF ~SoleUser \/ tunnel = 0 THEN "none" ELSE IF link[tunnel] = "alive" THEN "up" ELSE "down",
  opened <- SoleUser /\ \E t \in Threads : pc[t] = "published"

\* Until a second Connect or a Disconnect the code implements the life cycle,
\* liveness included.
ImplementsLifecycle == Lifecycle!FairSpec

\* connection_impl.go:332 "attempts to re-establish the connection": with a
\* healthy remote side a lost connection comes back.  The code does not do it.
HealthyRemoteIsReconnected == (state = "Reconnecting") ~> (state = "Connected")
=============================================================================
