------------------------ MODULE RemoteConnectionProofs ------------------------
(***************************************************************************)
(* RemoteConnection for any number of callers, connections and losses:     *)
(* types, the watch over a connected connection (ConnectedIsWatched), the  *)
(* tunnels that are stopped (NoTunnelLeak), and the life cycle that a sole *)
(* user sees (ConnectionLifecycle).                                        *)
(***************************************************************************)
EXTENDS RemoteConnection, TLAPS

\* connMu is held exactly by the thread inside Connect or Disconnect.
LockInv ==
  \A t \in Threads : pc[t] \in Attempting \cup TearingDown <=> connMu = t

\* Monitors are born in the order of the generations; the newest is unborn
\* only between Publish and SetConnected.
GenInv ==
  /\ tunnel <= gens /\ cancel <= gens /\ torn.cancel <= gens
  /\ \A g \in cancelled : g <= gens
  /\ \A g \in Gens : g > gens => pc[g] = "unborn"

\* Between Publish and SetConnected the new connection is complete, and
\* Connected is reported only by SetConnected until the next attempt,
\* Disconnect or loss.
PublishInv ==
  /\ \A t \in Threads : pc[t] = "published" =>
       /\ client /\ gens # 0 /\ tunnel = gens /\ cancel = gens
       /\ gens \notin cancelled /\ pc[gens] = "unborn"
  /\ \A t \in Threads : pc[t] \in Attempting \ {"connecting"} => state # "Connected"

IInv == TypeOK /\ LockInv /\ GenInv /\ PublishInv /\ ConnectedIsWatched

LEMMA GenIsThread == Gens \subseteq Threads /\ \A g \in Gens : g \notin Callers /\ g \in Nat /\ g # 0
  BY ConstantsAssumption DEF Gens, Threads

\* The labels of every jump are labels, so pc keeps its type.
LEMMA GotoType ==
  ASSUME NEW t \in Threads, NEW label \in Labels, pc \in [Threads -> Labels], Goto(t, label)
  PROVE  pc' \in [Threads -> Labels]
  BY DEF Goto

LEMMA LabelSets ==
  /\ Attempting \subseteq Labels /\ TearingDown \subseteq Labels /\ Monitoring \subseteq Labels
  /\ "idle" \in Labels
  BY DEF Labels

\* Types are preserved by every step.
LEMMA NextTypeOK == TypeOK /\ [Next]_vars => TypeOK'
  <1> SUFFICES ASSUME TypeOK, [Next]_vars PROVE TypeOK'
    OBVIOUS
  <1> USE ConstantsAssumption, GenIsThread DEF TypeOK, rcVars, budgets
  <1>a. Callers \subseteq Threads
    BY DEF Threads
  <1>b. NoAttempt \in Attempt /\ NothingTorn \in Torn
    BY DEF NoAttempt, Attempt, Links, NothingTorn, Torn
  <1>1. ASSUME NEW t \in Threads, Begin(t) PROVE TypeOK'
    <2>1. pc' \in [Threads -> Labels]
      BY <1>1, GotoType, LabelSets DEF Begin, Attempting
    <2>2. cancelled' \subseteq Gens
      BY <1>1 DEF Begin, Gens
    <2>3. QED BY <1>1, <2>1, <2>2 DEF Begin
  <1>2. ASSUME NEW t \in Threads, Fail(t) PROVE TypeOK'
    <2>1. pc' \in [Threads -> Labels]
      <3>1. (IF t \in Callers THEN "idle" ELSE "failed") \in Labels
        BY DEF Labels, Monitoring
      <3>2. QED BY <1>2, <3>1, GotoType DEF Fail
    <2>2. QED BY <1>2, <1>b, <2>1 DEF Fail, States
  <1>3. ASSUME NEW t \in Threads, NEW label \in Attempting, NEW a \in Attempt, Advance(t, label, a)
        PROVE TypeOK'
    <2>1. pc' \in [Threads -> Labels]
      BY <1>3, GotoType, LabelSets DEF Advance
    <2>2. QED BY <1>3, <2>1 DEF Advance
  <1>4. ASSUME NEW t \in Threads, AttemptStep(t) PROVE TypeOK'
    <2>1. CASE SetConnecting(t)
      <3>1. pc' \in [Threads -> Labels]
        BY <2>1, GotoType, LabelSets DEF SetConnecting, Attempting
      <3>2. QED BY <2>1, <3>1 DEF SetConnecting, States
    <2>2. CASE Discover(t)
      <3>1. pc' \in [Threads -> Labels]
        BY <2>2, GotoType, LabelSets DEF Discover, Attempting
      <3>2. attempt' \in Attempt
        BY <2>2, <1>b DEF Discover, Attempt, NoAttempt
      <3>3. QED BY <2>2, <3>1, <3>2 DEF Discover
    <2>3. CASE StartDaemon(t)
      BY <2>3, <1>2, <1>3 DEF StartDaemon, Attempting
    <2>4. CASE StartTunnel(t)
      <3>1. [attempt EXCEPT !.link = "alive"] \in Attempt
        BY DEF Attempt, Links
      <3>2. QED BY <2>4, <3>1, <1>2, <1>3 DEF StartTunnel, Attempting
    <2>5. CASE CheckHealth(t)
      <3>1. [discovered |-> TRUE, restarted |-> TRUE, link |-> "none"] \in Attempt
        BY DEF Attempt, Links
      <3>2. QED BY <2>5, <3>1, <1>2, <1>3 DEF CheckHealth, Attempting
    <2>6. CASE Publish(t)
      <3>1. pc' \in [Threads -> Labels]
        BY <2>6, GotoType, LabelSets DEF Publish, Attempting
      <3>2. gens + 1 \in Gens /\ gens + 1 \in 0 .. MaxGens /\ attempt.link \in Links
        BY <2>6 DEF Publish, Gens, Attempt
      <3>3. link' \in [Gens -> Links]
        BY <2>6, <3>2 DEF Publish
      <3>4. QED BY <2>6, <1>b, <3>1, <3>2, <3>3 DEF Publish
    <2>7. CASE SetConnected(t)
      <3>1. pc' \in [Threads -> Labels]
        BY <2>7 DEF SetConnected, Labels, Monitoring
      <3>2. QED BY <2>7, <3>1 DEF SetConnected, States
    <2>8. QED BY <1>4, <2>1, <2>2, <2>3, <2>4, <2>5, <2>6, <2>7 DEF AttemptStep
  <1>5. ASSUME NEW c \in Callers, TakeDown(c) \/ DisconnectStep(c) PROVE TypeOK'
    <2>1. pc' \in [Threads -> Labels]
      BY <1>5, <1>a, GotoType, LabelSets
         DEF TakeDown, DisconnectStep, CancelMonitor, StopTunnel, SetDisconnected, TearingDown
    <2>2. CASE TakeDown(c)
      <3>1. torn' \in Torn
        BY <2>2 DEF TakeDown, Torn
      <3>2. /\ disconnects' \in 0 .. MaxDisconnects /\ connMu' \in Threads \cup {NoThread}
            /\ 0 \in 0 .. MaxGens
        BY <2>2, <1>a DEF TakeDown
      <3>3. tunnel' = 0 /\ cancel' = 0 /\ client' \in BOOLEAN
        BY <2>2 DEF TakeDown
      <3>4. UNCHANGED <<state, attempts, attempt, seen, link, cancelled, gens, connects, drops>>
        BY <2>2 DEF TakeDown
      <3>5. QED BY <2>1, <3>1, <3>2, <3>3, <3>4
    <2>3. CASE CancelMonitor(c)
      <3>1. torn.cancel \in 0 .. MaxGens
        BY DEF Torn
      <3>2. cancelled' \subseteq Gens
        <4>1. cancelled' = cancelled \cup ({torn.cancel} \ {0})
          BY <2>3 DEF CancelMonitor
        <4>2. {torn.cancel} \ {0} \subseteq Gens
          BY <3>1 DEF Gens
        <4>3. QED BY <4>1, <4>2
      <3>3. QED BY <2>1, <2>3, <3>2 DEF CancelMonitor
    <2>4. CASE StopTunnel(c)
      BY <2>1, <2>4 DEF StopTunnel, Links
    <2>5. CASE SetDisconnected(c)
      BY <2>1, <2>5, <1>b DEF SetDisconnected, States
    <2>6. QED BY <1>5, <2>2, <2>3, <2>4, <2>5 DEF DisconnectStep
  <1>6. ASSUME NEW m \in Gens, MonitorStep(m) PROVE TypeOK'
    <2>1. pc' \in [Threads -> Labels]
      <3>1. {"watch", "lost", "loop", "backoff", "lock", "done"} \subseteq Labels
        BY DEF Labels, Monitoring
      <3>2. QED BY <1>6, <3>1, GotoType DEF MonitorStep, MonitorStart, MonitorCancelled, TunnelLost,
             SetReconnecting, NextAttempt, BackoffElapsed, AfterFailure
    <2>2. CASE NextAttempt(m)
      BY <2>1, <2>2 DEF NextAttempt, States
    <2>3. CASE SetReconnecting(m)
      BY <2>1, <2>3 DEF SetReconnecting, States
    <2>4. CASE MonitorStart(m)
      BY <2>1, <2>4 DEF MonitorStart
    <2>5. CASE MonitorCancelled(m) \/ TunnelLost(m) \/ BackoffElapsed(m) \/ AfterFailure(m)
      BY <2>1, <2>5 DEF MonitorCancelled, TunnelLost, BackoffElapsed, AfterFailure
    <2>6. QED BY <1>6, <2>2, <2>3, <2>4, <2>5 DEF MonitorStep
  <1>7. CASE Drop
    <2>1. [attempt EXCEPT !.link = "dead"] \in Attempt
      BY DEF Attempt, Links
    <2>2. link' \in [Gens -> Links] /\ attempt' \in Attempt
      BY <1>7, <2>1 DEF Drop, Links
    <2>3. QED BY <1>7, <2>2 DEF Drop
  <1>8. CASE UNCHANGED vars
    BY <1>8 DEF vars
  <1>9. QED BY <1>1, <1>4, <1>5, <1>6, <1>7, <1>8 DEF Next

LEMMA InitTypeOK == Init => TypeOK
  <1> SUFFICES ASSUME Init PROVE TypeOK
    OBVIOUS
  <1>1. pc \in [Threads -> Labels]
    BY DEF Init, Labels, Monitoring
  <1>2. link \in [Gens -> Links] /\ seen \in [Gens -> 0 .. MaxGens]
    BY ConstantsAssumption DEF Init, Links
  <1>3. attempt \in Attempt /\ torn \in Torn
    BY ConstantsAssumption DEF Init, Attempt, NoAttempt, NothingTorn, Links, Torn
  <1>4. client \in BOOLEAN /\ state \in States /\ connMu \in Threads \cup {NoThread} /\ cancelled \subseteq Gens
    BY DEF Init, States
  <1>5. /\ tunnel \in 0 .. MaxGens /\ cancel \in 0 .. MaxGens /\ gens \in 0 .. MaxGens
        /\ attempts \in 0 .. MaxRetries /\ connects \in 0 .. MaxConnects
        /\ disconnects \in 0 .. MaxDisconnects /\ drops \in 0 .. MaxDrops
    BY ConstantsAssumption DEF Init
  <1>6. QED BY <1>1, <1>2, <1>3, <1>4, <1>5 DEF TypeOK

\* Every state of every run is typed, whatever the number of callers,
\* connections, losses and retries.
THEOREM TypeCorrect == Spec => []TypeOK
  BY InitTypeOK, NextTypeOK, PTL DEF Spec

-----------------------------------------------------------------------------
\* The inductive step of ConnectedIsWatched, one lemma per group of actions.

LEMMA BeginIInv ==
  ASSUME IInv, NEW t \in Threads, Begin(t)
  PROVE  LockInv' /\ GenInv' /\ PublishInv' /\ ConnectedIsWatched'
  <1> USE ConstantsAssumption, GenIsThread DEF IInv, TypeOK
  <1>1. /\ connMu = NoThread /\ connMu' = t /\ pc[t] \in {"idle", "lock"}
        /\ pc' = [pc EXCEPT ![t] = "connecting"]
        /\ UNCHANGED <<state, tunnel, client, torn, gens>> /\ cancel' = 0
        /\ cancelled' = cancelled \cup ({cancel} \ {0})
    BY DEF Begin, Goto
  <1>2. LockInv'
    BY <1>1 DEF LockInv, Attempting, TearingDown
  <1>3. GenInv'
    BY <1>1 DEF GenInv, Gens
  <1>4. PublishInv'
    BY <1>1 DEF PublishInv, LockInv, Attempting
  <1>5. ConnectedIsWatched'
    BY <1>1 DEF ConnectedIsWatched
  <1>6. QED BY <1>2, <1>3, <1>4, <1>5

LEMMA AttemptIInv ==
  ASSUME IInv, NEW t \in Threads, AttemptStep(t)
  PROVE  LockInv' /\ GenInv' /\ PublishInv' /\ ConnectedIsWatched'
  <1> USE ConstantsAssumption, GenIsThread DEF IInv, TypeOK
  <1>1. ASSUME Fail(t), connMu = t, pc[t] \in Attempting
        PROVE  LockInv' /\ GenInv' /\ PublishInv' /\ ConnectedIsWatched'
    <2>1. /\ connMu' = NoThread /\ state' = "ConnectionError"
          /\ \E l \in {"idle", "failed"} : pc' = [pc EXCEPT ![t] = l]
          /\ UNCHANGED <<tunnel, client, cancel, torn, cancelled, gens>>
      BY <1>1 DEF Fail, Goto
    <2>2. pc[t] # "unborn"
      BY <1>1 DEF Attempting
    <2>3. QED BY <1>1, <2>1, <2>2 DEF LockInv, GenInv, PublishInv, ConnectedIsWatched, Attempting, TearingDown, Gens
  <1>2. ASSUME connMu = t, pc[t] \in Attempting \ {"published"},
               NEW l \in Attempting \ {"published", "connecting"}, pc' = [pc EXCEPT ![t] = l],
               state' = state \/ state' = "Connecting", pc[t] = "connecting" => state' = "Connecting",
               UNCHANGED <<connMu, tunnel, client, cancel, torn, cancelled, gens>>
        PROVE  LockInv' /\ GenInv' /\ PublishInv' /\ ConnectedIsWatched'
    BY <1>2 DEF LockInv, GenInv, PublishInv, ConnectedIsWatched, Attempting, TearingDown, Gens
  <1>3. ASSUME NEW l \in Attempting \ {"published", "connecting"}, NEW a, Advance(t, l, a),
               connMu = t, pc[t] \in Attempting \ {"published", "connecting"}
        PROVE  LockInv' /\ GenInv' /\ PublishInv' /\ ConnectedIsWatched'
    BY <1>2, <1>3 DEF Advance, Goto, rcVars
  <1>4. CASE SetConnecting(t)
    BY <1>4, <1>2 DEF SetConnecting, Goto, Attempting
  <1>5. CASE Discover(t)
    BY <1>5, <1>2 DEF Discover, Goto, rcVars, Attempting
  <1>6. CASE StartDaemon(t)
    BY <1>6, <1>1, <1>3 DEF StartDaemon, Attempting
  <1>7. CASE StartTunnel(t)
    BY <1>7, <1>1, <1>3 DEF StartTunnel, Attempting
  <1>8. CASE CheckHealth(t)
    BY <1>8, <1>1, <1>3 DEF CheckHealth, Attempting
  <1>9. CASE Publish(t)
    <2>1. /\ connMu = t /\ pc[t] = "publish" /\ pc' = [pc EXCEPT ![t] = "published"]
          /\ gens' = gens + 1 /\ tunnel' = gens + 1 /\ cancel' = gens + 1 /\ client'
          /\ gens + 1 \in Gens
          /\ UNCHANGED <<state, connMu, torn, cancelled>>
      BY <1>9 DEF Publish, Goto, Gens
    <2>2. gens + 1 \notin cancelled /\ pc[gens + 1] = "unborn" /\ gens + 1 # t /\ gens + 1 # 0
      BY <2>1 DEF GenInv, Gens
    <2>3. LockInv'
      BY <2>1 DEF LockInv, Attempting, TearingDown
    <2>4. GenInv'
      BY <2>1 DEF GenInv, Gens, Torn
    <2>5. PublishInv'
      BY <2>1, <2>2 DEF PublishInv, LockInv, Attempting, TearingDown
    <2>6. QED BY <2>1, <2>3, <2>4, <2>5 DEF ConnectedIsWatched
  <1>10. CASE SetConnected(t)
    <2>1. /\ connMu = t /\ connMu' = NoThread /\ pc[t] = "published"
          /\ \E l \in {"idle", "done"} : pc' = [pc EXCEPT ![t] = l, ![gens] = "start"]
          /\ UNCHANGED <<tunnel, client, cancel, torn, seen, cancelled, gens>>
      BY <1>10 DEF SetConnected
    <2>2. /\ client /\ gens # 0 /\ tunnel = gens /\ cancel = gens /\ gens \notin cancelled
          /\ pc[gens] = "unborn" /\ gens \in Gens /\ gens # t
      BY <2>1 DEF PublishInv, Gens
    <2>3. pc'[gens] = "start"
      BY <2>1, <2>2
    <2>4. LockInv'
      BY <2>1, <2>2 DEF LockInv, Attempting, TearingDown
    <2>5. GenInv' /\ PublishInv'
      BY <2>1, <2>2, <2>4 DEF GenInv, Gens, PublishInv, LockInv, Attempting
    <2>6. ConnectedIsWatched'
      BY <2>1, <2>2, <2>3 DEF ConnectedIsWatched
    <2>7. QED BY <2>4, <2>5, <2>6
  <1>11. QED BY <1>4, <1>5, <1>6, <1>7, <1>8, <1>9, <1>10 DEF AttemptStep

LEMMA DisconnectIInv ==
  ASSUME IInv, NEW c \in Callers, TakeDown(c) \/ DisconnectStep(c)
  PROVE  LockInv' /\ GenInv' /\ PublishInv' /\ ConnectedIsWatched'
  <1> USE ConstantsAssumption, GenIsThread DEF IInv, TypeOK
  <1>a. c \in Threads /\ c \notin Gens
    BY DEF Threads
  <1>1. CASE TakeDown(c)
    <2>1. /\ connMu = NoThread /\ connMu' = c /\ pc[c] = "idle" /\ pc' = [pc EXCEPT ![c] = "cancelling"]
          /\ tunnel' = 0 /\ cancel' = 0 /\ torn'.cancel = cancel /\ UNCHANGED <<state, cancelled, gens>>
      BY <1>1 DEF TakeDown, Goto
    <2>2. QED BY <1>a, <2>1
             DEF LockInv, GenInv, PublishInv, ConnectedIsWatched, Attempting, TearingDown, Gens
  <1>2. CASE CancelMonitor(c)
    <2>1. /\ connMu = c /\ connMu' = c /\ pc[c] = "cancelling" /\ pc' = [pc EXCEPT ![c] = "stopping"]
          /\ cancelled' = cancelled \cup ({torn.cancel} \ {0})
          /\ UNCHANGED <<state, tunnel, client, cancel, torn, gens>>
      BY <1>2 DEF CancelMonitor, Goto, rcVars
    <2>2. QED BY <1>a, <2>1
             DEF LockInv, GenInv, PublishInv, ConnectedIsWatched, Attempting, TearingDown, Gens
  <1>3. CASE StopTunnel(c)
    <2>1. /\ connMu = c /\ connMu' = c /\ pc[c] = "stopping" /\ pc' = [pc EXCEPT ![c] = "closing"]
          /\ UNCHANGED <<state, tunnel, client, cancel, torn, cancelled, gens>>
      BY <1>3 DEF StopTunnel, Goto, rcVars
    <2>2. QED BY <1>a, <2>1
             DEF LockInv, GenInv, PublishInv, ConnectedIsWatched, Attempting, TearingDown, Gens
  <1>4. CASE SetDisconnected(c)
    <2>1. /\ connMu = c /\ connMu' = NoThread /\ pc[c] = "closing" /\ pc' = [pc EXCEPT ![c] = "idle"]
          /\ state' = "Disconnected" /\ torn'.cancel = 0
          /\ UNCHANGED <<tunnel, client, cancel, cancelled, gens>>
      BY <1>4 DEF SetDisconnected, Goto, NothingTorn
    <2>2. QED BY <1>a, <2>1
             DEF LockInv, GenInv, PublishInv, ConnectedIsWatched, Attempting, TearingDown, Gens
  <1>5. QED BY <1>1, <1>2, <1>3, <1>4 DEF DisconnectStep

LEMMA MonitorIInv ==
  ASSUME IInv, NEW m \in Gens, MonitorStep(m)
  PROVE  LockInv' /\ GenInv' /\ PublishInv' /\ ConnectedIsWatched'
  <1> USE ConstantsAssumption, GenIsThread DEF IInv, TypeOK
  <1> DEFINE Quiet == {"watch", "lost", "loop", "backoff", "lock", "done"}
  <1>1. /\ pc[m] \in {"start", "watch", "lost", "loop", "backoff", "failed"}
        /\ \E l \in Quiet : pc' = [pc EXCEPT ![m] = l]
        /\ UNCHANGED <<connMu, tunnel, client, cancel, torn, cancelled, gens>>
        /\ state' = state \/ state' \in {"Reconnecting", "ConnectionError"}
    BY DEF MonitorStep, MonitorStart, MonitorCancelled, TunnelLost, SetReconnecting, NextAttempt,
           BackoffElapsed, AfterFailure, Goto, rcVars
  <1>2. LockInv'
    BY <1>1 DEF LockInv, Attempting, TearingDown
  <1>3. GenInv'
    BY <1>1 DEF GenInv, Gens
  <1>4. PublishInv'
    BY <1>1 DEF PublishInv, Attempting
  <1>5. ConnectedIsWatched'
    <2>1. SUFFICES ASSUME connMu = NoThread, state' = "Connected" PROVE ConnectedIsWatched'
      BY <1>1 DEF ConnectedIsWatched
    <2>2. state = "Connected" /\ client /\ tunnel # 0 /\ cancel = tunnel /\ tunnel \notin cancelled
      BY <1>1, <2>1 DEF ConnectedIsWatched
    <2>3. CASE m # tunnel
      <3>1. seen'[tunnel] = seen[tunnel] /\ pc'[tunnel] = pc[tunnel]
        BY <1>1, <2>2, <2>3 DEF Gens, MonitorStep, MonitorStart, MonitorCancelled, TunnelLost,
           SetReconnecting, NextAttempt, BackoffElapsed, AfterFailure
      <3>2. QED BY <1>1, <2>1, <2>2, <3>1 DEF ConnectedIsWatched
    <2>4. CASE m = tunnel
      <3>1. pc[m] \in {"start", "watch", "lost"} /\ (pc[m] = "watch" => seen[m] = m)
        BY <2>1, <2>2, <2>4 DEF ConnectedIsWatched
      <3>2. CASE MonitorStart(m)
        BY <1>1, <2>2, <2>4, <3>2 DEF MonitorStart, Goto, ConnectedIsWatched
      <3>3. CASE TunnelLost(m)
        BY <1>1, <2>2, <2>4, <3>1, <3>3 DEF TunnelLost, Goto, ConnectedIsWatched
      <3>4. ~MonitorCancelled(m)
        BY <2>2, <2>4 DEF MonitorCancelled, CtxDone
      <3>5. ~SetReconnecting(m)
        BY <2>1 DEF SetReconnecting
      <3>6. ~(NextAttempt(m) \/ BackoffElapsed(m) \/ AfterFailure(m))
        BY <3>1 DEF NextAttempt, BackoffElapsed, AfterFailure
      <3>7. QED BY <3>2, <3>3, <3>4, <3>5, <3>6 DEF MonitorStep
    <2>5. QED BY <2>3, <2>4
  <1>6. QED BY <1>2, <1>3, <1>4, <1>5

LEMMA NextIInv == IInv /\ [Next]_vars => IInv'
  <1> SUFFICES ASSUME IInv, [Next]_vars PROVE IInv'
    OBVIOUS
  <1>1. TypeOK'
    BY NextTypeOK DEF IInv
  <1>2. LockInv' /\ GenInv' /\ PublishInv' /\ ConnectedIsWatched'
    <2>1. CASE Drop
      BY <2>1 DEF Drop, rcVars, IInv, LockInv, GenInv, PublishInv, ConnectedIsWatched
    <2>2. CASE UNCHANGED vars
      BY <2>2 DEF vars, rcVars, IInv, LockInv, GenInv, PublishInv, ConnectedIsWatched
    <2>3. QED BY <2>1, <2>2, BeginIInv, AttemptIInv, DisconnectIInv, MonitorIInv DEF Next
  <1>3. QED BY <1>1, <1>2 DEF IInv

\* In the first state nothing is connected and nobody holds connMu.
LEMMA InitIInv == Init => IInv
  <1> SUFFICES ASSUME Init PROVE IInv
    OBVIOUS
  <1>1. TypeOK
    BY InitTypeOK
  <1>2. \A t \in Threads : pc[t] \in {"idle", "unborn"} /\ (t \in Gens => pc[t] = "unborn") /\ t # NoThread
    BY ConstantsAssumption, GenIsThread DEF Init
  <1>3. LockInv /\ PublishInv /\ ConnectedIsWatched
    BY <1>2 DEF Init, LockInv, PublishInv, ConnectedIsWatched, Attempting, TearingDown
  <1>4. GenInv
    <2>1. tunnel = 0 /\ cancel = 0 /\ torn.cancel = 0 /\ gens = 0 /\ cancelled = {}
      BY DEF Init, NothingTorn
    <2>2. \A g \in Gens : pc[g] = "unborn"
      BY <1>2, GenIsThread
    <2>3. QED BY <2>1, <2>2 DEF GenInv
  <1>5. QED BY <1>1, <1>3, <1>4 DEF IInv

\* A connection that reports Connected while no call is in progress is watched
\* by the live monitor of its own tunnel, however many callers connect and
\* disconnect and however tunnels die.
THEOREM ConnectedIsAlwaysWatched == Spec => []ConnectedIsWatched
  <1>1. IInv => ConnectedIsWatched
    BY DEF IInv
  <1>2. QED BY <1>1, InitIInv, NextIInv, PTL DEF Spec

-----------------------------------------------------------------------------
\* No ssh process is left behind (NoTunnelLeak).

\* Tunnels exist for published connections, for the attempt that has opened
\* one and for the Disconnect that has one to stop.
LeakInv ==
  /\ \A g \in Gens : g > gens => link[g] = "none"
  /\ gens =< 1 => \A g \in Gens : link[g] = "alive" => g \in {tunnel, torn.tunnel}
  /\ attempt.link # "none" => connMu \in Threads /\ pc[connMu] \in {"health", "publish"}
  /\ torn.tunnel =< gens
  /\ torn.tunnel # 0 => connMu \in Callers /\ pc[connMu] \in TearingDown
  /\ \A c \in Callers : pc[c] = "closing" => \A g \in Gens : g = torn.tunnel => link[g] # "alive"

\* An attempt keeps a tunnel only until it is published or stopped.
LEMMA AttemptLeak ==
  ASSUME IInv, LeakInv, NEW t \in Threads, Begin(t) \/ AttemptStep(t)
  PROVE  LeakInv'
  <1> USE ConstantsAssumption, GenIsThread DEF IInv, TypeOK
  <1>1. CASE Begin(t)
    <2>1. /\ connMu = NoThread /\ connMu' = t /\ pc[t] \in {"idle", "lock"} /\ pc' = [pc EXCEPT ![t] = "connecting"]
          /\ UNCHANGED <<tunnel, torn, link, attempt, gens>>
      BY <1>1 DEF Begin, Goto
    <2>2. attempt.link = "none" /\ torn.tunnel = 0
      BY <2>1 DEF LeakInv, Threads
    <2>3. \A c \in Callers : pc'[c] = "closing" => pc[c] = "closing"
      BY <2>1 DEF Threads
    <2>4. QED BY <2>1, <2>2, <2>3 DEF LeakInv
  <1>2. ASSUME connMu = t, pc[t] \in Attempting, connMu' \in {t, NoThread}, NEW l \in Labels,
               pc' = [pc EXCEPT ![t] = l], l # "closing", l = "health" \/ l = "publish" => connMu' = t,
               l \in {"health", "publish"} \/ attempt'.link = "none",
               UNCHANGED <<tunnel, torn, link, gens>>
        PROVE LeakInv'
    <2>1. torn.tunnel = 0
      BY <1>2 DEF LeakInv, Attempting, TearingDown
    <2>2. QED BY <1>2, <2>1 DEF LeakInv
  <1>3. ASSUME Fail(t), connMu = t, pc[t] \in Attempting PROVE LeakInv'
    BY <1>2, <1>3 DEF Fail, Goto, NoAttempt, Labels, Monitoring
  <1>4. ASSUME NEW l \in Attempting, NEW a, Advance(t, l, a), connMu = t, pc[t] \in Attempting,
               l \in {"health", "publish"} \/ a.link = "none"
        PROVE LeakInv'
    BY <1>2, <1>4, LabelSets DEF Advance, Goto, rcVars, Attempting
  <1>5. CASE SetConnecting(t)
    <2>1. attempt.link = "none"
      BY <1>5 DEF SetConnecting, LeakInv
    <2>2. QED BY <1>2, <1>5, <2>1 DEF SetConnecting, Goto, Attempting, Labels
  <1>6. CASE Discover(t)
    BY <1>2, <1>6 DEF Discover, Goto, rcVars, NoAttempt, Attempting, Labels
  <1>7. CASE StartDaemon(t)
    <2>1. attempt.link = "none"
      BY <1>7 DEF StartDaemon, LeakInv
    <2>2. QED BY <1>3, <1>4, <1>7, <2>1 DEF StartDaemon, Attempting
  <1>8. CASE StartTunnel(t)
    BY <1>3, <1>4, <1>8 DEF StartTunnel, Attempting
  <1>9. CASE CheckHealth(t)
    BY <1>3, <1>4, <1>9 DEF CheckHealth, Attempting
  <1>10. CASE Publish(t)
    <2>1. /\ connMu = t /\ connMu' = t /\ pc[t] = "publish" /\ pc' = [pc EXCEPT ![t] = "published"]
          /\ gens' = gens + 1 /\ gens + 1 \in Gens /\ tunnel' = gens + 1 /\ attempt'.link = "none"
          /\ link' = [link EXCEPT ![gens + 1] = attempt.link] /\ torn' = torn
      BY <1>10 DEF Publish, Goto, Gens, NoAttempt
    <2>2. torn.tunnel = 0
      BY <2>1 DEF LeakInv, TearingDown
    <2>3. \A g \in Gens : g > gens' => link'[g] = "none"
      BY <2>1 DEF LeakInv, Gens
    <2>4. ASSUME gens' =< 1, NEW g \in Gens, link'[g] = "alive" PROVE g = tunnel'
      BY <2>1, <2>4 DEF LeakInv, Gens
    <2>5. QED BY <2>1, <2>2, <2>3, <2>4 DEF LeakInv
  <1>11. CASE SetConnected(t)
    <2>1. /\ connMu = t /\ connMu' = NoThread /\ pc[t] = "published"
          /\ \E l \in {"idle", "done"} : pc' = [pc EXCEPT ![t] = l, ![gens] = "start"]
          /\ UNCHANGED <<tunnel, torn, link, attempt, gens>>
      BY <1>11 DEF SetConnected
    <2>2. torn.tunnel = 0 /\ attempt.link = "none"
      BY <2>1 DEF LeakInv, TearingDown
    <2>3. \A c \in Callers : pc'[c] = "closing" => pc[c] = "closing"
      BY <2>1 DEF Threads
    <2>4. QED BY <2>1, <2>2, <2>3 DEF LeakInv
  <1>12. QED BY <1>1, <1>5, <1>6, <1>7, <1>8, <1>9, <1>10, <1>11 DEF AttemptStep

\* Disconnect stops the tunnel it took over before it is done.
LEMMA DisconnectLeak ==
  ASSUME IInv, LeakInv, NEW c \in Callers, TakeDown(c) \/ DisconnectStep(c)
  PROVE  LeakInv'
  <1> USE ConstantsAssumption, GenIsThread DEF IInv, TypeOK
  <1>a. c \in Threads /\ c \notin Gens
    BY DEF Threads
  <1>b. \A d \in Callers : d \in Threads /\ d # NoThread /\ (pc[d] \in TearingDown => connMu = d)
    BY DEF LockInv, Threads
  <1>1. CASE TakeDown(c)
    <2>1. /\ connMu = NoThread /\ connMu' = c /\ pc[c] = "idle" /\ pc' = [pc EXCEPT ![c] = "cancelling"]
          /\ tunnel' = 0 /\ torn'.tunnel = tunnel /\ tunnel =< gens /\ UNCHANGED <<link, attempt, gens>>
      BY <1>1 DEF TakeDown, Goto, GenInv
    <2>2. attempt.link = "none" /\ torn.tunnel = 0
      BY <2>1 DEF LeakInv, Threads
    <2>3. \A d \in Callers : pc'[d] # "closing"
      BY <1>a, <1>b, <2>1 DEF TearingDown
    <2>4. pc'[c] \in TearingDown
      BY <1>a, <2>1 DEF TearingDown
    <2>5. QED BY <1>a, <2>1, <2>2, <2>3, <2>4 DEF LeakInv, Gens
  <1>2. CASE CancelMonitor(c)
    <2>1. /\ connMu = c /\ connMu' = c /\ pc[c] = "cancelling" /\ pc' = [pc EXCEPT ![c] = "stopping"]
          /\ UNCHANGED <<tunnel, torn, link, attempt, gens>>
      BY <1>2 DEF CancelMonitor, Goto, rcVars
    <2>2. QED BY <1>a, <2>1 DEF LeakInv, TearingDown
  <1>3. CASE StopTunnel(c)
    <2>1. /\ connMu = c /\ connMu' = c /\ pc[c] = "stopping" /\ pc' = [pc EXCEPT ![c] = "closing"]
          /\ link' = [g \in Gens |-> IF g = torn.tunnel THEN "dead" ELSE link[g]]
          /\ UNCHANGED <<tunnel, torn, attempt, gens>>
      BY <1>3 DEF StopTunnel, Goto, rcVars
    <2>2. \A g \in Gens : g > gens => g # torn.tunnel
      BY DEF LeakInv, Gens, Torn
    <2>3. attempt.link = "none"
      BY <1>a, <2>1 DEF LeakInv
    <2>4. \A g \in Gens : (link'[g] = "alive" => link[g] = "alive") /\ (g = torn.tunnel => link'[g] # "alive")
      BY <2>1
    <2>5. \A g \in Gens : g > gens => link'[g] = "none"
      BY <2>1, <2>2 DEF LeakInv
    <2>6. pc'[c] \in TearingDown
      BY <1>a, <2>1 DEF TearingDown
    <2>7. QED BY <1>a, <2>1, <2>3, <2>4, <2>5, <2>6 DEF LeakInv
  <1>4. CASE SetDisconnected(c)
    <2>1. /\ connMu = c /\ connMu' = NoThread /\ pc[c] = "closing" /\ pc' = [pc EXCEPT ![c] = "idle"]
          /\ torn'.tunnel = 0 /\ UNCHANGED <<tunnel, link, attempt, gens>>
      BY <1>4 DEF SetDisconnected, Goto, NothingTorn
    <2>2. attempt.link = "none"
      BY <1>a, <2>1 DEF LeakInv
    <2>3. \A d \in Callers : pc'[d] # "closing"
      BY <1>a, <1>b, <2>1 DEF TearingDown
    <2>4. QED BY <1>a, <2>1, <2>2, <2>3 DEF LeakInv
  <1>5. QED BY <1>1, <1>2, <1>3, <1>4 DEF DisconnectStep

\* A tunnel that dies leaves the others alone.
LEMMA DropLeak ==
  ASSUME IInv, LeakInv, Drop
  PROVE  LeakInv'
  <1> USE ConstantsAssumption DEF IInv, TypeOK
  <1>1. UNCHANGED <<tunnel, torn, connMu, pc, gens>>
    BY DEF Drop, rcVars
  <1>2. \A g \in Gens : link'[g] = link[g] \/ (link[g] = "alive" /\ link'[g] = "dead")
    BY DEF Drop
  <1>3. attempt'.link # "none" => attempt.link # "none"
    BY DEF Drop, Attempt
  <1>4. QED BY <1>1, <1>2, <1>3 DEF LeakInv

\* A monitor owns no tunnel.
LEMMA MonitorLeak ==
  ASSUME IInv, LeakInv, NEW m \in Gens, MonitorStep(m)
  PROVE  LeakInv'
  <1> USE ConstantsAssumption, GenIsThread DEF IInv, TypeOK
  <1>1. /\ pc[m] \notin Attempting /\ \E l : pc' = [pc EXCEPT ![m] = l]
        /\ UNCHANGED <<connMu, tunnel, torn, link, attempt, gens>>
    BY DEF MonitorStep, MonitorStart, MonitorCancelled, TunnelLost, SetReconnecting, NextAttempt,
           BackoffElapsed, AfterFailure, Goto, rcVars, Attempting
  <1>2. \A t \in Threads : t # m => pc'[t] = pc[t]
    BY <1>1
  <1>3. connMu # m
    BY <1>1 DEF LeakInv, LockInv, MonitorStep, MonitorStart, MonitorCancelled, TunnelLost, SetReconnecting, NextAttempt,
           BackoffElapsed, AfterFailure, TearingDown
  <1>4. \A c \in Callers : c \in Threads /\ c # m
    BY DEF Threads
  <1>5. QED BY <1>1, <1>2, <1>3, <1>4 DEF LeakInv

\* At first there is no tunnel.
LEMMA InitLeak == Init => LeakInv
  <1> SUFFICES ASSUME Init PROVE LeakInv
    OBVIOUS
  <1>1. /\ \A g \in Gens : link[g] = "none"
        /\ attempt.link = "none" /\ torn.tunnel = 0
        /\ \A c \in Callers : pc[c] = "idle"
    BY DEF Init, NoAttempt, NothingTorn, Threads
  <1>2. torn.tunnel =< gens
    BY DEF Init, NothingTorn
  <1>3. QED BY <1>1, <1>2 DEF LeakInv

\* Every step keeps the account of the tunnels.
LEMMA NextLeak == IInv /\ LeakInv /\ [Next]_vars => LeakInv'
  <1> SUFFICES ASSUME IInv, LeakInv, [Next]_vars PROVE LeakInv'
    OBVIOUS
  <1>1. CASE UNCHANGED vars
    BY <1>1 DEF vars, rcVars, LeakInv
  <1>2. QED BY <1>1, AttemptLeak, DisconnectLeak, DropLeak, MonitorLeak DEF Next

\* An object that is connected once leaves no ssh process behind, however
\* attempts fail, tunnels die and Disconnect comes in between.
THEOREM TunnelsAreStopped == Spec => []NoTunnelLeak
  <1>1. IInv /\ LeakInv => NoTunnelLeak
    BY ConstantsAssumption DEF IInv, TypeOK, LeakInv, NoTunnelLeak
  <1>2. QED BY <1>1, InitIInv, InitLeak, NextIInv, NextLeak, PTL DEF Spec

-----------------------------------------------------------------------------
\* For a sole user the connection implements its life cycle, step by step.

\* The phases of a connection whose one user calls Connect once.
Fresh == connects = 0 /\ gens = 0 /\ tunnel = 0 /\ cancel = 0 /\ connMu = NoThread /\ state = "Disconnected"

FirstAttempt ==
  /\ connects = 1 /\ gens = 0 /\ tunnel = 0 /\ cancel = 0
  /\ connMu \in Callers /\ pc[connMu] \in Attempting \ {"published"}
  /\ state = IF pc[connMu] = "connecting" THEN "Disconnected" ELSE "Connecting"
  /\ pc[connMu] \in {"health", "publish"} => attempt.link # "none"

Opened ==
  /\ connects = 1 /\ gens = 1 /\ tunnel = 1 /\ cancel = 1 /\ cancelled = {}
  /\ connMu \in Callers /\ pc[connMu] = "published" /\ state = "Connecting"

FirstFailed ==
  connects = 1 /\ gens = 0 /\ tunnel = 0 /\ cancel = 0 /\ connMu = NoThread /\ state = "ConnectionError"

Watched ==
  /\ connects = 1 /\ gens = 1 /\ tunnel = 1 /\ cancel = 1 /\ cancelled = {} /\ connMu = NoThread
  /\ \/ pc[1] = "start" /\ state = "Connected"
     \/ pc[1] = "watch" /\ state = "Connected" /\ seen[1] = 1
     \/ pc[1] = "lost" /\ state = "Connected" /\ link[1] = "dead"
     \/ pc[1] \in {"loop", "backoff", "lock"} /\ state = "Reconnecting" /\ link[1] = "dead"
     \/ pc[1] = "done" /\ state = "ConnectionError" /\ link[1] = "dead"

\* The monitor's attempt runs under the context it has just cancelled.
Retrying ==
  /\ connects = 1 /\ gens = 1 /\ tunnel = 1 /\ cancel = 0 /\ 1 \in cancelled /\ connMu = 1 /\ link[1] = "dead"
  /\ pc[1] \in {"connecting", "discover", "startDaemon"}
  /\ state = IF pc[1] = "connecting" THEN "Reconnecting" ELSE "Connecting"

Over ==
  /\ connects = 1 /\ gens = 1 /\ tunnel = 1 /\ cancel = 0 /\ 1 \in cancelled /\ connMu = NoThread /\ link[1] = "dead"
  /\ pc[1] \in {"failed", "done"} /\ state = "ConnectionError"

SoleInv == SoleUser => cancelled \subseteq {1} /\ (Fresh \/ FirstAttempt \/ Opened \/ FirstFailed \/ Watched \/ Retrying \/ Over)

\* The wire and the open attempt of the life cycle, while there is a sole user.
Wire == IF tunnel = 0 THEN "none" ELSE IF link[tunnel] = "alive" THEN "up" ELSE "down"
IsOpen == \E t \in Threads : pc[t] = "published"

\* Only the holder of connMu can have opened a wire.
LEMMA OpenedByHolder ==
  ASSUME IInv, IInv'
  PROVE  /\ IsOpen <=> connMu \in Threads /\ pc[connMu] = "published"
         /\ IsOpen' <=> connMu' \in Threads /\ pc'[connMu'] = "published"
  BY DEF IInv, LockInv, IsOpen, Attempting

\* While a sole user is left alone the life cycle sees state, Wire and IsOpen.
LEMMA SoleView ==
  ASSUME SoleUser, SoleUser'
  PROVE  /\ UNCHANGED <<state, Wire, IsOpen>> => UNCHANGED Lifecycle!vars
         /\ state = "Disconnected" /\ state' = "Connecting" /\ UNCHANGED <<Wire, IsOpen>> => Lifecycle!Call
         /\ state = "Connecting" /\ ~IsOpen /\ Wire # "up" /\ Wire' # "none" /\ IsOpen' /\ state' = state => Lifecycle!Open
         /\ state = "Connecting" /\ IsOpen /\ state' = "Connected" /\ ~IsOpen' /\ Wire' = Wire => Lifecycle!Ready
         /\ Wire = "up" /\ Wire' = "down" /\ UNCHANGED <<state, IsOpen>> => Lifecycle!Lose
         /\ state = "Connected" /\ Wire = "down" /\ state' = "Reconnecting" /\ UNCHANGED <<Wire, IsOpen>> => Lifecycle!Notice
         /\ state = "Reconnecting" /\ state' = "Connecting" /\ UNCHANGED <<Wire, IsOpen>> => Lifecycle!Retry
         /\ state \in {"Connecting", "Reconnecting"} /\ ~IsOpen /\ state' = "ConnectionError" /\ UNCHANGED <<Wire, IsOpen>>
              => Lifecycle!GiveUp
  <1>1. (IF SoleUser THEN state ELSE "Shared") = state /\ (IF SoleUser THEN state ELSE "Shared")' = state'
    OBVIOUS
  <1>2. /\ (IF ~SoleUser \/ tunnel = 0 THEN "none" ELSE IF link[tunnel] = "alive" THEN "up" ELSE "down") = Wire
        /\ (IF ~SoleUser \/ tunnel = 0 THEN "none" ELSE IF link[tunnel] = "alive" THEN "up" ELSE "down")' = Wire'
    BY DEF Wire
  <1>3. /\ (SoleUser /\ \E t \in Threads : pc[t] = "published") <=> IsOpen
        /\ (SoleUser /\ \E t \in Threads : pc[t] = "published")' <=> IsOpen'
    BY DEF IsOpen
  <1>4. Wire' \in {"none", "up", "down"}
    BY DEF Wire
  <1>5. IsOpen \in BOOLEAN /\ IsOpen' \in BOOLEAN
    BY DEF IsOpen
  <1>6. QED BY <1>1, <1>2, <1>3, <1>4, <1>5
           DEF Lifecycle!vars, Lifecycle!Call, Lifecycle!Open, Lifecycle!Ready, Lifecycle!Lose, Lifecycle!Notice,
               Lifecycle!Retry, Lifecycle!GiveUp

\* What the phases say of the threads and of the processes.
LEMMA SoleFacts ==
  ASSUME IInv, LeakInv, SoleInv, SoleUser
  PROVE  /\ cancelled \subseteq {1} /\ 1 \in Gens /\ 1 \in Threads /\ 1 \notin Callers
         /\ gens \in {0, 1} /\ \A m \in Gens : m # 1 => pc[m] = "unborn"
         /\ gens = 0 => pc[1] = "unborn" /\ \A m \in Gens : link[m] = "none"
         /\ torn.tunnel = 0 /\ \A t \in Threads : pc[t] \notin TearingDown
         /\ gens = 1 => \A m \in Gens : link[m] = "alive" => m = 1
  <1> USE ConstantsAssumption, GenIsThread DEF IInv, TypeOK
  <1>1. cancelled \subseteq {1} /\ 1 \in Gens /\ 1 \in Threads /\ 1 \notin Callers
    BY DEF SoleInv, Gens, Threads
  <1>2. gens \in {0, 1}
    BY DEF SoleInv, Fresh, FirstAttempt, Opened, FirstFailed, Watched, Retrying, Over
  <1>3. \A m \in Gens : m # 1 => pc[m] = "unborn"
    BY <1>2 DEF GenInv, Gens
  <1>4. gens = 0 => pc[1] = "unborn" /\ \A m \in Gens : link[m] = "none"
    BY <1>1 DEF GenInv, LeakInv, Gens
  <1>5. \A t \in Threads : pc[t] \notin TearingDown
    <2>1. connMu = NoThread \/ pc[connMu] \in Attempting
      BY DEF SoleInv, Fresh, FirstAttempt, Opened, FirstFailed, Watched, Retrying, Over, Attempting
    <2>2. Attempting \cap TearingDown = {}
      BY DEF Attempting, TearingDown
    <2>3. QED BY <2>1, <2>2 DEF LockInv
  <1>6. torn.tunnel = 0
    BY <1>5 DEF LeakInv, Threads
  <1>7. gens = 1 => \A m \in Gens : link[m] = "alive" => m = 1
    BY DEF LeakInv, Gens
  <1>8. QED BY <1>1, <1>2, <1>3, <1>4, <1>5, <1>6, <1>7

\* The first call of Connect starts the first attempt; a monitor's retry
\* starts under the context it cancels.
LEMMA BeginLife ==
  ASSUME IInv, IInv', LeakInv, SoleInv, SoleUser, SoleUser', NEW t \in Threads, Begin(t)
  PROVE  SoleInv' /\ [Lifecycle!Next]_Lifecycle!vars
  <1> USE ConstantsAssumption, GenIsThread DEF IInv, TypeOK
  <1>1. /\ connMu = NoThread /\ connMu' = t /\ pc[t] \in {"idle", "lock"} /\ pc' = [pc EXCEPT ![t] = "connecting"]
        /\ cancelled' = cancelled \cup ({cancel} \ {0}) /\ cancel' = 0
        /\ UNCHANGED <<state, tunnel, link, gens>>
    BY DEF Begin, Goto
  <1>2. pc'[t] = "connecting" /\ NoThread \notin Threads
    BY <1>1
  <1>3. UNCHANGED <<state, Wire, IsOpen>>
    <2>1. ~IsOpen /\ ~IsOpen'
      BY <1>1, <1>2, OpenedByHolder
    <2>2. Wire' = Wire
      BY <1>1 DEF Wire
    <2>3. IsOpen' = IsOpen
      BY <2>1 DEF IsOpen
    <2>4. QED BY <1>1, <2>2, <2>3
  <1>4. SoleInv'
    <2>1. CASE t \in Callers
      <3>1. connects = 0 /\ connects' = 1
        BY <2>1 DEF Begin, SoleUser
      <3>2. Fresh
        BY <3>1 DEF SoleInv, Fresh, FirstAttempt, Opened, FirstFailed, Watched, Retrying, Over
      <3>3. FirstAttempt' /\ cancelled' = cancelled
        BY <1>1, <1>2, <2>1, <3>1, <3>2 DEF Fresh, FirstAttempt, Attempting
      <3>4. QED BY <3>3 DEF SoleInv
    <2>2. CASE t \in Gens
      <3>1. pc[t] = "lock" /\ t = 1 /\ connects' = connects /\ gens = 1
        BY <2>2, SoleFacts DEF Begin
      <3>2. Watched /\ state = "Reconnecting" /\ link[1] = "dead"
        BY <1>1, <3>1 DEF SoleInv, Fresh, FirstAttempt, Opened, FirstFailed, Watched, Retrying, Over, Threads
      <3>3. Retrying' /\ cancelled' \subseteq {1}
        BY <1>1, <1>2, <3>1, <3>2 DEF Watched, Retrying
      <3>4. QED BY <3>3 DEF SoleInv
    <2>3. QED BY <2>1, <2>2 DEF Threads
  <1>5. QED BY <1>3, <1>4, SoleView

\* Losing the wire is the only thing that happens to it.
LEMMA DropLife ==
  ASSUME IInv, IInv', LeakInv, SoleInv, SoleUser, SoleUser', Drop
  PROVE  SoleInv' /\ [Lifecycle!Next]_Lifecycle!vars
  <1> USE ConstantsAssumption, GenIsThread DEF IInv, TypeOK
  <1>1. UNCHANGED <<state, tunnel, cancel, connMu, pc, seen, cancelled, gens, connects>>
    BY DEF Drop, rcVars
  <1>2. IsOpen' = IsOpen
    BY <1>1 DEF IsOpen
  <1>3. attempt'.link # "none" <=> attempt.link # "none"
    BY DEF Drop, Attempt
  <1>4. \/ link' = link
        \/ gens = 1 /\ link[1] = "alive" /\ link' = [link EXCEPT ![1] = "dead"]
    BY SoleFacts DEF Drop
  <1>5. 1 \in Gens /\ cancelled \subseteq {1}
    BY SoleFacts
  <1>6. SoleInv'
    <2>1. (Fresh => Fresh') /\ (FirstAttempt => FirstAttempt') /\ (FirstFailed => FirstFailed')
      BY <1>1, <1>3 DEF Fresh, FirstAttempt, FirstFailed
    <2>2. (Opened => Opened') /\ (Watched => Watched') /\ (Retrying => Retrying') /\ (Over => Over')
      BY <1>1, <1>4, <1>5 DEF Opened, Watched, Retrying, Over
    <2>3. QED BY <1>1, <1>5, <2>1, <2>2 DEF SoleInv
  <1>7. UNCHANGED <<state, Wire, IsOpen>> \/ (Wire = "up" /\ Wire' = "down" /\ UNCHANGED <<state, IsOpen>>)
    <2>1. CASE link' = link
      BY <1>1, <1>2, <2>1 DEF Wire
    <2>2. CASE gens = 1 /\ link[1] = "alive" /\ link' = [link EXCEPT ![1] = "dead"]
      <3>1. tunnel = 1
        BY <1>5, <2>2, SoleFacts DEF LeakInv
      <3>2. link'[1] = "dead"
        BY <1>5, <2>2
      <3>3. Wire = "up" /\ Wire' = "down"
        BY <1>1, <2>2, <3>1, <3>2 DEF Wire
      <3>4. QED BY <1>1, <1>2, <3>3
    <2>3. QED BY <1>4, <2>1, <2>2
  <1>8. QED BY <1>6, <1>7, SoleView DEF Lifecycle!Next

\* The monitor of a sole user's connection notices a loss, retries and gives up.
LEMMA MonitorLife ==
  ASSUME IInv, IInv', LeakInv, SoleInv, SoleUser, SoleUser', NEW m \in Gens, MonitorStep(m)
  PROVE  SoleInv' /\ [Lifecycle!Next]_Lifecycle!vars
  <1> USE ConstantsAssumption, GenIsThread DEF IInv, TypeOK
  <1>1. /\ pc[m] \in {"start", "watch", "lost", "loop", "backoff", "failed"}
        /\ \E l : pc' = [pc EXCEPT ![m] = l]
        /\ UNCHANGED <<connMu, tunnel, cancel, link, attempt, cancelled, gens, connects>>
    BY DEF MonitorStep, MonitorStart, MonitorCancelled, TunnelLost, SetReconnecting, NextAttempt,
           BackoffElapsed, AfterFailure, Goto, rcVars, budgets
  <1>2. m = 1 /\ gens = 1 /\ 1 \in Gens /\ 1 \in Threads /\ cancelled \subseteq {1} /\ 1 \notin Callers
    BY <1>1, SoleFacts
  <1>3. connMu = NoThread /\ (Watched \/ Over)
    <2>1. ~Retrying
      BY <1>1, <1>2 DEF Retrying
    <2>2. ~Opened
      BY <1>1, <1>2 DEF Opened, PublishInv, Threads
    <2>3. ~(Fresh \/ FirstAttempt \/ FirstFailed)
      BY <1>2 DEF Fresh, FirstAttempt, FirstFailed
    <2>4. QED BY <2>1, <2>2, <2>3 DEF SoleInv, Watched, Over
  <1>4. ~IsOpen /\ ~IsOpen' /\ IsOpen' = IsOpen
    <2>1. NoThread \notin Threads
      OBVIOUS
    <2>2. ~IsOpen /\ ~IsOpen'
      BY <1>1, <1>3, <2>1, OpenedByHolder
    <2>3. QED BY <2>2 DEF IsOpen
  <1>5. Wire' = Wire /\ (tunnel = 1 /\ link[1] = "dead" => Wire = "down")
    BY <1>1 DEF Wire
  <1>6. CASE Watched
    <2>1. 1 \notin cancelled /\ tunnel = 1 /\ connects = 1 /\ cancel = 1 /\ cancelled = {}
      BY <1>6 DEF Watched
    <2>2. CASE MonitorStart(m)
      <3>1. pc[1] = "start" /\ pc'[1] = "watch" /\ seen'[1] = 1 /\ state' = state
        BY <1>2, <2>1, <2>2 DEF MonitorStart, Goto, rcVars
      <3>2. Watched' /\ state' = state
        BY <1>1, <1>2, <1>3, <1>6, <2>1, <3>1 DEF Watched
      <3>3. QED BY <1>1, <1>2, <1>4, <1>5, <3>2, SoleView DEF SoleInv
    <2>3. CASE TunnelLost(m)
      <3>1. pc[1] = "watch" /\ pc'[1] = "lost" /\ state' = state /\ link[1] = "dead"
        BY <1>2, <1>6, <2>3 DEF TunnelLost, Goto, rcVars, Watched
      <3>2. Watched'
        BY <1>1, <1>2, <1>3, <1>6, <2>1, <3>1 DEF Watched
      <3>3. QED BY <1>1, <1>2, <1>4, <1>5, <3>1, <3>2, SoleView DEF SoleInv
    <2>4. CASE SetReconnecting(m)
      <3>1. pc[1] = "lost" /\ pc'[1] = "loop" /\ state' = "Reconnecting"
        BY <1>2, <2>4 DEF SetReconnecting, Goto
      <3>2. state = "Connected" /\ link[1] = "dead"
        BY <1>6, <3>1 DEF Watched
      <3>3. Watched'
        BY <1>1, <1>2, <1>3, <1>6, <2>1, <3>1, <3>2 DEF Watched
      <3>4. Lifecycle!Notice
        BY <1>4, <1>5, <2>1, <3>1, <3>2, SoleView
      <3>5. QED BY <1>1, <1>2, <3>3, <3>4 DEF SoleInv, Lifecycle!Next
    <2>5. CASE NextAttempt(m)
      <3>1. pc[1] = "loop" /\ state = "Reconnecting" /\ link[1] = "dead"
        BY <1>2, <1>6, <2>5 DEF NextAttempt, Watched
      <3>2. (pc'[1] = "backoff" /\ state' = state) \/ (pc'[1] = "done" /\ state' = "ConnectionError")
        BY <1>2, <2>5 DEF NextAttempt, Goto
      <3>3. Watched'
        BY <1>1, <1>2, <1>3, <1>6, <2>1, <3>1, <3>2 DEF Watched
      <3>4. [Lifecycle!Next]_Lifecycle!vars
        BY <1>4, <1>5, <3>1, <3>2, SoleView DEF Lifecycle!Next
      <3>5. QED BY <1>1, <1>2, <3>3, <3>4 DEF SoleInv
    <2>6. CASE BackoffElapsed(m)
      <3>1. pc[1] = "backoff" /\ pc'[1] = "lock" /\ state' = state
        BY <1>2, <2>6 DEF BackoffElapsed, Goto, rcVars
      <3>2. Watched'
        BY <1>1, <1>2, <1>3, <1>6, <2>1, <3>1 DEF Watched
      <3>3. QED BY <1>1, <1>2, <1>4, <1>5, <3>1, <3>2, SoleView DEF SoleInv
    <2>7. ~MonitorCancelled(m) /\ ~AfterFailure(m)
      BY <1>2, <1>6, <2>1 DEF MonitorCancelled, CtxDone, AfterFailure, Watched
    <2>8. QED BY <2>2, <2>3, <2>4, <2>5, <2>6, <2>7 DEF MonitorStep
  <1>7. CASE Over
    <2>a. pc[1] = "failed" /\ state = "ConnectionError"
      BY <1>1, <1>2, <1>7 DEF Over
    <2>1. AfterFailure(m)
      BY <1>2, <2>a DEF MonitorStep, MonitorStart, MonitorCancelled, TunnelLost, SetReconnecting,
         NextAttempt, BackoffElapsed
    <2>2. pc'[1] = "done" /\ state' = state
      BY <1>2, <2>1, <2>a DEF AfterFailure, Goto, rcVars
    <2>3. Over'
      BY <1>1, <1>2, <1>3, <1>7, <2>2, <2>a DEF Over
    <2>4. QED BY <1>1, <1>2, <1>4, <1>5, <2>2, <2>3, SoleView DEF SoleInv
  <1>8. QED BY <1>3, <1>6, <1>7

\* The first attempt opens a wire or gives up.
LEMMA FirstAttemptLife ==
  ASSUME IInv, IInv', LeakInv, SoleInv, SoleUser, SoleUser', FirstAttempt, NEW t \in Threads, AttemptStep(t)
  PROVE  SoleInv' /\ [Lifecycle!Next]_Lifecycle!vars
  <1> USE ConstantsAssumption, GenIsThread DEF IInv, TypeOK
  <1>1. connMu = t /\ t \in Callers /\ t # 1 /\ t # NoThread
    <2>1. connMu = t
      BY DEF AttemptStep, SetConnecting, Discover, StartDaemon, StartTunnel, CheckHealth, Publish, SetConnected
    <2>2. QED BY <2>1, SoleFacts DEF FirstAttempt
  <1>2. /\ connects = 1 /\ gens = 0 /\ tunnel = 0 /\ cancel = 0 /\ pc[t] # "published"
        /\ state = IF pc[t] = "connecting" THEN "Disconnected" ELSE "Connecting"
    BY <1>1 DEF FirstAttempt
  <1>3. 1 \in Gens /\ 1 \in Threads /\ cancelled \subseteq {1}
    BY SoleFacts
  <1>4. ~IsOpen /\ Wire = "none"
    BY <1>1, <1>2, OpenedByHolder DEF Wire
  <1>5. ASSUME NEW l \in Attempting \ {"published", "connecting"}, pc' = [pc EXCEPT ![t] = l],
               l \in {"health", "publish"} => attempt'.link # "none",
               state' = "Connecting", UNCHANGED <<tunnel, cancel, connMu, link, cancelled, gens, connects>>
        PROVE  SoleInv' /\ [Lifecycle!Next]_Lifecycle!vars
    <2>1. pc'[t] = l /\ l \in Attempting /\ l # "published" /\ l # "connecting"
      BY <1>5
    <2>2. FirstAttempt'
      BY <1>1, <1>2, <1>5, <2>1 DEF FirstAttempt
    <2>3. ~IsOpen' /\ IsOpen' = IsOpen
      <3>1. ~IsOpen'
        BY <1>1, <1>5, <2>1, OpenedByHolder
      <3>2. QED BY <1>4, <3>1 DEF IsOpen
    <2>4. Wire' = Wire
      BY <1>5 DEF Wire
    <2>5. [Lifecycle!Next]_Lifecycle!vars
      BY <1>2, <1>4, <1>5, <2>3, <2>4, SoleView DEF Lifecycle!Next
    <2>6. QED BY <1>3, <1>5, <2>2, <2>5 DEF SoleInv
  <1>6. ASSUME Fail(t), pc[t] # "connecting"
        PROVE  SoleInv' /\ [Lifecycle!Next]_Lifecycle!vars
    <2>1. /\ state' = "ConnectionError" /\ connMu' = NoThread
          /\ UNCHANGED <<tunnel, cancel, link, cancelled, gens, connects>>
      BY <1>6 DEF Fail, budgets
    <2>2. FirstFailed'
      BY <1>2, <2>1 DEF FirstFailed
    <2>3. IsOpen' = IsOpen
      <3>1. ~IsOpen'
        BY <2>1, OpenedByHolder
      <3>2. QED BY <1>4, <3>1 DEF IsOpen
    <2>4. Wire' = Wire
      BY <2>1 DEF Wire
    <2>5. Lifecycle!GiveUp
      BY <1>2, <1>4, <1>6, <2>1, <2>3, <2>4, SoleView
    <2>6. QED BY <1>3, <2>1, <2>2, <2>5 DEF SoleInv, Lifecycle!Next
  <1>7. ASSUME NEW l \in Attempting \ {"published", "connecting"}, NEW a, Advance(t, l, a), pc[t] # "connecting",
               l \in {"health", "publish"} => a.link # "none"
        PROVE  SoleInv' /\ [Lifecycle!Next]_Lifecycle!vars
    <2>1. /\ pc' = [pc EXCEPT ![t] = l] /\ attempt' = a /\ state' = "Connecting"
          /\ UNCHANGED <<tunnel, cancel, connMu, link, cancelled, gens, connects>>
      BY <1>2, <1>7 DEF Advance, Goto, rcVars, budgets
    <2>2. QED BY <1>5, <1>7, <2>1
  <1>8. CASE SetConnecting(t)
    <2>1. /\ pc' = [pc EXCEPT ![t] = "discover"] /\ state' = "Connecting"
          /\ UNCHANGED <<tunnel, cancel, connMu, link, cancelled, gens, connects>>
      BY <1>8 DEF SetConnecting, Goto, budgets
    <2>2. "discover" \in Attempting \ {"published", "connecting"}
      BY DEF Attempting
    <2>3. QED BY <1>5, <2>1, <2>2
  <1>9. CASE Discover(t)
    <2>1. PICK l \in {"startTunnel", "startDaemon"} : pc' = [pc EXCEPT ![t] = l]
      BY <1>9 DEF Discover, Goto
    <2>2. state' = "Connecting" /\ UNCHANGED <<tunnel, cancel, connMu, link, cancelled, gens, connects>>
      BY <1>2, <1>9 DEF Discover, rcVars, budgets
    <2>3. l \in Attempting \ {"published", "connecting"} /\ l \notin {"health", "publish"}
      BY DEF Attempting
    <2>4. QED BY <1>5, <2>1, <2>2, <2>3
  <1>10. CASE StartDaemon(t)
    BY <1>6, <1>7, <1>10 DEF StartDaemon, Attempting
  <1>11. CASE StartTunnel(t)
    <2>1. [attempt EXCEPT !.link = "alive"].link # "none"
      BY DEF Attempt
    <2>2. QED BY <1>6, <1>7, <1>11, <2>1 DEF StartTunnel, Attempting
  <1>12. CASE CheckHealth(t)
    BY <1>6, <1>7, <1>12 DEF CheckHealth, Attempting
  <1>13. CASE Publish(t)
    <2>1. /\ pc[t] = "publish" /\ pc'[t] = "published" /\ gens' = 1 /\ tunnel' = 1 /\ cancel' = 1
          /\ link'[1] = attempt.link
          /\ UNCHANGED <<state, connMu, cancelled, connects>>
      BY <1>2, <1>3, <1>13 DEF Publish, Goto, budgets
    <2>2. state = "Connecting" /\ attempt.link # "none" /\ cancelled = {}
      BY <1>1, <1>2, <1>3, <2>1 DEF FirstAttempt, GenInv
    <2>3. Opened'
      BY <1>1, <1>2, <2>1, <2>2 DEF Opened
    <2>4. IsOpen' /\ Wire' # "none"
      BY <2>1 DEF IsOpen, Wire
    <2>5. Lifecycle!Open
      BY <1>4, <2>1, <2>2, <2>4, SoleView
    <2>6. QED BY <1>3, <2>1, <2>3, <2>5 DEF SoleInv, Lifecycle!Next
  <1>14. ~SetConnected(t)
    BY <1>2 DEF SetConnected
  <1>15. QED BY <1>8, <1>9, <1>10, <1>11, <1>12, <1>13, <1>14 DEF AttemptStep

\* A wire that was opened makes the connection ready.
LEMMA OpenedLife ==
  ASSUME IInv, IInv', LeakInv, SoleInv, SoleUser, SoleUser', Opened, NEW t \in Threads, AttemptStep(t)
  PROVE  SoleInv' /\ [Lifecycle!Next]_Lifecycle!vars
  <1> USE ConstantsAssumption, GenIsThread DEF IInv, TypeOK
  <1>1. connMu = t
    BY DEF AttemptStep, SetConnecting, Discover, StartDaemon, StartTunnel, CheckHealth, Publish, SetConnected
  <1>2. pc[t] = "published" /\ t \in Callers
    BY <1>1 DEF Opened
  <1>3. SetConnected(t)
    BY <1>2 DEF AttemptStep, SetConnecting, Discover, StartDaemon, StartTunnel, CheckHealth, Publish
  <1>4. 1 \in Gens /\ 1 \in Threads /\ 1 \notin Callers
    BY SoleFacts
  <1>5. /\ state' = "Connected" /\ connMu' = NoThread /\ pc'[1] = "start"
        /\ UNCHANGED <<tunnel, cancel, link, cancelled, gens, connects>>
    BY <1>2, <1>3, <1>4 DEF SetConnected, Opened, budgets
  <1>6. Watched'
    BY <1>5 DEF Opened, Watched
  <1>7. IsOpen /\ ~IsOpen' /\ state = "Connecting" /\ Wire' = Wire
    <2>1. IsOpen
      BY <1>2 DEF IsOpen
    <2>2. ~IsOpen'
      BY <1>5, OpenedByHolder
    <2>3. QED BY <1>5, <2>1, <2>2 DEF Opened, Wire
  <1>8. Lifecycle!Ready
    BY <1>5, <1>7, SoleView
  <1>9. QED BY <1>5, <1>6, <1>8, SoleFacts DEF SoleInv, Lifecycle!Next

\* The monitor's attempt runs under a context that is done, so it gives up.
LEMMA RetryLife ==
  ASSUME IInv, IInv', LeakInv, SoleInv, SoleUser, SoleUser', Retrying, NEW t \in Threads, AttemptStep(t)
  PROVE  SoleInv' /\ [Lifecycle!Next]_Lifecycle!vars
  <1> USE ConstantsAssumption, GenIsThread DEF IInv, TypeOK
  <1>1. connMu = t
    BY DEF AttemptStep, SetConnecting, Discover, StartDaemon, StartTunnel, CheckHealth, Publish, SetConnected
  <1>2. t = 1 /\ pc[1] \in {"connecting", "discover", "startDaemon"} /\ tunnel = 1 /\ link[1] = "dead"
    BY <1>1 DEF Retrying
  <1>3. 1 \in Gens /\ 1 \in Threads /\ 1 \notin Callers /\ cancelled \subseteq {1} /\ NoThread \notin Threads
    BY SoleFacts
  <1>4. CtxDone(1)
    BY DEF Retrying, CtxDone
  <1>5. ~IsOpen
    BY <1>1, <1>2, OpenedByHolder
  <1>6. ASSUME pc'[1] \in {"discover", "startDaemon"}, state' = "Connecting",
               UNCHANGED <<tunnel, cancel, connMu, link, cancelled, gens, connects>>
        PROVE  SoleInv' /\ IsOpen' = IsOpen /\ Wire' = Wire
    <2>1. Retrying'
      BY <1>6 DEF Retrying
    <2>2. ~IsOpen'
      BY <1>1, <1>2, <1>6, OpenedByHolder
    <2>3. IsOpen' = IsOpen
      BY <1>5, <2>2 DEF IsOpen
    <2>4. QED BY <1>3, <1>6, <2>1, <2>3 DEF SoleInv, Wire
  <1>7. CASE SetConnecting(t)
    <2>1. /\ pc[1] = "connecting" /\ pc'[1] = "discover" /\ state' = "Connecting"
          /\ UNCHANGED <<tunnel, cancel, connMu, link, cancelled, gens, connects>>
      BY <1>2, <1>3, <1>7 DEF SetConnecting, Goto, budgets
    <2>2. state = "Reconnecting"
      BY <2>1 DEF Retrying
    <2>3. QED BY <1>6, <2>1, <2>2, SoleView DEF Lifecycle!Next
  <1>8. CASE Discover(t)
    <2>1. /\ pc[1] = "discover" /\ pc'[1] = "startDaemon" /\ state' = state
          /\ UNCHANGED <<tunnel, cancel, connMu, link, cancelled, gens, connects>>
      BY <1>2, <1>3, <1>4, <1>8 DEF Discover, MaySucceed, Goto, rcVars, budgets
    <2>2. state = "Connecting"
      BY <2>1 DEF Retrying
    <2>3. QED BY <1>6, <2>1, <2>2, SoleView
  <1>9. CASE StartDaemon(t)
    <2>1. pc[1] = "startDaemon" /\ Fail(1)
      BY <1>2, <1>4, <1>9 DEF StartDaemon, MaySucceed
    <2>2. /\ pc'[1] = "failed" /\ state' = "ConnectionError" /\ connMu' = NoThread
          /\ UNCHANGED <<tunnel, cancel, link, cancelled, gens, connects>>
      BY <1>3, <2>1 DEF Fail, Goto, budgets
    <2>3. Over' /\ state = "Connecting"
      BY <2>1, <2>2 DEF Retrying, Over
    <2>4. IsOpen' = IsOpen
      <3>1. ~IsOpen'
        BY <1>3, <2>2, OpenedByHolder
      <3>2. QED BY <1>5, <3>1 DEF IsOpen
    <2>5. Wire' = Wire
      BY <2>2 DEF Wire
    <2>6. Lifecycle!GiveUp
      BY <1>5, <2>2, <2>3, <2>4, <2>5, SoleView
    <2>7. QED BY <1>3, <2>2, <2>3, <2>6 DEF SoleInv, Lifecycle!Next
  <1>10. ~(StartTunnel(t) \/ CheckHealth(t) \/ Publish(t) \/ SetConnected(t))
    BY <1>2 DEF StartTunnel, CheckHealth, Publish, SetConnected
  <1>11. QED BY <1>7, <1>8, <1>9, <1>10 DEF AttemptStep

\* Every step of a sole user is a step of the life cycle, or none.
LEMMA SoleStep ==
  ASSUME IInv, IInv', LeakInv, SoleInv, SoleUser, SoleUser', Next
  PROVE  SoleInv' /\ [Lifecycle!Next]_Lifecycle!vars
  <1>1. ASSUME NEW t \in Threads, AttemptStep(t) PROVE SoleInv' /\ [Lifecycle!Next]_Lifecycle!vars
    <2>1. connMu = t
      BY <1>1 DEF AttemptStep, SetConnecting, Discover, StartDaemon, StartTunnel, CheckHealth, Publish, SetConnected
    <2>2. t # NoThread
      BY ConstantsAssumption
    <2>3. FirstAttempt \/ Opened \/ Retrying
      BY <2>1, <2>2 DEF SoleInv, Fresh, FirstFailed, Watched, Over
    <2>4. QED BY <1>1, <2>3, FirstAttemptLife, OpenedLife, RetryLife
  <1>2. ASSUME NEW c \in Callers PROVE ~TakeDown(c) /\ ~DisconnectStep(c)
    <2>1. disconnects = 0 /\ disconnects' = 0
      BY DEF SoleUser
    <2>2. c \in Threads
      BY DEF Threads
    <2>3. pc[c] \notin TearingDown
      BY <2>2, SoleFacts
    <2>4. QED BY <2>1, <2>3 DEF TakeDown, DisconnectStep, CancelMonitor, StopTunnel, SetDisconnected, TearingDown
  <1>3. QED BY <1>1, <1>2, BeginLife, MonitorLife, DropLife DEF Next

\* Calls are only ever added, so a sole user was one before.
LEMMA SoleBefore ==
  ASSUME TypeOK, Next, SoleUser'
  PROVE  SoleUser
  <1> USE ConstantsAssumption DEF TypeOK
  <1>1. connects' \in {connects, connects + 1} /\ disconnects' \in {disconnects, disconnects + 1}
    BY DEF Next, Begin, AttemptStep, SetConnecting, Discover, StartDaemon, StartTunnel, CheckHealth, Publish, SetConnected,
       Fail, Advance, TakeDown, DisconnectStep, CancelMonitor, StopTunnel, SetDisconnected, MonitorStep, MonitorStart,
       MonitorCancelled, TunnelLost, SetReconnecting, NextAttempt, BackoffElapsed, AfterFailure, Drop, budgets
  <1>2. QED BY <1>1 DEF SoleUser

\* For every number of callers, connections, losses and retries the code is
\* an implementation of the safety part of the life cycle: until somebody
\* else uses the object, a loss is the only way into Reconnecting, an opened
\* wire the only way into Connected, and only a success or giving up ends an
\* attempt.
THEOREM LifecycleIsFollowed == Spec => Lifecycle!Spec
  <1> USE ConstantsAssumption, GenIsThread
  <1>1. Init => IInv /\ LeakInv /\ SoleInv
    <2> SUFFICES ASSUME Init PROVE LeakInv /\ SoleInv
      BY InitIInv
    <2>1. LeakInv
      BY InitLeak
    <2>2. Fresh /\ cancelled = {}
      BY DEF Init, Fresh
    <2>3. QED BY <2>1, <2>2 DEF SoleInv
  <1>2. Init => Lifecycle!Init
    <2> SUFFICES ASSUME Init PROVE Lifecycle!Init
      OBVIOUS
    <2>1. SoleUser /\ tunnel = 0 /\ state = "Disconnected"
      BY DEF Init, SoleUser
    <2>2. \A t \in Threads : pc[t] # "published"
      BY DEF Init
    <2>3. QED BY <2>1, <2>2 DEF Lifecycle!Init
  <1>3. IInv /\ LeakInv /\ SoleInv /\ [Next]_vars => IInv' /\ LeakInv' /\ SoleInv' /\ [Lifecycle!Next]_Lifecycle!vars
    <2> SUFFICES ASSUME IInv, LeakInv, SoleInv, [Next]_vars
                 PROVE  SoleInv' /\ [Lifecycle!Next]_Lifecycle!vars
      BY NextIInv, NextLeak
    <2>1. IInv'
      BY NextIInv
    <2>2. CASE UNCHANGED vars
      <3>1. SoleInv'
        BY <2>2 DEF vars, rcVars, budgets, SoleInv, SoleUser, Fresh, FirstAttempt, Opened, FirstFailed, Watched,
           Retrying, Over
      <3>2. UNCHANGED Lifecycle!vars
        BY <2>2 DEF vars, rcVars, budgets, Lifecycle!vars, SoleUser
      <3>3. QED BY <3>1, <3>2
    <2>3. CASE Next /\ SoleUser'
      <3>1. SoleUser
        BY <2>1, <2>3, SoleBefore DEF IInv
      <3>2. QED BY <2>1, <2>3, <3>1, SoleStep
    <2>4. CASE ~SoleUser'
      <3>1. SoleInv'
        BY <2>4 DEF SoleInv
      <3>2. CASE SoleUser
        <4>1. state # "Shared"
          BY DEF IInv, TypeOK, States
        <4>2. QED BY <2>4, <3>1, <3>2, <4>1 DEF Lifecycle!Next, Lifecycle!TakeOver
      <3>3. CASE ~SoleUser
        BY <2>4, <3>1, <3>3 DEF Lifecycle!vars
      <3>4. QED BY <3>2, <3>3
    <2>5. QED BY <2>2, <2>3, <2>4
  <1>4. QED BY <1>1, <1>2, <1>3, PTL DEF Spec, Lifecycle!Spec
=============================================================================
