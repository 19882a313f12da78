------------------------- MODULE RemoteSessionsProofs -------------------------
(***************************************************************************)
(* RemoteSessions for any number of jobs, sessions, dialogs and losses:    *)
(* types; a command that EnsureConnected let through finds a provider; a   *)
(* creation leaves the sidebar only for a reason its user can see; and,    *)
(* without the dialog, no session is mirrored twice.                       *)
(***************************************************************************)
EXTENDS RemoteSessions, TLAPS

USE DEF hostVars, placeVars, mirrorVars, storeVars, remoteVars, sweepVars

-----------------------------------------------------------------------------
(* Types                                                                   *)

LEMMA GotoType ==
  ASSUME NEW j \in Jobs, NEW label \in Labels, pc \in [Jobs -> Labels], Goto(j, label)
  PROVE  pc' \in [Jobs -> Labels]
  BY DEF Goto

LEMMA StartOpType ==
  ASSUME NEW j \in Jobs, NEW kind \in Ops, NEW label \in Labels,
         pc \in [Jobs -> Labels], op \in [Jobs -> Ops], StartOp(j, kind, label)
  PROVE  pc' \in [Jobs -> Labels] /\ op' \in [Jobs -> Ops]
  BY GotoType DEF StartOp

\* Counting up or down from a natural number, never below zero.
LEMMA CountType ==
  ASSUME NEW f \in [Sessions -> Nat], NEW x
  PROVE  /\ [f EXCEPT ![x] = @ + 1] \in [Sessions -> Nat]
         /\ [f EXCEPT ![x] = IF @ = 1 THEN 0 ELSE @] \in [Sessions -> Nat]
         /\ [f EXCEPT ![x] = IF @ = 0 THEN 0 ELSE @ - 1] \in [Sessions -> Nat]
  <1>1. \A s \in Sessions : f[s] + 1 \in Nat /\ (IF f[s] = 0 THEN 0 ELSE f[s] - 1) \in Nat
    OBVIOUS
  <1>2. QED BY <1>1

LEMMA AddWindowType ==
  ASSUME TypeOK, NEW j \in Jobs, NEW from, NEW made \in Labels, NEW failed \in Labels,
         AddWindow(j, from, made, failed)
  PROVE  pc' \in [Jobs -> Labels] /\ windows' \in [Sessions -> Nat]
  BY CountType, GotoType DEF TypeOK, AddWindow

LEMMA AddRecordType ==
  ASSUME TypeOK, NEW j \in Jobs, NEW from, NEW next \in Labels, AddRecord(j, from, next)
  PROVE  pc' \in [Jobs -> Labels] /\ records' \in [Sessions -> Nat] /\ status' \in [Sessions -> Statuses]
  <1>1. records' \in [Sessions -> Nat] /\ pc' \in [Jobs -> Labels]
    BY CountType, GotoType DEF TypeOK, AddRecord
  <1>2. status' \in [Sessions -> Statuses]
    BY DEF TypeOK, AddRecord, Statuses
  <1>3. QED BY <1>1, <1>2

\* One record less.
LEMMA ForgetType ==
  ASSUME TypeOK, NEW s, Forget(s)
  PROVE  records' \in [Sessions -> Nat] /\ status' \in [Sessions -> Statuses] /\ left' \subseteq Sessions
  <1>1. "running" \in Statuses
    BY DEF Statuses
  <1>2. records' \in [Sessions -> Nat]
    BY CountType DEF TypeOK, Forget
  <1>3. QED BY <1>1, <1>2 DEF TypeOK, Forget

LEMMA NextTypeOK == TypeOK /\ [Next]_vars => TypeOK'
  <1> SUFFICES ASSUME TypeOK, [Next]_vars PROVE TypeOK'
    OBVIOUS
  <1> USE ConstantsAssumption DEF TypeOK
  <1>1. CASE UNCHANGED vars
    BY <1>1 DEF vars
  <1>2. ASSUME NEW j \in Jobs, Create(j) PROVE TypeOK'
    BY <1>2, StartOpType DEF Create, Ops, Labels, Statuses
  <1>3. ASSUME NEW j \in Jobs, Command(j) PROVE TypeOK'
    BY <1>3, StartOpType DEF Command, Ops, Labels
  <1>4. ASSUME NEW j \in Jobs, Dialog(j) PROVE TypeOK'
    <2>1. dials' \in 0 .. visit'.dials
      BY <1>4 DEF Dialog
    <2>2. QED BY <1>4, <2>1, StartOpType DEF Dialog, Ops, Labels
  <1>5. ASSUME NEW j \in Jobs, DeletePlaceholder(j) PROVE TypeOK'
    BY <1>5 DEF DeletePlaceholder, Entries
  <1>6. ASSUME NEW j \in Jobs, Drop(j) PROVE TypeOK'
    <2>1. drops' \in 0 .. visit'.drops
      BY <1>6 DEF Drop
    <2>2. QED BY <1>6, <2>1 DEF Drop
  <1>7. ASSUME NEW j \in Jobs, NEW s \in Sessions, Delete(j, s) PROVE TypeOK'
    BY <1>7, StartOpType DEF Delete, Ops, Labels, Entries
  <1>8. ASSUME NEW j \in Jobs, Ensure(j) PROVE TypeOK'
    BY <1>8, GotoType DEF Ensure, AfterEnsure, Labels
  <1>9. ASSUME NEW j \in Jobs, Dial(j) PROVE TypeOK'
    BY <1>9, GotoType DEF Dial, AfterDialFailed, AfterEnsure, Labels
  <1>10. ASSUME NEW j \in Jobs, AddRemote(j) PROVE TypeOK'
    BY <1>10, GotoType DEF AddRemote, Labels
  <1>11. ASSUME NEW j \in Jobs, Show(j) PROVE TypeOK'
    BY <1>11, GotoType DEF Show, Labels
  <1>12. ASSUME NEW j \in Jobs, List(j) PROVE TypeOK'
    BY <1>12, GotoType DEF List, Labels
  <1>13. ASSUME NEW j \in Jobs, RestoreNext(j) PROVE TypeOK'
    BY <1>13, GotoType DEF RestoreNext, Labels
  <1>14. ASSUME NEW j \in Jobs, RestoreWindow(j) PROVE TypeOK'
    <2>1. pc' \in [Jobs -> Labels] /\ windows' \in [Sessions -> Nat]
      BY <1>14, AddWindowType DEF RestoreWindow, Labels
    <2>2. QED BY <1>14, <2>1 DEF RestoreWindow, AddWindow
  <1>15. ASSUME NEW j \in Jobs, RestoreRecord(j) PROVE TypeOK'
    <2>1. pc' \in [Jobs -> Labels] /\ records' \in [Sessions -> Nat] /\ status' \in [Sessions -> Statuses]
      BY <1>15, AddRecordType DEF RestoreRecord, Labels
    <2>2. QED BY <1>15, <2>1 DEF RestoreRecord, AddRecord
  <1>16. ASSUME NEW j \in Jobs, StartStream(j) PROVE TypeOK'
    BY <1>16, GotoType DEF StartStream, Labels
  <1>17. ASSUME NEW j \in Jobs, Connected(j) PROVE TypeOK'
    BY <1>17, GotoType DEF Connected, AfterDial, AfterEnsure, MarkConnected, Labels
  <1>18. ASSUME NEW j \in Jobs, Call(j) PROVE TypeOK'
    BY <1>18, GotoType DEF Call, Labels
  <1>19. ASSUME NEW j \in Jobs, CreateMirror(j) PROVE TypeOK'
    BY <1>19, GotoType DEF CreateMirror, Labels
  <1>20. ASSUME NEW j \in Jobs, MirrorWindow(j) PROVE TypeOK'
    <2>1. pc' \in [Jobs -> Labels] /\ windows' \in [Sessions -> Nat]
      BY <1>20, AddWindowType DEF MirrorWindow, Labels
    <2>2. QED BY <1>20, <2>1 DEF MirrorWindow, AddWindow
  <1>21. ASSUME NEW j \in Jobs, MirrorRecord(j) PROVE TypeOK'
    <2>1. pc' \in [Jobs -> Labels] /\ records' \in [Sessions -> Nat] /\ status' \in [Sessions -> Statuses]
      BY <1>21, AddRecordType DEF MirrorRecord, Labels
    <2>2. QED BY <1>21, <2>1 DEF MirrorRecord, AddRecord
  <1>22. ASSUME NEW j \in Jobs, Finish(j) PROVE TypeOK'
    BY <1>22, GotoType DEF Finish, Labels
  <1>23. ASSUME NEW j \in Jobs, FailPlaceholder(j) PROVE TypeOK'
    BY <1>23, GotoType DEF FailPlaceholder, Labels, Statuses, Entries
  <1>24. ASSUME NEW j \in Jobs, OpenErrorWindow(j) PROVE TypeOK'
    BY <1>24, GotoType DEF OpenErrorWindow, Labels
  <1>25. ASSUME NEW j \in Jobs, KillMirror(j) PROVE TypeOK'
    <2>1. windows' \in [Sessions -> Nat] /\ exited' \subseteq Sessions
      BY <1>25 DEF KillMirror, LeaveWindows
    <2>2. QED BY <1>25, <2>1, GotoType DEF KillMirror, Labels
  <1>26. ASSUME NEW j \in Jobs, RemoveRecord(j) PROVE TypeOK'
    <2>1. records' \in [Sessions -> Nat] /\ status' \in [Sessions -> Statuses] /\ left' \subseteq Sessions
      BY <1>26, ForgetType DEF RemoveRecord
    <2>2. QED BY <1>26, <2>1, GotoType DEF RemoveRecord, Labels
  <1>27. ASSUME NEW j \in Jobs, Purge(j) PROVE TypeOK'
    BY <1>27, StartOpType DEF Purge, Ops, Labels, Entries
  <1>28. ASSUME NEW j \in Jobs, PurgeNext(j) PROVE TypeOK'
    <2>1. ASSUME NEW e \in Sessions, Forget(e)
          PROVE  records' \in [Sessions -> Nat] /\ status' \in [Sessions -> Statuses] /\ left' \subseteq Sessions
      BY <2>1, ForgetType
    <2>2. pc' \in [Jobs -> Labels] /\ purging' \in [Jobs -> SUBSET Entries] /\ excused' \subseteq Entries
      BY <1>28, GotoType DEF PurgeNext, Labels, Entries
    <2>3. /\ records' \in [Sessions -> Nat] /\ status' \in [Sessions -> Statuses] /\ left' \subseteq Sessions
          /\ placeholder' \in [Jobs -> Statuses \cup {"none"}]
      BY <1>28, <2>1 DEF PurgeNext
    <2>4. QED BY <1>28, <2>2, <2>3 DEF PurgeNext
  <1>29. CASE SyncList
    <2>1. sweeps' \in 0 .. visit'.sweeps
      BY <1>29 DEF SyncList
    <2>2. QED BY <1>29, <2>1 DEF SyncList, Entries
  <1>30. CASE SyncApply
    <2>1. placeholder' \in [Jobs -> Statuses \cup {"none"}]
      BY <1>30 DEF SyncApply, SyncedPlaceholder, Statuses
    <2>2. QED BY <1>30, <2>1 DEF SyncApply
  <1>31. CASE SyncWithout \/ Snapshot \/ CollectEnd
    BY <1>31 DEF SyncWithout, Snapshot, CollectEnd, Entries
  <1>32. ASSUME NEW e \in Entries, Collect(e) PROVE TypeOK'
    <2>1. CASE e \in Jobs /\ CollectPlaceholder(e)
      BY <1>32, <2>1 DEF Collect, CollectPlaceholder
    <2>2. CASE e \in Sessions /\ CollectSession(e)
      <3>1. records' \in [Sessions -> Nat] /\ status' \in [Sessions -> Statuses] /\ left' \subseteq Sessions
        BY <2>2, ForgetType DEF CollectSession
      <3>2. windows' \in [Sessions -> Nat] /\ exited' \subseteq Sessions
        BY <2>2 DEF CollectSession, LeaveWindows
      <3>3. QED BY <1>32, <2>2, <3>1, <3>2 DEF Collect, CollectSession
    <2>3. QED BY <1>32, <2>1, <2>2 DEF Collect
  <1>33. ASSUME NEW s \in Sessions, MirrorExits(s) PROVE TypeOK'
    <2>1. drops' \in 0 .. visit'.drops /\ windows' \in [Sessions -> Nat]
      BY <1>33 DEF MirrorExits
    <2>2. QED BY <1>33, <2>1 DEF MirrorExits, Entries
  <1>34. ASSUME NEW j \in Jobs, CloseErrorWindow(j) PROVE TypeOK'
    BY <1>34 DEF CloseErrorWindow
  <1>35. QED
    BY <1>27, <1>28, <1>29, <1>30, <1>31, <1>32, <1>33, <1>34,
       <1>1, <1>2, <1>3, <1>4, <1>5, <1>6, <1>7, <1>8, <1>9, <1>10, <1>11, <1>12, <1>13, <1>14,
       <1>15, <1>16, <1>17, <1>18, <1>19, <1>20, <1>21, <1>22, <1>23, <1>24, <1>25, <1>26
    DEF Next, Work, Collector

LEMMA InitTypeOK == Init => TypeOK
  BY ConstantsAssumption DEF Init, TypeOK, Ops, Labels, Statuses

\* The steps that no job takes.
Background == Collector \/ (\E s \in Sessions : MirrorExits(s)) \/ \E j \in Jobs : CloseErrorWindow(j)

LEMMA BackgroundFrame ==
  Background => UNCHANGED <<op, pc, target, listed, purging, hostVars, remoteVars, dials>>
  BY DEF Background, Collector, SyncList, SyncApply, SyncWithout, Snapshot, Collect, CollectEnd, MirrorExits, CloseErrorWindow

\* Every variable of the model keeps its type.
THEOREM TypeCorrect == Spec => []TypeOK
  BY InitTypeOK, NextTypeOK, PTL DEF Spec

-----------------------------------------------------------------------------
(* A command that EnsureConnected let through finds a provider             *)

\* Where a pipeline or a command is once its host has a provider.
Routed == {"show", "list", "restore", "restoreWindow", "restoreRecord", "stream", "connected", "call"}

\* Strengthens EnsuredIsRoutable: the result of the once and the pipelines
\* behind AddRemote all stand for a registered provider.
Routable ==
  /\ lazy = "ok" => provider # NoJob
  /\ \A j \in Jobs : pc[j] \in Routed => provider # NoJob

\* A step that keeps the provider and the once and moves one job keeps
\* Routable when the job does not come among the routed.
LEMMA RoutableFrame ==
  ASSUME TypeOK, Routable, NEW j \in Jobs, NEW label, Goto(j, label),
         label \notin Routed \/ pc[j] \in Routed \/ lazy = "ok",
         UNCHANGED <<provider, lazy>>
  PROVE  Routable'
  BY DEF TypeOK, Routable, Goto

LEMMA NextRoutable == TypeOK /\ Routable /\ [Next]_vars => Routable'
  <1> SUFFICES ASSUME TypeOK, Routable, [Next]_vars PROVE Routable'
    OBVIOUS
  <1>1. CASE UNCHANGED vars
    BY <1>1 DEF Routable, vars
  <1>2. ASSUME NEW j \in Jobs, Create(j) \/ Command(j) \/ Dialog(j) \/ Purge(j) \/ \E s \in Sessions : Delete(j, s)
        PROVE  Routable'
    <2>1. PICK label \in {"ensure", "dial", "done", "killMirror", "purge"} : Goto(j, label)
      BY <1>2 DEF Create, Command, Dialog, Purge, Delete, StartOp
    <2>2. UNCHANGED <<provider, lazy>>
      BY <1>2 DEF Create, Command, Dialog, Purge, Delete
    <2>3. QED BY <2>1, <2>2, RoutableFrame DEF Routed
  <1>3. ASSUME NEW j \in Jobs, DeletePlaceholder(j) \/ Drop(j) PROVE Routable'
    BY <1>3 DEF DeletePlaceholder, Drop, Routable
  <1>4. ASSUME NEW j \in Jobs, Ensure(j) PROVE Routable'
    BY <1>4 DEF TypeOK, Ensure, AfterEnsure, At, Goto, Routable, Routed
  <1>5. ASSUME NEW j \in Jobs, Dial(j) PROVE Routable'
    BY <1>5 DEF TypeOK, Dial, AfterDialFailed, AfterEnsure, At, Goto, Routable, Routed
  <1>6. ASSUME NEW j \in Jobs, AddRemote(j) PROVE Routable'
    <2>1. provider' # NoJob
      BY <1>6, ConstantsAssumption DEF AddRemote
    <2>2. QED BY <2>1 DEF Routable
  <1>7. ASSUME NEW j \in Jobs, RestoreNext(j) PROVE Routable'
    <2>1. UNCHANGED <<provider, lazy>>
      BY <1>7 DEF RestoreNext
    <2>2. CASE UNCHANGED pc
      BY <2>1, <2>2 DEF Routable
    <2>3. CASE Goto(j, "stream") \/ Goto(j, "restoreWindow")
      BY <1>7, <2>1, <2>3, RoutableFrame DEF RestoreNext, At, Routed
    <2>4. QED BY <1>7, <2>2, <2>3 DEF RestoreNext
  <1>8. ASSUME NEW j \in Jobs, Show(j) \/ List(j) \/ RestoreWindow(j) \/ RestoreRecord(j) \/ StartStream(j)
        PROVE  Routable'
    <2>1. pc[j] \in Routed /\ UNCHANGED <<provider, lazy>>
      BY <1>8 DEF Show, List, RestoreWindow, RestoreRecord, AddWindow, AddRecord, StartStream, At, Routed
    <2>2. PICK label : Goto(j, label)
      BY <1>8 DEF Show, List, RestoreWindow, RestoreRecord, AddWindow, AddRecord, StartStream
    <2>3. QED BY <2>1, <2>2, RoutableFrame
  <1>9. ASSUME NEW j \in Jobs, Connected(j) PROVE Routable'
    <2>1. provider # NoJob /\ UNCHANGED provider
      BY <1>9 DEF Connected, At, Routable, Routed
    <2>2. QED BY <2>1 DEF Routable
  <1>10. ASSUME NEW j \in Jobs,
                \/ Call(j) \/ CreateMirror(j) \/ MirrorWindow(j) \/ MirrorRecord(j) \/ Finish(j)
                \/ FailPlaceholder(j) \/ OpenErrorWindow(j) \/ KillMirror(j) \/ RemoveRecord(j)
         PROVE  Routable'
    <2>1. UNCHANGED <<provider, lazy>>
      BY <1>10 DEF Call, CreateMirror, MirrorWindow, MirrorRecord, AddWindow, AddRecord, Finish,
                   FailPlaceholder, OpenErrorWindow, KillMirror, RemoveRecord
    <2>2. PICK label \in Labels \ Routed : Goto(j, label)
      BY <1>10 DEF Call, CreateMirror, MirrorWindow, MirrorRecord, AddWindow, AddRecord, Finish,
                   FailPlaceholder, OpenErrorWindow, KillMirror, RemoveRecord, Labels, Routed
    <2>3. QED BY <2>1, <2>2, RoutableFrame
  <1>11. ASSUME NEW j \in Jobs, PurgeNext(j) PROVE Routable'
    <2>1. UNCHANGED <<provider, lazy>>
      BY <1>11 DEF PurgeNext
    <2>2. UNCHANGED pc \/ Goto(j, "done")
      BY <1>11 DEF PurgeNext
    <2>3. QED BY <2>1, <2>2, RoutableFrame DEF Routable, Routed
  <1>12. CASE Background
    BY <1>12, BackgroundFrame DEF Routable
  <1>13. QED
    BY <1>1, <1>2, <1>3, <1>4, <1>5, <1>6, <1>7, <1>8, <1>9, <1>10, <1>11, <1>12 DEF Next, Work, Background

\* Whatever dialogs and commands run at once, "no remote provider" never
\* meets a command that EnsureConnected let through.
THEOREM EnsuredRoutable == Spec => []EnsuredIsRoutable
  <1>1. Init => Routable
    BY DEF Init, Routable, Routed
  <1>2. Routable => EnsuredIsRoutable
    BY DEF Routable, Routed, EnsuredIsRoutable, At
  <1>3. QED BY <1>1, <1>2, TypeCorrect, NextRoutable, PTL DEF Spec

-----------------------------------------------------------------------------
(* A creation never vanishes from the sidebar                              *)

\* Where a job has a session of its own to mirror.
Making == {"mirror", "window", "record", "finish"}

Listed(s) == s \in Sessions /\ (records[s] > 0 \/ s \in excused)

\* Only what the store may lose is dead or has a window that may be closed,
\* so the collector takes nothing else.
Excuses ==
  /\ condemned \subseteq excused /\ exited \subseteq excused
  /\ \A j \in Jobs : placeholder[j] = "dead" => j \in excused
  /\ \A s \in Sessions : status[s] = "dead" => s \in excused
  /\ \A j \in Jobs : errorWindow[j] # "none" \/ pc[j] = "errorWindow" => j \in excused

LEMMA NextExcuses == TypeOK /\ Excuses /\ [Next]_vars => Excuses'
  <1> SUFFICES ASSUME TypeOK, Excuses, [Next]_vars PROVE Excuses'
    OBVIOUS
  <1> USE DEF TypeOK, Excuses
  <1>1. CASE UNCHANGED vars
    BY <1>1 DEF vars
  <1>2. ASSUME NEW j \in Jobs, Create(j) \/ Command(j) \/ Dialog(j) \/ Purge(j) \/ \E s \in Sessions : Delete(j, s)
        PROVE  Excuses'
    <2>1. PICK l \in {"ensure", "dial", "done", "killMirror", "purge"} : Goto(j, l)
      BY <1>2 DEF Create, Command, Dialog, Purge, Delete, StartOp
    <2>2. UNCHANGED <<condemned, exited, errorWindow, status>> /\ excused \subseteq excused'
      BY <1>2 DEF Create, Command, Dialog, Purge, Delete
    <2>3. \A k \in Jobs : placeholder'[k] = "dead" => placeholder[k] = "dead"
      BY <1>2 DEF Create, Command, Dialog, Purge, Delete
    <2>4. QED BY <2>1, <2>2, <2>3 DEF Goto
  <1>3. ASSUME NEW j \in Jobs, DeletePlaceholder(j) \/ Drop(j) PROVE Excuses'
    BY <1>3 DEF DeletePlaceholder, Drop
  <1>4. ASSUME NEW j \in Jobs,
               \/ Ensure(j) \/ Dial(j) \/ AddRemote(j) \/ Show(j) \/ List(j) \/ RestoreNext(j)
               \/ StartStream(j) \/ Connected(j) \/ Call(j) \/ CreateMirror(j)
               \/ RestoreWindow(j) \/ MirrorWindow(j)
        PROVE  Excuses'
    <2>1. \A k \in Jobs : pc'[k] = "errorWindow" => pc[k] = "errorWindow"
      BY <1>4 DEF Ensure, AfterEnsure, Dial, AfterDialFailed, AddRemote, Show, List, RestoreNext, StartStream,
                  Connected, AfterDial, Call, CreateMirror, RestoreWindow, MirrorWindow, AddWindow, Goto
    <2>2. UNCHANGED <<condemned, exited, errorWindow, status, placeholder, excused>>
      BY <1>4 DEF Ensure, Dial, AddRemote, Show, List, RestoreNext, StartStream, Connected, Call, CreateMirror,
                  RestoreWindow, MirrorWindow, AddWindow
    <2>3. QED BY <2>1, <2>2
  <1>5. ASSUME NEW j \in Jobs, RestoreRecord(j) \/ MirrorRecord(j) PROVE Excuses'
    BY <1>5 DEF RestoreRecord, MirrorRecord, AddRecord, Goto
  <1>6. ASSUME NEW j \in Jobs, Finish(j) PROVE Excuses'
    BY <1>6 DEF Finish, Goto
  <1>7. ASSUME NEW j \in Jobs, FailPlaceholder(j) PROVE Excuses'
    BY <1>7 DEF FailPlaceholder, Goto
  <1>8. ASSUME NEW j \in Jobs, OpenErrorWindow(j) PROVE Excuses'
    BY <1>8 DEF OpenErrorWindow, Goto, At
  <1>9. ASSUME NEW j \in Jobs, KillMirror(j) PROVE Excuses'
    BY <1>9 DEF KillMirror, LeaveWindows, Goto
  <1>10. ASSUME NEW s, Forget(s) PROVE \A x \in Sessions : status'[x] = "dead" => status[x] = "dead"
    BY <1>10 DEF Forget
  <1>11. ASSUME NEW j \in Jobs, RemoveRecord(j) PROVE Excuses'
    BY <1>10, <1>11 DEF RemoveRecord, Goto
  <1>12. ASSUME NEW j \in Jobs, PurgeNext(j) PROVE Excuses'
    <2>1. /\ \A x \in Sessions : status'[x] = "dead" => status[x] = "dead"
          /\ \A k \in Jobs : placeholder'[k] = "dead" => placeholder[k] = "dead"
      BY <1>10, <1>12 DEF PurgeNext
    <2>2. \A k \in Jobs : pc'[k] = "errorWindow" => pc[k] = "errorWindow"
      BY <1>12 DEF PurgeNext, Goto
    <2>3. UNCHANGED <<condemned, exited, errorWindow>> /\ excused \subseteq excused'
      BY <1>12 DEF PurgeNext
    <2>4. QED BY <2>1, <2>2, <2>3
  <1>13. CASE SyncList \/ SyncWithout \/ CollectEnd
    BY <1>13 DEF SyncList, SyncWithout, CollectEnd
  <1>14. CASE SyncApply
    <2>1. \A j \in Jobs : placeholder'[j] = "dead" => j \in excused
      BY <1>14 DEF SyncApply, SyncedPlaceholder
    <2>2. \A s \in Sessions : status'[s] = "dead" => s \in excused
      BY <1>14 DEF SyncApply, SyncedSession
    <2>3. UNCHANGED <<condemned, exited, errorWindow, excused, pc>>
      BY <1>14 DEF SyncApply
    <2>4. QED BY <2>1, <2>2, <2>3
  <1>15. CASE Snapshot
    BY <1>15 DEF Snapshot
  <1>16. ASSUME NEW e \in Entries, Collect(e) PROVE Excuses'
    <2>1. /\ \A x \in Sessions : status'[x] = "dead" => status[x] = "dead"
          /\ \A k \in Jobs : placeholder'[k] = "dead" => placeholder[k] = "dead"
          /\ \A k \in Jobs : errorWindow'[k] # "none" => errorWindow[k] # "none"
          /\ exited' \subseteq exited
      BY <1>10, <1>16 DEF Collect, CollectPlaceholder, CollectSession, LeaveWindows
    <2>2. UNCHANGED <<pc, excused>> /\ condemned' \subseteq condemned
      BY <1>16 DEF Collect
    <2>3. QED BY <2>1, <2>2
  <1>17. ASSUME NEW s \in Sessions, MirrorExits(s) PROVE Excuses'
    BY <1>17 DEF MirrorExits
  <1>18. ASSUME NEW j \in Jobs, CloseErrorWindow(j) PROVE Excuses'
    BY <1>18 DEF CloseErrorWindow
  <1>19. QED
    BY <1>1, <1>2, <1>3, <1>4, <1>5, <1>6, <1>7, <1>8, <1>9, <1>11, <1>12, <1>13, <1>14, <1>15, <1>16, <1>17, <1>18
    DEF Next, Work, Collector

\* Strengthens CreatedStaysListed: a creation keeps its placeholder until it
\* is done, "finish" is reached with the session in the store, unless they
\* are excused, and who deletes a mirror has excused it.
Kept ==
  /\ \A j \in Jobs : op[j] = "create" =>
       \/ placeholder[j] # "none" \/ j \in excused
       \/ pc[j] = "done" /\ Listed(target[j])
  /\ \A j \in Jobs :
       /\ pc[j] \in Making => target[j] \in Sessions
       /\ pc[j] = "finish" => Listed(target[j])
       /\ pc[j] \in {"killMirror", "remove"} => target[j] \in excused

\* What almost every step does: no placeholder, record or deletion is lost,
\* one job moves on and the other ones keep their sessions.
Grows ==
  /\ \A k \in Jobs : placeholder[k] # "none" => placeholder'[k] # "none" \/ k \in excused'
  /\ excused \subseteq excused'
  /\ \A s \in Sessions : records[s] > 0 => records'[s] > 0 \/ s \in excused'

Moves(j) ==
  /\ pc[j] # "done"
  /\ \A k \in Jobs : k # j => pc'[k] = pc[k] /\ target'[k] = target[k] /\ op'[k] = op[k]

LEMMA ListedGrows ==
  ASSUME Grows, NEW s, Listed(s)
  PROVE  Listed(s)'
  BY DEF Grows, Listed

\* The job that moves keeps Kept when it comes to no place Kept speaks of.
LEMMA KeptFrame ==
  ASSUME Kept, Grows, NEW j \in Jobs, Moves(j),
         op'[j] = op[j] \/ op'[j] # "create" \/ placeholder'[j] # "none",
         pc'[j] \notin Making \cup {"killMirror", "remove"}
  PROVE  Kept'
  <1>1. ASSUME NEW k \in Jobs, op'[k] = "create"
        PROVE  \/ placeholder'[k] # "none" \/ k \in excused'
               \/ pc'[k] = "done" /\ Listed(target[k])'
    BY <1>1, ListedGrows DEF Kept, Grows, Moves, Listed
  <1>2. ASSUME NEW k \in Jobs
        PROVE  /\ pc'[k] \in Making => target'[k] \in Sessions
               /\ pc'[k] = "finish" => Listed(target[k])'
               /\ pc'[k] \in {"killMirror", "remove"} => target'[k] \in excused'
    BY <1>2, ListedGrows DEF Kept, Grows, Moves, Making, Listed
  <1>3. QED BY <1>1, <1>2 DEF Kept, Listed

\* So does a step at which no job moves.
LEMMA KeptAside ==
  ASSUME Kept, Grows, UNCHANGED <<op, pc, target>>
  PROVE  Kept'
  BY ListedGrows DEF Kept, Grows, Listed

\* Removing a record keeps the records of the other sessions.
LEMMA ForgetGrows ==
  ASSUME TypeOK, NEW e, Forget(e)
  PROVE  \A s \in Sessions : s # e /\ records[s] > 0 => records'[s] > 0
  BY DEF TypeOK, Forget

LEMMA NextKept == TypeOK /\ Excuses /\ Kept /\ [Next]_vars => Kept'
  <1> SUFFICES ASSUME TypeOK, Excuses, Kept, [Next]_vars PROVE Kept'
    OBVIOUS
  <1>1. CASE UNCHANGED vars
    BY <1>1 DEF Kept, Listed, vars
  <1>2. ASSUME NEW j \in Jobs, Create(j) \/ Command(j) \/ Dialog(j) \/ Purge(j) PROVE Kept'
    <2>1. Grows /\ (op'[j] = "create" => placeholder'[j] # "none")
      BY <1>2 DEF TypeOK, Grows, Create, Command, Dialog, Purge, StartOp
    <2>2. Moves(j) /\ pc'[j] \in {"ensure", "dial", "done", "purge"}
      BY <1>2 DEF TypeOK, Moves, Create, Command, Dialog, Purge, StartOp, Goto, At
    <2>3. QED BY <2>1, <2>2, KeptFrame DEF Making
  <1>3. ASSUME NEW j \in Jobs, NEW s \in Sessions, Delete(j, s) PROVE Kept'
    <2>1. Grows
      BY <1>3 DEF TypeOK, Grows, Delete
    <2>2. Moves(j) /\ op'[j] # "create" /\ pc'[j] = "killMirror" /\ target'[j] \in excused'
      BY <1>3 DEF TypeOK, Moves, Delete, StartOp, Goto, At
    <2>3. ASSUME NEW k \in Jobs, k # j
          PROVE  /\ op'[k] = "create" => \/ placeholder'[k] # "none" \/ k \in excused'
                                         \/ pc'[k] = "done" /\ Listed(target[k])'
                 /\ pc'[k] \in Making => target'[k] \in Sessions
                 /\ pc'[k] = "finish" => Listed(target[k])'
                 /\ pc'[k] \in {"killMirror", "remove"} => target'[k] \in excused'
      BY <2>1, <2>2, <2>3 DEF Kept, Grows, Moves, Listed
    <2>4. QED BY <2>2, <2>3 DEF Kept, Making
  <1>4. ASSUME NEW j \in Jobs, DeletePlaceholder(j) PROVE Kept'
    BY <1>4 DEF TypeOK, DeletePlaceholder, Kept, Listed
  <1>5. ASSUME NEW j \in Jobs, Drop(j) PROVE Kept'
    BY <1>5 DEF Drop, Kept, Listed
  <1>6. ASSUME NEW j \in Jobs,
               \/ Ensure(j) \/ Dial(j) \/ AddRemote(j) \/ Show(j) \/ List(j) \/ RestoreNext(j)
               \/ StartStream(j) \/ Connected(j)
        PROVE  Kept'
    <2>1. Grows /\ op' = op
      BY <1>6 DEF Grows, Ensure, Dial, AddRemote, Show, List, RestoreNext, StartStream, Connected
    <2>2. Moves(j)
      BY <1>6 DEF TypeOK, Moves, Ensure, AfterEnsure, Dial, AfterDialFailed, AddRemote, Show, List, RestoreNext,
                  StartStream, Connected, AfterDial, Goto, At
    <2>3. pc'[j] \notin Making \cup {"killMirror", "remove"}
      BY <1>6 DEF TypeOK, Ensure, AfterEnsure, Dial, AfterDialFailed, AddRemote, Show, List, RestoreNext,
                  StartStream, Connected, AfterDial, Goto, At, Making
    <2>4. QED BY <2>1, <2>2, <2>3, KeptFrame
  <1>7. ASSUME NEW j \in Jobs, RestoreWindow(j) PROVE Kept'
    BY <1>7, KeptFrame DEF TypeOK, RestoreWindow, AddWindow, Grows, Moves, Goto, At, Making
  <1>8. ASSUME NEW j \in Jobs, RestoreRecord(j) PROVE Kept'
    BY <1>8, KeptFrame DEF TypeOK, RestoreRecord, AddRecord, Grows, Moves, Goto, At, Making
  <1>9. ASSUME NEW j \in Jobs, FailPlaceholder(j) \/ OpenErrorWindow(j) PROVE Kept'
    BY <1>9, KeptFrame DEF TypeOK, FailPlaceholder, OpenErrorWindow, Grows, Moves, Goto, At, Making
  <1>10. ASSUME NEW j \in Jobs, Call(j) PROVE Kept'
    <2>1. CASE Goto(j, "failing")
      BY <1>10, <2>1, KeptFrame DEF TypeOK, Call, Grows, Moves, Goto, At, Making
    <2>2. CASE Goto(j, "mirror") /\ target'[j] \in Sessions
      BY <1>10, <2>2 DEF TypeOK, Call, Kept, Listed, Goto, At, Making
    <2>3. visit.sessions \subseteq Sessions
      BY ConstantsAssumption DEF TypeOK
    <2>4. Goto(j, "failing") \/ (Goto(j, "mirror") /\ target'[j] \in Sessions)
      BY <1>10, <2>3 DEF Call, TypeOK, Goto, At
    <2>5. QED BY <2>1, <2>2, <2>4
  <1>11. ASSUME NEW j \in Jobs, CreateMirror(j) PROVE Kept'
    BY <1>11 DEF TypeOK, CreateMirror, Kept, Listed, Goto, At, Making
  <1>12. ASSUME NEW j \in Jobs, MirrorWindow(j) PROVE Kept'
    BY <1>12 DEF TypeOK, MirrorWindow, AddWindow, Kept, Listed, Goto, At, Making
  <1>13. ASSUME NEW j \in Jobs, MirrorRecord(j) PROVE Kept'
    <2>1. Grows /\ Listed(target[j])' /\ target'[j] \in Sessions
      BY <1>13 DEF TypeOK, MirrorRecord, AddRecord, Grows, Kept, Listed, At, Making
    <2>2. QED BY <1>13, <2>1, ListedGrows DEF TypeOK, MirrorRecord, AddRecord, Kept, Goto, At, Making
  <1>14. ASSUME NEW j \in Jobs, Finish(j) PROVE Kept'
    BY <1>14 DEF TypeOK, Finish, Kept, Listed, Goto, At, Making
  <1>15. ASSUME NEW j \in Jobs, KillMirror(j) PROVE Kept'
    BY <1>15 DEF TypeOK, KillMirror, Kept, Listed, Goto, At, Making
  <1>16. ASSUME NEW j \in Jobs, RemoveRecord(j) PROVE Kept'
    <2>1. Grows
      BY <1>16, ForgetGrows DEF TypeOK, RemoveRecord, Grows, Kept, At
    <2>2. Moves(j) /\ pc'[j] = "done" /\ op' = op
      BY <1>16 DEF TypeOK, Moves, RemoveRecord, Goto, At
    <2>3. QED BY <2>1, <2>2, KeptFrame DEF Making
  <1>17. ASSUME NEW j \in Jobs, PurgeNext(j) PROVE Kept'
    <2>1. Grows
      BY <1>17, ForgetGrows DEF TypeOK, PurgeNext, Grows
    <2>2. op' = op /\ target' = target
      BY <1>17 DEF PurgeNext
    <2>3. CASE UNCHANGED pc
      BY <2>1, <2>2, <2>3, KeptAside
    <2>4. CASE Goto(j, "done")
      BY <1>17, <2>1, <2>2, <2>4, KeptFrame DEF TypeOK, PurgeNext, Moves, Making, Goto, At
    <2>5. QED BY <1>17, <2>3, <2>4 DEF PurgeNext
  <1>18. CASE Background
    <2>1. UNCHANGED <<op, pc, target>>
      BY <1>18, BackgroundFrame
    <2>2. ASSUME NEW e \in Entries, Collect(e)
          PROVE  Grows
      BY <2>2, ForgetGrows DEF TypeOK, Excuses, Collect, CollectPlaceholder, CollectSession, Grows
    <2>3. ASSUME SyncApply PROVE Grows
      <3>1. \A k \in Jobs : placeholder[k] # "none" => placeholder'[k] # "none"
        BY <2>3 DEF SyncApply, SyncedPlaceholder
      <3>2. UNCHANGED <<records, excused>>
        BY <2>3 DEF SyncApply
      <3>3. QED BY <3>1, <3>2 DEF Grows
    <2>4. ASSUME \/ SyncList \/ SyncWithout \/ Snapshot \/ CollectEnd
                 \/ \E s \in Sessions : MirrorExits(s)
                 \/ \E j \in Jobs : CloseErrorWindow(j)
          PROVE  Grows
      <3>1. UNCHANGED <<placeholder, records>> /\ excused \subseteq excused'
        BY <2>4 DEF SyncList, SyncWithout, Snapshot, CollectEnd, MirrorExits, CloseErrorWindow
      <3>2. QED BY <3>1 DEF Grows
    <2>5. Grows
      BY <1>18, <2>2, <2>3, <2>4 DEF Background, Collector
    <2>6. QED BY <2>1, <2>5, KeptAside
  <1>19. QED
    BY <1>1, <1>2, <1>3, <1>4, <1>5, <1>6, <1>7, <1>8, <1>9, <1>10, <1>11, <1>12, <1>13, <1>14, <1>15, <1>16, <1>17, <1>18
    DEF Next, Work, Background

\* A creation has an entry in the sidebar, its placeholder or the session it
\* became, until the user deletes it, a purge finds it orphaned, or the
\* collector may take it; the collector takes nothing else.
THEOREM CreationsStayListed == Spec => []CreatedStaysListed
  <1>1. Init => Kept /\ Excuses
    BY DEF Init, Kept, Making, Excuses
  <1>2. Kept => CreatedStaysListed
    BY ConstantsAssumption DEF Kept, Listed, CreatedStaysListed, At
  <1>3. QED BY <1>1, <1>2, TypeCorrect, NextExcuses, NextKept, PTL DEF Spec

-----------------------------------------------------------------------------
(* One mirror per session, while sync.Once alone connects the host          *)

Pipeline == {"dial", "add", "show", "list", "restore", "restoreWindow", "restoreRecord", "stream", "connected"}
Restoring == {"restoreWindow", "restoreRecord"}
Mirroring == {"mirror", "window", "record"}

\* Mirrors are for sessions that were made, and no two jobs mirror the same
\* new session.
BornInv ==
  /\ remote \subseteq born
  /\ \A j \in Jobs : listed[j] \subseteq born
  /\ \A j \in Jobs : pc[j] \in Mirroring \cup Restoring => target[j] \in born
  /\ \A s \in Sessions : s \notin born => records[s] = 0 /\ windows[s] = 0
  /\ \A j, k \in Jobs : pc[j] \in Mirroring /\ pc[k] \in Mirroring /\ target[j] = target[k] => j = k

\* The once lets one job connect, and every other one wait for it.
OnceInv ==
  /\ \A j \in Jobs : op[j] # "dialog"
  /\ \A j \in Jobs : pc[j] \in Pipeline => lazy = "running"
  /\ \A j \in Jobs : pc[j] \in Mirroring \cup {"call"} => lazy = "ok"
  /\ \A j, k \in Jobs : pc[j] \in Pipeline /\ pc[k] \in Pipeline => j = k

\* A session that may still be restored has no more windows than records,
\* unless its record went first.
Clean(s) == windows[s] =< records[s] \/ s \in left

TwinInv ==
  /\ \A s \in Sessions : records[s] =< 1 /\ (windows[s] =< 1 \/ s \in left)
  /\ \A j \in Jobs : pc[j] \in {"mirror", "window", "restoreWindow"} => windows[target[j]] = 0 \/ target[j] \in left
  /\ \A j \in Jobs : pc[j] \in Mirroring \cup Restoring => records[target[j]] = 0
  /\ lazy = "none" => \A s \in Sessions : Clean(s)
  /\ \A j \in Jobs : pc[j] \in {"dial", "add", "show", "list"} => \A s \in Sessions : Clean(s)
  /\ \A j \in Jobs : pc[j] \in {"restore", "restoreWindow", "restoreRecord"} => \A s \in listed[j] : Clean(s)
  /\ \A j \in Jobs : pc[j] \in Restoring => target[j] \notin listed[j]

MirrorInv == BornInv /\ (dials = 0 => OnceInv /\ TwinInv)

\* Sessions are listed, made and mirrored once.
\* Removals take records and windows away and note a window that stays.
Shrinks ==
  /\ \A s \in Sessions : /\ records'[s] = records[s] \/ (records[s] > 0 /\ records'[s] = records[s] - 1)
                         /\ windows'[s] = windows[s] \/ (windows[s] > 0 /\ windows'[s] = windows[s] - 1)
                         /\ records'[s] # records[s] /\ records'[s] = 0 /\ windows'[s] > 0 => s \in left'
  /\ left \subseteq left'

LEMMA ForgetShrinks ==
  ASSUME TypeOK, NEW e, Forget(e)
  PROVE  /\ \A s \in Sessions : /\ records'[s] = records[s] \/ (records[s] > 0 /\ records'[s] = records[s] - 1)
                                /\ records'[s] # records[s] /\ records'[s] = 0 /\ windows'[s] > 0 => s \in left'
         /\ left \subseteq left'
  BY DEF TypeOK, Forget

LEMMA ShrinksNone ==
  ASSUME TypeOK, Shrinks, NEW s \in Sessions, records[s] = 0, windows[s] = 0
  PROVE  records'[s] = 0 /\ windows'[s] = 0
  BY DEF TypeOK, Shrinks

LEMMA BackgroundShrinks ==
  ASSUME TypeOK, Background
  PROVE  Shrinks
  <1>1. ASSUME NEW e \in Entries, Collect(e)
        PROVE  Shrinks
    <2>1. CASE CollectPlaceholder(e)
      BY <2>1 DEF CollectPlaceholder, Shrinks
    <2>2. CASE e \in Sessions /\ CollectSession(e)
      <3>1. \A s \in Sessions : windows'[s] = windows[s] \/ (windows[s] > 0 /\ windows'[s] = windows[s] - 1)
        BY <2>2 DEF TypeOK, CollectSession, LeaveWindows
      <3>2. QED BY <2>2, <3>1, ForgetShrinks DEF CollectSession, Shrinks
    <2>3. QED BY <1>1, <2>1, <2>2 DEF Collect
  <1>2. ASSUME NEW s \in Sessions, MirrorExits(s)
        PROVE  Shrinks
    BY <1>2 DEF TypeOK, MirrorExits, Shrinks
  <1>3. CASE SyncApply
    <2>1. UNCHANGED <<records, windows, left>>
      BY <1>3 DEF SyncApply
    <2>2. QED BY <2>1 DEF Shrinks
  <1>4. CASE SyncList \/ SyncWithout \/ Snapshot \/ CollectEnd \/ \E j \in Jobs : CloseErrorWindow(j)
    <2>1. UNCHANGED <<records, windows, left>>
      BY <1>4 DEF SyncList, SyncWithout, Snapshot, CollectEnd, CloseErrorWindow
    <2>2. QED BY <2>1 DEF Shrinks
  <1>5. QED BY <1>1, <1>2, <1>3, <1>4 DEF Background, Collector

LEMMA NextBorn == TypeOK /\ BornInv /\ [Next]_vars => BornInv'
  <1> SUFFICES ASSUME TypeOK, BornInv, [Next]_vars PROVE BornInv'
    OBVIOUS
  <1> USE ConstantsAssumption DEF TypeOK
  <1>1. CASE UNCHANGED vars
    BY <1>1 DEF BornInv, vars
  <1>2. ASSUME NEW j \in Jobs, NEW l, Goto(j, l), l \notin Mirroring \cup Restoring,
               \A k \in Jobs : k # j => target'[k] = target[k],
               UNCHANGED <<listed, records, windows>>, remote' \subseteq born', born \subseteq born'
        PROVE  BornInv'
    BY <1>2 DEF BornInv, Goto, Mirroring, Restoring
  <1>3. ASSUME NEW j \in Jobs, Create(j) \/ Command(j) \/ Dialog(j) \/ Purge(j) PROVE BornInv'
    <2>1. PICK l \in {"ensure", "dial", "done", "purge"} : Goto(j, l)
      BY <1>3 DEF Create, Command, Dialog, Purge, StartOp
    <2>2. l \notin Mirroring \cup Restoring
      BY DEF Mirroring, Restoring
    <2>3. UNCHANGED <<target, listed, records, windows, remote, born>>
      BY <1>3 DEF Create, Command, Dialog, Purge
    <2>4. QED BY <1>2, <2>1, <2>2, <2>3 DEF BornInv
  <1>4. ASSUME NEW j \in Jobs, DeletePlaceholder(j) \/ Drop(j) PROVE BornInv'
    BY <1>4 DEF BornInv, DeletePlaceholder, Drop
  <1>5. ASSUME NEW j \in Jobs, NEW s \in Sessions, Delete(j, s) PROVE BornInv'
    <2>1. /\ Goto(j, "killMirror") /\ \A k \in Jobs : k # j => target'[k] = target[k]
          /\ UNCHANGED <<listed, records, windows, born>> /\ remote' \subseteq remote
      BY <1>5 DEF Delete, StartOp
    <2>2. QED BY <1>2, <2>1 DEF BornInv, Mirroring, Restoring
  <1>6. ASSUME NEW j \in Jobs,
               \/ Ensure(j) \/ Dial(j) \/ AddRemote(j) \/ Show(j) \/ StartStream(j) \/ Connected(j)
               \/ Finish(j) \/ FailPlaceholder(j) \/ OpenErrorWindow(j)
        PROVE  BornInv'
    <2>1. PICK l \in {"dial", "call", "failing", "add", "show", "list", "done", "connected", "errorWindow"} : Goto(j, l)
      BY <1>6 DEF Ensure, AfterEnsure, Dial, AfterDialFailed, AddRemote, Show, StartStream, Connected, AfterDial,
                  Finish, FailPlaceholder, OpenErrorWindow
    <2>2. l \notin Mirroring \cup Restoring
      BY DEF Mirroring, Restoring
    <2>3. UNCHANGED <<listed, records, windows, remote, born>> /\ \A k \in Jobs : k # j => target'[k] = target[k]
      BY <1>6 DEF Ensure, Dial, AddRemote, Show, StartStream, Connected, Finish, FailPlaceholder, OpenErrorWindow
    <2>4. QED BY <1>2, <2>1, <2>2, <2>3 DEF BornInv
  <1>7. ASSUME NEW j \in Jobs, List(j) PROVE BornInv'
    BY <1>7 DEF BornInv, List, Goto, Mirroring, Restoring
  <1>8. ASSUME NEW j \in Jobs, RestoreNext(j) PROVE BornInv'
    BY <1>8 DEF BornInv, RestoreNext, Goto, Mirroring, Restoring
  <1>9. ASSUME NEW j \in Jobs, RestoreWindow(j) \/ MirrorWindow(j) PROVE BornInv'
    BY <1>9 DEF BornInv, RestoreWindow, MirrorWindow, AddWindow, Goto, At, Mirroring, Restoring
  <1>10. ASSUME NEW j \in Jobs, RestoreRecord(j) \/ MirrorRecord(j) PROVE BornInv'
    BY <1>10 DEF BornInv, RestoreRecord, MirrorRecord, AddRecord, Goto, At, Mirroring, Restoring
  <1>11. ASSUME NEW j \in Jobs, Call(j) PROVE BornInv'
    BY <1>11 DEF BornInv, Call, Goto, At, Mirroring, Restoring
  <1>12. ASSUME NEW j \in Jobs, CreateMirror(j) PROVE BornInv'
    BY <1>12 DEF BornInv, CreateMirror, Goto, At, Mirroring, Restoring
  <1>13. ASSUME NEW j \in Jobs, KillMirror(j) \/ RemoveRecord(j) PROVE BornInv'
    <2>1. PICK l \in {"remove", "done"} : Goto(j, l)
      BY <1>13 DEF KillMirror, RemoveRecord
    <2>2. UNCHANGED <<target, listed, remote, born>> /\ Shrinks
      BY <1>13, ForgetShrinks DEF KillMirror, LeaveWindows, RemoveRecord, Shrinks
    <2>3. \A s \in Sessions : s \notin born => records'[s] = 0 /\ windows'[s] = 0
      BY <2>2, ShrinksNone DEF BornInv
    <2>4. l \notin Mirroring \cup Restoring
      BY DEF Mirroring, Restoring
    <2>5. QED BY <2>1, <2>2, <2>3, <2>4 DEF BornInv, Goto
  <1>14. ASSUME NEW j \in Jobs, PurgeNext(j) PROVE BornInv'
    <2>1. UNCHANGED <<target, listed, remote, born>> /\ Shrinks
      BY <1>14, ForgetShrinks DEF PurgeNext, Shrinks
    <2>2. \A s \in Sessions : s \notin born => records'[s] = 0 /\ windows'[s] = 0
      BY <2>1, ShrinksNone DEF BornInv
    <2>3. \A k \in Jobs : pc'[k] \in Mirroring \cup Restoring => pc'[k] = pc[k]
      BY <1>14 DEF PurgeNext, Goto, Mirroring, Restoring
    <2>4. QED BY <2>1, <2>2, <2>3 DEF BornInv
  <1>15. CASE Background
    <2>1. UNCHANGED <<pc, target, listed, remote, born>> /\ Shrinks
      BY <1>15, BackgroundFrame, BackgroundShrinks
    <2>2. \A s \in Sessions : s \notin born => records'[s] = 0 /\ windows'[s] = 0
      BY <2>1, ShrinksNone DEF BornInv
    <2>3. QED BY <2>1, <2>2 DEF BornInv
  <1>16. QED BY <1>14, <1>15,  <1>1, <1>3, <1>4, <1>5, <1>6, <1>7, <1>8, <1>9, <1>10, <1>11, <1>12, <1>13 DEF Next, Work, Background

\* Without the dialog the once keeps the pipeline to one job.
LEMMA NextOnce ==
  ASSUME TypeOK, OnceInv, [Next]_vars, dials' = 0
  PROVE  OnceInv'
  <1> USE ConstantsAssumption DEF TypeOK
  <1>1. CASE UNCHANGED vars
    BY <1>1 DEF OnceInv, vars
  <1>2. ASSUME NEW j \in Jobs, NEW l, Goto(j, l), \A k \in Jobs : op'[k] # "dialog", UNCHANGED lazy,
               l \in Pipeline => pc[j] \in Pipeline, l \in Mirroring \cup {"call"} => pc[j] \in Mirroring \cup {"call"}
        PROVE  OnceInv'
    BY <1>2 DEF OnceInv, Goto
  <1>3. ASSUME NEW j \in Jobs, Dialog(j) PROVE FALSE
    BY <1>3 DEF Dialog
  <1>4. ASSUME NEW j \in Jobs, Create(j) \/ Command(j) \/ Purge(j) \/ \E s \in Sessions : Delete(j, s)
        PROVE  OnceInv'
    <2>1. PICK l \in {"ensure", "done", "killMirror", "purge"} : Goto(j, l)
      BY <1>4 DEF Create, Command, Purge, Delete, StartOp
    <2>2. l \notin Pipeline /\ l \notin Mirroring \cup {"call"}
      BY DEF Pipeline, Mirroring
    <2>3. UNCHANGED lazy /\ \A k \in Jobs : op'[k] # "dialog"
      BY <1>4 DEF Create, Command, Purge, Delete, StartOp, OnceInv
    <2>4. QED BY <1>2, <2>1, <2>2, <2>3
  <1>5. ASSUME NEW j \in Jobs, DeletePlaceholder(j) \/ Drop(j) PROVE OnceInv'
    BY <1>5 DEF DeletePlaceholder, Drop, OnceInv
  <1>6. ASSUME NEW j \in Jobs, Ensure(j) PROVE OnceInv'
    <2>1. CASE lazy = "none"
      BY <1>6, <2>1 DEF Ensure, OnceInv, Goto, At, Pipeline, Mirroring
    <2>2. CASE lazy # "none"
      BY <1>6, <2>2 DEF Ensure, AfterEnsure, OnceInv, Goto, At, Pipeline, Mirroring
    <2>3. QED BY <2>1, <2>2
  <1>7. ASSUME NEW j \in Jobs, Dial(j) PROVE OnceInv'
    BY <1>7 DEF Dial, AfterDialFailed, AfterEnsure, OnceInv, Goto, At, Pipeline, Mirroring
  <1>8. ASSUME NEW j \in Jobs, Connected(j) PROVE OnceInv'
    BY <1>8 DEF Connected, AfterDial, AfterEnsure, OnceInv, Goto, At, Pipeline, Mirroring
  <1>9. ASSUME NEW j \in Jobs,
               \/ AddRemote(j) \/ Show(j) \/ List(j) \/ RestoreNext(j) \/ RestoreWindow(j) \/ RestoreRecord(j)
               \/ StartStream(j)
        PROVE  OnceInv'
    <2>1. UNCHANGED <<op, lazy>> /\ pc[j] \in Pipeline
      BY <1>9 DEF AddRemote, Show, List, RestoreNext, RestoreWindow, RestoreRecord, AddWindow, AddRecord, StartStream, At, Pipeline
    <2>2. \/ UNCHANGED pc
          \/ \E l \in Pipeline : Goto(j, l)
      BY <1>9 DEF AddRemote, Show, List, RestoreNext, RestoreWindow, RestoreRecord, AddWindow, AddRecord, StartStream,
                  Pipeline
    <2>3. Pipeline \cap (Mirroring \cup {"call"}) = {}
      BY DEF Pipeline, Mirroring
    <2>4. CASE UNCHANGED pc
      BY <2>1, <2>4 DEF OnceInv
    <2>5. QED BY <1>2, <2>1, <2>2, <2>3, <2>4 DEF OnceInv
  <1>10. ASSUME NEW j \in Jobs,
                \/ Call(j) \/ CreateMirror(j) \/ MirrorWindow(j) \/ MirrorRecord(j) \/ Finish(j)
                \/ FailPlaceholder(j) \/ OpenErrorWindow(j) \/ KillMirror(j) \/ RemoveRecord(j)
         PROVE  OnceInv'
    <2>1. UNCHANGED <<op, lazy>>
      BY <1>10 DEF Call, CreateMirror, MirrorWindow, MirrorRecord, AddWindow, AddRecord, Finish,
                   FailPlaceholder, OpenErrorWindow, KillMirror, RemoveRecord
    <2>2. PICK l \in {"mirror", "failing", "finish", "window", "record", "done", "errorWindow", "remove"} : Goto(j, l)
      BY <1>10 DEF Call, CreateMirror, MirrorWindow, MirrorRecord, AddWindow, AddRecord, Finish,
                   FailPlaceholder, OpenErrorWindow, KillMirror, RemoveRecord
    <2>3. l \notin Pipeline
      BY DEF Pipeline
    <2>4. l \in Mirroring \cup {"call"} => pc[j] \in Mirroring \cup {"call"}
      BY <1>10, <2>2 DEF Call, CreateMirror, MirrorWindow, MirrorRecord, AddWindow, AddRecord, Finish,
                   FailPlaceholder, OpenErrorWindow, KillMirror, RemoveRecord, Goto, At, Mirroring
    <2>5. QED BY <1>2, <2>1, <2>2, <2>3, <2>4 DEF OnceInv
  <1>11. ASSUME NEW j \in Jobs, PurgeNext(j) PROVE OnceInv'
    BY <1>11 DEF PurgeNext, OnceInv, Goto, Pipeline, Mirroring
  <1>12. CASE Background
    BY <1>12, BackgroundFrame DEF OnceInv
  <1>13. QED BY <1>1, <1>3, <1>4, <1>5, <1>6, <1>7, <1>8, <1>9, <1>10, <1>11, <1>12 DEF Next, Work, Background

\* A job that moves without a new window or record keeps TwinInv, when the
\* place it comes to asks for nothing that was not known.
LEMMA TwinFrame ==
  ASSUME TypeOK, TwinInv, NEW j \in Jobs, NEW l, Goto(j, l),
         l \notin Mirroring \cup Restoring \cup {"dial", "restore"},
         l \in {"add", "show", "list"} => pc[j] \in {"dial", "add", "show"},
         \A k \in Jobs : k # j => target'[k] = target[k],
         lazy' = "none" => lazy = "none", UNCHANGED <<listed, records, windows, left>>
  PROVE  TwinInv'
  <1> USE DEF TypeOK
  <1>1. pc'[j] = l /\ \A k \in Jobs : k # j => pc'[k] = pc[k] /\ target'[k] = target[k]
    BY DEF Goto
  <1>2. \A s \in Sessions : Clean(s) => Clean(s)'
    BY <1>1 DEF Clean
  <1>3. \A k \in Jobs : k = j \/ (pc'[k] = pc[k] /\ target'[k] = target[k])
    BY <1>1
  <1>4. /\ \A s \in Sessions : records'[s] =< 1 /\ (windows'[s] =< 1 \/ s \in left')
        /\ lazy' = "none" => \A s \in Sessions : Clean(s)'
    BY <1>2 DEF TwinInv
  <1>5. \A k \in Jobs : pc'[k] \in {"mirror", "window", "restoreWindow"} => windows'[target'[k]] = 0 \/ target'[k] \in left'
    BY <1>1, <1>3 DEF TwinInv, Mirroring, Restoring
  <1>6. \A k \in Jobs : pc'[k] \in Mirroring \cup Restoring =>
          records'[target'[k]] = 0 /\ (pc'[k] \in Restoring => target'[k] \notin listed'[k])
    BY <1>1, <1>3 DEF TwinInv
  <1>7. \A k \in Jobs : pc'[k] \in {"dial", "add", "show", "list"} => \A s \in Sessions : Clean(s)'
    BY <1>1, <1>2, <1>3 DEF TwinInv
  <1>8. \A k \in Jobs : pc'[k] \in {"restore", "restoreWindow", "restoreRecord"} => \A s \in listed'[k] : Clean(s)'
    BY <1>1, <1>2, <1>3 DEF TwinInv, Restoring
  <1>9. QED BY <1>4, <1>5, <1>6, <1>7, <1>8 DEF TwinInv

\* So does a step that only takes records and windows away.
LEMMA TwinShrinks ==
  ASSUME TypeOK, BornInv, TwinInv, Shrinks, UNCHANGED <<target, listed, lazy>>,
         \A k \in Jobs : pc'[k] \notin {"remove", "done"} => pc'[k] = pc[k]
  PROVE  TwinInv'
  <1> USE DEF TypeOK
  <1>1. \A s \in Sessions : Clean(s) => Clean(s)'
    BY DEF Clean, Shrinks, TwinInv
  <1>2. \A s \in Sessions : records'[s] =< 1 /\ (windows'[s] =< 1 \/ s \in left')
    BY DEF TwinInv, Shrinks
  <1>3. \A s \in Sessions : /\ windows[s] = 0 \/ s \in left => windows'[s] = 0 \/ s \in left'
                            /\ records[s] = 0 => records'[s] = 0
    BY DEF Shrinks
  <1>4. \A k \in Jobs : pc'[k] \in Mirroring \cup Restoring => pc'[k] = pc[k] /\ target[k] \in Sessions
    BY DEF Mirroring, Restoring, BornInv
  <1>5. \A k \in Jobs : pc'[k] \in {"mirror", "window", "restoreWindow"} => windows'[target'[k]] = 0 \/ target'[k] \in left'
    BY <1>3, <1>4 DEF TwinInv, Mirroring, Restoring
  <1>6. \A k \in Jobs : pc'[k] \in Mirroring \cup Restoring => records'[target'[k]] = 0
    BY <1>3, <1>4 DEF TwinInv
  <1>7. /\ lazy' = "none" => \A s \in Sessions : Clean(s)'
        /\ \A k \in Jobs : pc'[k] \in {"dial", "add", "show", "list"} => \A s \in Sessions : Clean(s)'
        /\ \A k \in Jobs : pc'[k] \in {"restore", "restoreWindow", "restoreRecord"} => \A s \in listed'[k] : Clean(s)'
        /\ \A k \in Jobs : pc'[k] \in Restoring => target'[k] \notin listed'[k]
    BY <1>1, <1>4 DEF TwinInv, Restoring
  <1>8. QED BY <1>2, <1>5, <1>6, <1>7 DEF TwinInv

\* No step restores or mirrors a session a second time.
LEMMA NextTwin ==
  ASSUME TypeOK, BornInv, OnceInv, OnceInv', TwinInv, [Next]_vars, dials' = 0
  PROVE  TwinInv'
  <1> USE ConstantsAssumption DEF TypeOK
  <1>1. CASE UNCHANGED vars
    BY <1>1 DEF TwinInv, Clean, vars
  <1>2. ASSUME NEW j \in Jobs, Dialog(j) PROVE FALSE
    BY <1>2 DEF Dialog
  <1>3. ASSUME NEW j \in Jobs, Create(j) \/ Command(j) \/ Purge(j) \/ \E s \in Sessions : Delete(j, s)
        PROVE  TwinInv'
    <2>1. PICK l \in {"ensure", "done", "killMirror", "purge"} : Goto(j, l)
      BY <1>3 DEF Create, Command, Purge, Delete, StartOp
    <2>2. UNCHANGED <<lazy, listed, records, windows, left>> /\ \A k \in Jobs : k # j => target'[k] = target[k]
      BY <1>3 DEF Create, Command, Purge, Delete
    <2>3. QED BY <2>1, <2>2, TwinFrame DEF Mirroring, Restoring
  <1>4. ASSUME NEW j \in Jobs, DeletePlaceholder(j) \/ Drop(j) PROVE TwinInv'
    BY <1>4 DEF DeletePlaceholder, Drop, TwinInv, Clean
  <1>5. ASSUME NEW j \in Jobs, Ensure(j) PROVE TwinInv'
    <2>1. CASE lazy = "none"
      BY <1>5, <2>1 DEF Ensure, TwinInv, Clean, Goto, At, Mirroring, Restoring
    <2>2. CASE lazy # "none"
      <3>1. PICK l \in {"call", "failing"} : Goto(j, l)
        BY <1>5, <2>2 DEF Ensure, AfterEnsure
      <3>2. UNCHANGED <<lazy, listed, records, windows, left, target>>
        BY <1>5, <2>2 DEF Ensure
      <3>3. QED BY <3>1, <3>2, TwinFrame DEF Mirroring, Restoring
    <2>3. QED BY <2>1, <2>2
  <1>6. ASSUME NEW j \in Jobs,
               \/ Dial(j) \/ AddRemote(j) \/ Show(j) \/ StartStream(j) \/ Connected(j)
               \/ Finish(j) \/ FailPlaceholder(j) \/ OpenErrorWindow(j)
        PROVE  TwinInv'
    <2>1. \E l \in {"add", "show", "list", "done", "call", "failing", "connected", "errorWindow"} :
            Goto(j, l) /\ (l \in {"add", "show", "list"} => pc[j] \in {"dial", "add", "show"})
      BY <1>6 DEF Dial, AfterDialFailed, AfterEnsure, AddRemote, Show, StartStream, Connected, AfterDial,
                  Finish, FailPlaceholder, OpenErrorWindow, At
    <2>2. UNCHANGED <<listed, records, windows, left>> /\ \A k \in Jobs : k # j => target'[k] = target[k]
      BY <1>6 DEF Dial, AddRemote, Show, StartStream, Connected, Finish, FailPlaceholder, OpenErrorWindow
    <2>3. lazy' = "none" => lazy = "none"
      BY <1>6 DEF Dial, AfterDialFailed, AfterEnsure, AddRemote, Show, StartStream, Connected, AfterDial, MarkConnected,
                  Finish, FailPlaceholder, OpenErrorWindow
    <2>4. QED BY <2>1, <2>2, <2>3, TwinFrame DEF Mirroring, Restoring
  <1>7. ASSUME NEW j \in Jobs, List(j) PROVE TwinInv'
    BY <1>7 DEF List, TwinInv, Clean, Goto, At, Mirroring, Restoring
  <1>8. ASSUME NEW j \in Jobs, RestoreNext(j) PROVE TwinInv'
    BY <1>8 DEF RestoreNext, TwinInv, Clean, Goto, At, Mirroring, Restoring
  <1>9. ASSUME NEW j \in Jobs, RestoreWindow(j) PROVE TwinInv'
    BY <1>9 DEF RestoreWindow, AddWindow, TwinInv, Clean, OnceInv, BornInv, Pipeline, Goto, At, Mirroring, Restoring
  <1>10. ASSUME NEW j \in Jobs, RestoreRecord(j) PROVE TwinInv'
    BY <1>10 DEF RestoreRecord, AddRecord, TwinInv, Clean, OnceInv, BornInv, Pipeline, Goto, At, Mirroring, Restoring
  <1>11. ASSUME NEW j \in Jobs, Call(j) PROVE TwinInv'
    BY <1>11 DEF Call, TwinInv, Clean, BornInv, Goto, At, Mirroring, Restoring
  <1>12. ASSUME NEW j \in Jobs, CreateMirror(j) PROVE TwinInv'
    BY <1>12 DEF CreateMirror, TwinInv, Clean, Goto, At, Mirroring, Restoring
  <1>13. ASSUME NEW j \in Jobs, MirrorWindow(j) PROVE TwinInv'
    BY <1>13 DEF MirrorWindow, AddWindow, TwinInv, Clean, OnceInv, BornInv, Pipeline, Goto, At, Mirroring, Restoring
  <1>14. ASSUME NEW j \in Jobs, MirrorRecord(j) PROVE TwinInv'
    BY <1>14 DEF MirrorRecord, AddRecord, TwinInv, Clean, OnceInv, BornInv, Pipeline, Goto, At, Mirroring, Restoring
  <1>15. ASSUME NEW j \in Jobs, KillMirror(j) \/ RemoveRecord(j) PROVE TwinInv'
    <2>1. PICK l \in {"remove", "done"} : Goto(j, l)
      BY <1>15 DEF KillMirror, RemoveRecord
    <2>2. UNCHANGED <<target, listed, lazy>> /\ Shrinks
      BY <1>15, ForgetShrinks DEF KillMirror, LeaveWindows, RemoveRecord, Shrinks
    <2>3. \A k \in Jobs : pc'[k] \notin {"remove", "done"} => pc'[k] = pc[k]
      BY <2>1 DEF Goto
    <2>4. QED BY <2>2, <2>3, TwinShrinks
  <1>16. ASSUME NEW j \in Jobs, PurgeNext(j) PROVE TwinInv'
    <2>1. UNCHANGED <<target, listed, lazy>> /\ Shrinks
      BY <1>16, ForgetShrinks DEF PurgeNext, Shrinks
    <2>2. \A k \in Jobs : pc'[k] \notin {"remove", "done"} => pc'[k] = pc[k]
      BY <1>16 DEF PurgeNext, Goto
    <2>3. QED BY <2>1, <2>2, TwinShrinks
  <1>17. CASE Background
    BY <1>17, BackgroundFrame, BackgroundShrinks, TwinShrinks
  <1>18. QED
    BY <1>1, <1>2, <1>3, <1>4, <1>5, <1>6, <1>7, <1>8, <1>9, <1>10, <1>11, <1>12, <1>13, <1>14, <1>15, <1>16, <1>17
    DEF Next, Work, Background

\* However many commands connect, restore, create, delete and purge at once,
\* and whatever the collector removes, a session has one record while the
\* dialog is not used, and one mirror window unless a record of it was removed
\* beside a window that survived.
THEOREM OneMirrorPerSession == Spec => []MirrorsAreUnique
  <1>1. Init => MirrorInv
    BY DEF Init, MirrorInv, BornInv, OnceInv, TwinInv, Clean, Pipeline, Mirroring, Restoring
  <1>2. TypeOK /\ MirrorInv /\ [Next]_vars => MirrorInv'
    <2> SUFFICES ASSUME TypeOK, MirrorInv, [Next]_vars PROVE MirrorInv'
      OBVIOUS
    <2>1. BornInv'
      BY NextBorn DEF MirrorInv
    <2>2. dials' = 0 => dials = 0
      BY BackgroundFrame
         DEF TypeOK, Next, Background, Create, Command, Dialog, DeletePlaceholder, Drop, Delete, Purge, PurgeNext,
             Work, Ensure, Dial, AddRemote, Show, List, RestoreNext, RestoreWindow, RestoreRecord, StartStream, Connected, Call,
             CreateMirror, MirrorWindow, MirrorRecord, AddWindow, AddRecord, Finish, FailPlaceholder, OpenErrorWindow, KillMirror, RemoveRecord, vars
    <2>3. dials' = 0 => OnceInv' /\ TwinInv'
      BY <2>2, NextOnce, NextTwin DEF MirrorInv
    <2>4. QED BY <2>1, <2>3 DEF MirrorInv
  <1>3. MirrorInv => MirrorsAreUnique
    BY DEF MirrorInv, TwinInv, MirrorsAreUnique
  <1>4. QED BY <1>1, <1>2, <1>3, TypeCorrect, PTL DEF Spec
=============================================================================
