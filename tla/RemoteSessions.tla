---------------------------- MODULE RemoteSessions ----------------------------
(***************************************************************************)
(* The TUI's work on the sessions of one remote host: the connect pipeline *)
(* of root.go with the lazy connections in front of it (remote_host.go),   *)
(* remote creation behind a placeholder and deletion (session_command.go), *)
(* the mirror windows (mirror.go), and the TUI's own garbage collector     *)
(* (root.go, gc.go) and purge, which work on the same store.               *)
(*                                                                         *)
(* A job is one goroutine the GUI starts for a key: a creation, a worktree *)
(* or PM command, the connect dialog, a deletion or a purge.  A job that   *)
(* runs connectRemoteHost gives its name to the connection it makes.  The  *)
(* placeholder of a creation has the name of its job.                      *)
(***************************************************************************)
EXTENDS Integers

CONSTANTS
  Jobs,       (* the goroutines                                            *)
  NoJob,      (* no provider is registered                                 *)
  Sessions,   (* session ids of the remote daemon                          *)
  NoSession,
  Visits      (* bounds an execution may have: the sessions in it, uses of
                 the connect dialog, connections and mirrors lost, and
                 collections begun by the garbage collector                *)

ASSUME ConstantsAssumption ==
  /\ NoJob \notin Jobs /\ NoSession \notin Sessions
  /\ Jobs \cap Sessions = {}
  /\ Visits \subseteq [sessions : SUBSET Sessions, dials : Nat, drops : Nat, sweeps : Nat]

\* What the store may hold an entry for: placeholders and sessions.
Entries == Jobs \cup Sessions

VARIABLES
  op,           (* what each job does                                      *)
  pc,           (* where each job is                                       *)
  target,       (* the session each job handles                            *)
  listed,       (* what RestoreExisting has still to look at               *)
  lazy,         (* lazyConn of the host: no entry, once running, its error *)
  provider,     (* composite.remotes[host]: the job that connected it      *)
  shown,        (* remoteConns[host], the connection of the status bar     *)
  live,         (* the connections that are up                             *)
  streams,      (* the connections whose SSE stream was started            *)
  remote,       (* the sessions that run on the remote daemon              *)
  born,         (* session ids ever used                                   *)
  placeholder,  (* status of each job's placeholder, none: not in store    *)
  errorWindow,  (* the error window of each job's placeholder              *)
  records,      (* how many store records each remote session has          *)
  status,       (* what the store holds of their status                    *)
  windows,      (* how many mirror windows each remote session has         *)
  exited,       (* sessions with a mirror whose ssh has exited             *)
  purging,      (* what a purge has still to remove                        *)
  gc,           (* where the garbage collector is                          *)
  seen,         (* the entries whose windows Sync listed                   *)
  condemned,    (* what a collection has still to delete                   *)
  excused,      (* history: the entries that may leave the store for good, *)
  left,         (*   the sessions whose record went before their window    *)
  visit,        (* the bounds of this execution                            *)
  dials, drops, sweeps

hostVars  == <<lazy, provider, shown, live, streams>>
placeVars  == <<placeholder, errorWindow>>
mirrorVars == <<records, status, windows, exited, left>>
storeVars  == <<placeVars, mirrorVars>>
remoteVars == <<remote, born>>
sweepVars == <<gc, seen, condemned, sweeps, visit>>
vars == <<op, pc, target, listed, purging, hostVars, storeVars, remoteVars, sweepVars, excused, dials, drops>>

Ops == {"none", "create", "command", "dialog", "delete", "purge"}
Statuses == {"running", "orphan", "dead"}
Labels == {"idle", "ensure", "dial", "add", "show", "list", "restore", "restoreWindow", "restoreRecord",
           "stream", "connected", "call", "mirror", "window", "record", "finish", "failing", "errorWindow",
           "killMirror", "remove", "purge", "done"}
TypeOK ==
  /\ op \in [Jobs -> Ops] /\ pc \in [Jobs -> Labels]
  /\ target \in [Jobs -> Sessions \cup {NoSession}]
  /\ listed \in [Jobs -> SUBSET Sessions]
  /\ lazy \in {"none", "running", "ok", "failed"}
  /\ provider \in Jobs \cup {NoJob} /\ shown \in Jobs \cup {NoJob}
  /\ live \subseteq Jobs /\ streams \subseteq Jobs
  /\ remote \subseteq Sessions /\ born \subseteq Sessions
  /\ placeholder \in [Jobs -> Statuses \cup {"none"}]
  /\ errorWindow \in [Jobs -> {"none", "open", "closed"}]
  /\ records \in [Sessions -> Nat] /\ windows \in [Sessions -> Nat]
  /\ status \in [Sessions -> Statuses]
  /\ exited \subseteq Sessions /\ left \subseteq Sessions
  /\ purging \in [Jobs -> SUBSET Entries]
  /\ gc \in {"idle", "sync", "snapshot", "collect"}
  /\ seen \subseteq Entries /\ condemned \subseteq Entries
  /\ excused \subseteq Entries
  /\ visit \in Visits
  /\ dials \in 0 .. visit.dials /\ drops \in 0 .. visit.drops /\ sweeps \in 0 .. visit.sweeps

\* Sessions of an earlier run of the TUI may live on the daemon, and some of
\* them still have their record and their mirror window here.
Init ==
  /\ op = [j \in Jobs |-> "none"] /\ pc = [j \in Jobs |-> "idle"]
  /\ target = [j \in Jobs |-> NoSession] /\ listed = [j \in Jobs |-> {}]
  /\ lazy = "none" /\ provider = NoJob /\ shown = NoJob /\ live = {} /\ streams = {}
  /\ visit \in Visits /\ remote \in SUBSET visit.sessions /\ born = remote
  /\ \E mirrored \in SUBSET remote :
       /\ records = [s \in Sessions |-> IF s \in mirrored THEN 1 ELSE 0]
       /\ windows = records
  /\ placeholder = [j \in Jobs |-> "none"] /\ errorWindow = [j \in Jobs |-> "none"]
  /\ status = [s \in Sessions |-> "running"] /\ exited = {} /\ left = {}
  /\ purging = [j \in Jobs |-> {}] /\ gc = "idle" /\ seen = {} /\ condemned = {}
  /\ excused = {}
  /\ dials = 0 /\ drops = 0 /\ sweeps = 0

At(j, label) == pc[j] = label
Goto(j, label) == pc' = [pc EXCEPT ![j] = label]
StartOp(j, kind, label) ==
  /\ At(j, "idle") /\ op' = [op EXCEPT ![j] = kind] /\ Goto(j, label)

\* The daemon answers calls of the registered provider.
Reachable == provider \in live

-----------------------------------------------------------------------------
(* The keys                                                                *)

\* Create puts a placeholder into the store and starts completeRemoteCreate,
\* unless the store cannot be saved: then the placeholder stays and nobody
\* works on it.
Create(j) ==
  /\ StartOp(j, "create", "ensure") \/ StartOp(j, "create", "done")
  /\ placeholder' = [placeholder EXCEPT ![j] = "running"]
  /\ UNCHANGED <<target, listed, purging, hostVars, errorWindow, mirrorVars, remoteVars, excused, sweepVars, dials, drops>>

\* CreateWorktree, ResumeWorktree, CreatePMSession, CreateWorkerSession.
Command(j) ==
  /\ StartOp(j, "command", "ensure")
  /\ UNCHANGED <<target, listed, purging, hostVars, storeVars, remoteVars, excused, sweepVars, dials, drops>>

Dialog(j) ==
  /\ dials < visit.dials /\ dials' = dials + 1
  /\ StartOp(j, "dialog", "dial")
  /\ UNCHANGED <<target, listed, purging, hostVars, storeVars, remoteVars, excused, sweepVars, drops>>

\* Delete finds the session and asks the daemon, whose error it ignores.
Delete(j, s) ==
  /\ records[s] > 0
  /\ StartOp(j, "delete", "killMirror")
  /\ target' = [target EXCEPT ![j] = s]
  /\ excused' = excused \cup {s}
  /\ \/ Reachable /\ remote' = remote \ {s}
     \/ UNCHANGED remote
  /\ UNCHANGED <<listed, purging, hostVars, storeVars, born, sweepVars, dials, drops>>

\* n windows of session s are left; which of two went is not recorded.
LeaveWindows(s, n) ==
  /\ windows' = [windows EXCEPT ![s] = n]
  /\ \/ exited' = exited \ {s}
     \/ n > 0 /\ UNCHANGED exited

\* DeleteMirror, whose error is ignored: tmux may fail, and kills a window by
\* name only when the name is not ambiguous.
KillMirror(j) ==
  /\ At(j, "killMirror") /\ Goto(j, "remove")
  /\ \/ windows[target[j]] = 1 /\ LeaveWindows(target[j], 0)
     \/ UNCHANGED <<windows, exited>>
  /\ UNCHANGED <<op, target, listed, purging, hostVars, placeVars, records, status, left, remoteVars, excused, sweepVars,
                 dials, drops>>

\* Store.Remove takes the first record of an id, if there is one; the status
\* is then that of the record that remains.
Forget(s) ==
  /\ records' = [records EXCEPT ![s] = IF @ = 0 THEN 0 ELSE @ - 1]
  /\ \E st \in {status[s], "running"} :
       /\ records'[s] = 0 => st = "running"
       /\ status' = [status EXCEPT ![s] = st]
  /\ left' = left \cup {x \in Sessions : x = s /\ records'[x] = 0 /\ windows'[x] > 0}

RemoveRecord(j) ==
  /\ At(j, "remove") /\ Goto(j, "done")
  /\ UNCHANGED <<windows, exited>> /\ Forget(target[j])
  /\ UNCHANGED <<op, target, listed, purging, hostVars, placeVars, remoteVars, excused, sweepVars,
                 dials, drops>>

\* Delete of a placeholder: the daemon and tmux know nothing of its id.
DeletePlaceholder(j) ==
  /\ placeholder[j] # "none"
  /\ placeholder' = [placeholder EXCEPT ![j] = "none"]
  /\ excused' = excused \cup {j}
  /\ UNCHANGED <<op, pc, target, listed, purging, hostVars, errorWindow, mirrorVars, remoteVars, sweepVars,
                 dials, drops>>

\* PurgeOrphans looks for its orphans on a copy of the store.
Purge(j) ==
  /\ StartOp(j, "purge", "purge")
  /\ purging' = [purging EXCEPT ![j] =
       {k \in Jobs : placeholder[k] = "orphan"} \cup {s \in Sessions : records[s] > 0 /\ status[s] = "orphan"}]
  /\ UNCHANGED <<target, listed, hostVars, storeVars, remoteVars, excused, sweepVars, dials, drops>>

\* It removes them one by one and leaves tmux alone.
PurgeNext(j) ==
  /\ At(j, "purge") /\ UNCHANGED <<windows, exited>>
  /\ \/ purging[j] = {} /\ Goto(j, "done") /\ UNCHANGED <<purging, placeholder, records, status, left, excused>>
     \/ \E e \in purging[j] :
          /\ purging' = [purging EXCEPT ![j] = @ \ {e}] /\ excused' = excused \cup {e}
          /\ \/ /\ e \in Jobs /\ placeholder' = [placeholder EXCEPT ![e] = "none"]
                /\ UNCHANGED <<records, status, left>>
             \/ e \in Sessions /\ Forget(e) /\ UNCHANGED placeholder
          /\ UNCHANGED pc
  /\ UNCHANGED <<op, target, listed, hostVars, errorWindow, remoteVars, sweepVars, dials, drops>>

-----------------------------------------------------------------------------
(* EnsureConnected and MarkConnected                                       *)

AfterEnsure(j, ok) == Goto(j, IF ok THEN "call" ELSE "failing")

\* Mutant of Ensure: an entry that exists counts as connected.
EnsureByEntry(j) ==
  /\ At(j, "ensure")
  /\ \/ lazy = "none" /\ lazy' = "running" /\ Goto(j, "dial")
     \/ lazy # "none" /\ AfterEnsure(j, lazy # "failed") /\ UNCHANGED lazy
  /\ UNCHANGED <<op, target, listed, purging, provider, shown, live, streams, storeVars, remoteVars, excused, sweepVars, dials, drops>>

\* once.Do: the first caller connects, the others wait for its result.
Ensure(j) ==
  /\ At(j, "ensure")
  /\ \/ lazy = "none" /\ lazy' = "running" /\ Goto(j, "dial")
     \/ lazy \in {"ok", "failed"} /\ AfterEnsure(j, lazy = "ok") /\ UNCHANGED lazy
  /\ UNCHANGED <<op, target, listed, purging, provider, shown, live, streams, storeVars, remoteVars, excused, sweepVars, dials, drops>>

\* Mutant of AfterDialFailed: the once of a failed connect is never done.
AfterDialFailedStuck(j) == Goto(j, IF op[j] = "dialog" THEN "done" ELSE "failing") /\ UNCHANGED lazy

AfterDialFailed(j) ==
  IF op[j] = "dialog"
  THEN Goto(j, "done") /\ UNCHANGED lazy
  ELSE AfterEnsure(j, FALSE) /\ lazy' = "failed"

\* MarkConnected keeps an entry that exists.
MarkConnected == lazy' = IF lazy = "none" THEN "ok" ELSE lazy

AfterDial(j) ==
  IF op[j] = "dialog"
  THEN Goto(j, "done") /\ MarkConnected
  ELSE AfterEnsure(j, TRUE) /\ lazy' = "ok"

-----------------------------------------------------------------------------
(* connectRemoteHost                                                       *)

Dial(j) ==
  /\ At(j, "dial")
  /\ \/ live' = live \cup {j} /\ Goto(j, "add") /\ UNCHANGED lazy
     \/ AfterDialFailed(j) /\ UNCHANGED live
  /\ UNCHANGED <<op, target, listed, purging, provider, shown, streams, storeVars, remoteVars, excused, sweepVars, dials, drops>>

AddRemote(j) ==
  /\ At(j, "add") /\ provider' = j /\ Goto(j, "show")
  /\ UNCHANGED <<op, target, listed, purging, lazy, shown, live, streams, storeVars, remoteVars, excused, sweepVars, dials, drops>>

Show(j) ==
  /\ At(j, "show") /\ shown' = j /\ Goto(j, "list")
  /\ UNCHANGED <<op, target, listed, purging, lazy, provider, live, streams, storeVars, remoteVars, excused, sweepVars, dials, drops>>

\* The running sessions of the daemon; an error skips the restoration.
List(j) ==
  /\ At(j, "list")
  /\ \/ j \in live /\ listed' = [listed EXCEPT ![j] = remote] /\ Goto(j, "restore")
     \/ UNCHANGED listed /\ Goto(j, "stream")
  /\ UNCHANGED <<op, target, purging, hostVars, storeVars, remoteVars, excused, sweepVars, dials, drops>>

\* Mutant of RestoreNext: a mirror that exists is made again.
RestoreAlways(j) ==
  /\ At(j, "restore")
  /\ \/ listed[j] = {} /\ Goto(j, "stream") /\ UNCHANGED <<listed, target>>
     \/ \E s \in listed[j] :
          /\ listed' = [listed EXCEPT ![j] = @ \ {s}]
          /\ Goto(j, "restoreWindow") /\ target' = [target EXCEPT ![j] = s]
  /\ UNCHANGED <<op, purging, hostVars, storeVars, remoteVars, excused, sweepVars, dials, drops>>

\* RestoreExisting skips a session that is in the store already.
RestoreNext(j) ==
  /\ At(j, "restore")
  /\ \/ listed[j] = {} /\ Goto(j, "stream") /\ UNCHANGED <<listed, target>>
     \/ \E s \in listed[j] :
          /\ listed' = [listed EXCEPT ![j] = @ \ {s}]
          /\ IF records[s] > 0
             THEN UNCHANGED <<pc, target>>
             ELSE Goto(j, "restoreWindow") /\ target' = [target EXCEPT ![j] = s]
  /\ UNCHANGED <<op, purging, hostVars, storeVars, remoteVars, excused, sweepVars, dials, drops>>

StartStream(j) ==
  /\ At(j, "stream")
  /\ \/ j \in live /\ streams' = streams \cup {j}
     \/ UNCHANGED streams
  /\ target' = [target EXCEPT ![j] = NoSession]
  /\ Goto(j, "connected")
  /\ UNCHANGED <<op, listed, purging, lazy, provider, shown, live, storeVars, remoteVars, excused, sweepVars, dials, drops>>

Connected(j) ==
  /\ At(j, "connected") /\ AfterDial(j)
  /\ UNCHANGED <<op, target, listed, purging, provider, shown, live, streams, storeVars, remoteVars, excused, sweepVars, dials, drops>>

-----------------------------------------------------------------------------
(* The daemon's answer, the mirror and the placeholder                     *)

\* The daemon makes the session; its answer may be lost.
Call(j) ==
  /\ At(j, "call")
  /\ \/ \E s \in visit.sessions \ born :
          /\ Reachable
          /\ remote' = remote \cup {s} /\ born' = born \cup {s}
          /\ \/ Goto(j, "mirror") /\ target' = [target EXCEPT ![j] = s]
             \/ Goto(j, "failing") /\ UNCHANGED target
     \/ Goto(j, "failing") /\ UNCHANGED <<target, remoteVars>>
  /\ UNCHANGED <<op, listed, purging, hostVars, storeVars, excused, sweepVars, dials, drops>>

\* CreateMirror skips a session that is in the store already.
CreateMirror(j) ==
  /\ At(j, "mirror")
  /\ Goto(j, IF records[target[j]] > 0 THEN "finish" ELSE "window")
  /\ UNCHANGED <<op, target, listed, purging, hostVars, storeVars, remoteVars, excused, sweepVars, dials, drops>>

\* addMirrorSession, for RestoreExisting (which goes on with the next session)
\* and for CreateMirror: the window first, the record only if there is one.
AddWindow(j, from, made, failed) ==
  /\ At(j, from)
  /\ \/ windows' = [windows EXCEPT ![target[j]] = @ + 1] /\ Goto(j, made)
     \/ UNCHANGED windows /\ Goto(j, failed)
  /\ UNCHANGED <<op, target, listed, purging, hostVars, placeVars, records, status, exited, left, remoteVars, excused, sweepVars,
                 dials, drops>>

\* Of two records, either may be the one that is found first.
AddRecord(j, from, next) ==
  /\ At(j, from) /\ Goto(j, next)
  /\ records' = [records EXCEPT ![target[j]] = @ + 1]
  /\ \E st \in {status[target[j]], "running"} : status' = [status EXCEPT ![target[j]] = st]
  /\ UNCHANGED <<op, target, listed, purging, hostVars, placeVars, windows, exited, left, remoteVars, excused, sweepVars,
                 dials, drops>>

RestoreWindow(j) == AddWindow(j, "restoreWindow", "restoreRecord", "restore")
RestoreRecord(j) == AddRecord(j, "restoreRecord", "restore")
\* Mutant of MirrorWindow: the failure of the window is not reported.
MirrorWindowUnchecked(j) == AddWindow(j, "window", "record", "finish")
MirrorWindow(j) == AddWindow(j, "window", "record", "failing")
MirrorRecord(j) == AddRecord(j, "record", "finish")

\* The placeholder goes when the real session is in the store.
Finish(j) ==
  /\ At(j, "finish") /\ Goto(j, "done")
  /\ placeholder' = [placeholder EXCEPT ![j] = "none"]
  /\ UNCHANGED <<op, target, listed, purging, hostVars, errorWindow, mirrorVars, remoteVars, excused, sweepVars, dials, drops>>

\* failPlaceholder, or the error a command shows.
FailPlaceholder(j) ==
  /\ At(j, "failing")
  /\ placeholder' = [placeholder EXCEPT ![j] = IF @ = "none" THEN "none" ELSE "dead"]
  /\ excused' = excused \cup {j}
  /\ Goto(j, IF op[j] = "create" THEN "errorWindow" ELSE "done")
  /\ UNCHANGED <<op, target, listed, purging, hostVars, errorWindow, mirrorVars, remoteVars, sweepVars,
                 dials, drops>>

OpenErrorWindow(j) ==
  /\ At(j, "errorWindow") /\ Goto(j, "done")
  /\ \/ placeholder[j] # "none" /\ errorWindow' = [errorWindow EXCEPT ![j] = "open"]
     \/ UNCHANGED errorWindow \* deleted meanwhile, or tmux failed
  /\ UNCHANGED <<op, target, listed, purging, hostVars, placeholder, mirrorVars, remoteVars, excused, sweepVars, dials, drops>>

\* The tunnel of a connection dies; RemoteConnection has what follows.
Drop(c) ==
  /\ c \in live /\ drops < visit.drops /\ drops' = drops + 1
  /\ live' = live \ {c}
  /\ UNCHANGED <<op, pc, target, listed, purging, lazy, provider, shown, streams, storeVars, remoteVars, excused, sweepVars, dials>>

-----------------------------------------------------------------------------
(* The garbage collector and what happens in tmux                          *)

\* One collection at a time: Sync asks tmux for its windows.
SyncList ==
  /\ gc = "idle" /\ sweeps < visit.sweeps /\ sweeps' = sweeps + 1
  /\ gc' = "sync"
  /\ seen' = {s \in Sessions : windows[s] > 0} \cup {j \in Jobs : errorWindow[j] # "none"}
  /\ UNCHANGED <<op, pc, target, listed, purging, hostVars, storeVars, remoteVars, excused, condemned, visit, dials, drops>>

\* What SyncWithTmux may say of a session, of a placeholder.  The panes were
\* listed after the windows: a window without a pane counts as detached, which
\* nothing here tells from running.
SyncedSession(s) ==
  IF s \notin seen THEN {"orphan"}
  ELSE {st \in {"running", "dead"} : /\ st = "dead" => s \in exited
                                     /\ st = "running" => s \notin exited \/ windows[s] > 1}
SyncedPlaceholder(j) ==
  IF j \notin seen THEN "orphan" ELSE IF errorWindow[j] = "closed" THEN "dead" ELSE "running"

\* It works on the store as it is by now, which the jobs change meanwhile.
SyncApply ==
  /\ gc = "sync" /\ gc' = "snapshot" /\ seen' = {}
  /\ placeholder' = [j \in Jobs |-> IF placeholder[j] = "none" THEN "none" ELSE SyncedPlaceholder(j)]
  /\ \E synced \in [Sessions -> Statuses] :
       /\ \A s \in Sessions : synced[s] \in IF records[s] = 0 THEN {"running"} ELSE SyncedSession(s)
       /\ status' = synced
  /\ UNCHANGED <<op, pc, target, listed, purging, hostVars, errorWindow, records, windows, exited, left, remoteVars, excused,
                 condemned, sweeps, visit, dials, drops>>

\* has-session says no: no status changes and the collection goes on; an
\* error of tmux ends it.
SyncWithout ==
  /\ gc = "sync" /\ gc' \in {"snapshot", "idle"} /\ seen' = {}
  /\ UNCHANGED <<op, pc, target, listed, purging, hostVars, storeVars, remoteVars, excused, condemned, sweeps, visit, dials, drops>>

\* The dead entries of a copy of the store.  The grace period spares a young
\* placeholder; a mirror's record has no creation time.
Snapshot ==
  /\ gc = "snapshot" /\ gc' = "collect"
  /\ \E old \in SUBSET {j \in Jobs : placeholder[j] = "dead"} :
       condemned' = old \cup {s \in Sessions : records[s] > 0 /\ status[s] = "dead"}
  /\ UNCHANGED <<op, pc, target, listed, purging, hostVars, storeVars, remoteVars, excused, seen, sweeps, visit, dials, drops>>

\* Manager.Delete: the window by its tmux id, when the entry is not an orphan
\* by now, and the record.
CollectPlaceholder(j) ==
  /\ placeholder' = [placeholder EXCEPT ![j] = "none"]
  /\ \/ placeholder[j] \in {"running", "dead"} /\ errorWindow' = [errorWindow EXCEPT ![j] = "none"]
     \/ UNCHANGED errorWindow
  /\ UNCHANGED mirrorVars

CollectSession(s) ==
  /\ \/ records[s] > 0 /\ status[s] # "orphan" /\ windows[s] > 0 /\ LeaveWindows(s, windows[s] - 1)
     \/ UNCHANGED <<windows, exited>>
  /\ Forget(s)
  /\ UNCHANGED placeVars

Collect(e) ==
  /\ gc = "collect" /\ e \in condemned /\ condemned' = condemned \ {e}
  /\ \/ e \in Jobs /\ CollectPlaceholder(e)
     \/ e \in Sessions /\ CollectSession(e)
  /\ UNCHANGED <<op, pc, target, listed, purging, hostVars, remoteVars, excused, gc, seen, sweeps, visit, dials, drops>>

CollectEnd ==
  /\ gc = "collect" /\ condemned = {} /\ gc' = "idle"
  /\ UNCHANGED <<op, pc, target, listed, purging, hostVars, storeVars, remoteVars, excused, seen, condemned, sweeps, visit, dials, drops>>

\* The ssh of a mirror exits: tmux keeps the dead pane, or closes the window
\* while remain-on-exit was not set yet (new-session of createMirrorWindow).
MirrorExits(s) ==
  /\ windows[s] > 0 /\ (s \notin exited \/ windows[s] > 1)
  /\ drops < visit.drops /\ drops' = drops + 1
  /\ excused' = excused \cup {s}
  /\ \/ exited' = exited \cup {s} /\ UNCHANGED windows
     \/ windows' = [windows EXCEPT ![s] = @ - 1] /\ UNCHANGED exited
  /\ UNCHANGED <<op, pc, target, listed, purging, hostVars, placeVars, records, status, left, remoteVars, sweepVars,
                 dials>>

\* The user presses Enter in an error window.
CloseErrorWindow(j) ==
  /\ errorWindow[j] = "open" /\ errorWindow' = [errorWindow EXCEPT ![j] = "closed"]
  /\ UNCHANGED <<op, pc, target, listed, purging, hostVars, placeholder, mirrorVars, remoteVars, excused, sweepVars, dials, drops>>

Work(j) ==
  \/ Ensure(j) \/ Dial(j) \/ AddRemote(j) \/ Show(j) \/ List(j) \/ RestoreNext(j)
  \/ RestoreWindow(j) \/ RestoreRecord(j) \/ StartStream(j) \/ Connected(j)
  \/ Call(j) \/ CreateMirror(j) \/ MirrorWindow(j) \/ MirrorRecord(j) \/ Finish(j)
  \/ FailPlaceholder(j) \/ OpenErrorWindow(j) \/ KillMirror(j) \/ RemoveRecord(j) \/ PurgeNext(j)

Collector == SyncList \/ SyncApply \/ SyncWithout \/ Snapshot \/ CollectEnd \/ \E e \in Entries : Collect(e)

Next ==
  \/ \E j \in Jobs :
       \/ Create(j) \/ Command(j) \/ Dialog(j) \/ DeletePlaceholder(j) \/ Purge(j)
       \/ Drop(j) \/ CloseErrorWindow(j)
       \/ \E s \in Sessions : Delete(j, s)
       \/ Work(j)
  \/ \E s \in Sessions : MirrorExits(s)
  \/ Collector

Spec == Init /\ [][Next]_vars

\* A goroutine that was started runs on; every call it makes has a timeout.
FairSpec == Spec /\ \A j \in Jobs : WF_vars(Work(j))

-----------------------------------------------------------------------------
(* Properties                                                              *)

\* EnsureConnected returns nil only when a provider is registered for the
\* host: "no remote provider" (session_command.go) never meets a command that
\* connected, whoever ran the pipeline and however far the dialog came.
EnsuredIsRoutable == \A j \in Jobs : At(j, "call") => provider # NoJob

\* From the key on there is an entry in the sidebar for a creation: the
\* placeholder, or the session it became.  It leaves for good only when the
\* user deleted it, a purge took it for an orphan, or the collector may take
\* it, because its mirror was lost or its creation had failed.  The swap of the
\* one for the other leaves no gap, and a creation that fails half way keeps its
\* placeholder to say so.
CreatedStaysListed ==
  \A j \in Jobs : op[j] = "create" =>
    \/ placeholder[j] # "none" \/ j \in excused
    \/ At(j, "done") /\ target[j] # NoSession /\ (records[target[j]] > 0 \/ target[j] \in excused)

\* While only sync.Once connects the host, no session has two records, and it
\* has two mirror windows only if its record went before its window did (a
\* deletion whose error is ignored, a purge): RestoreExisting is over before
\* the first creation, so its check and the one of CreateMirror cannot pass
\* for the same session.
MirrorsAreUnique ==
  dials = 0 => \A s \in Sessions : records[s] <= 1 /\ (windows[s] <= 1 \/ s \in left)

\* A placeholder never stays "connecting..." once its goroutine was started:
\* it leaves the store or is marked as failed.  (The one of a Create that could
\* not save the store does stay.)
PlaceholderIsResolved ==
  \A j \in Jobs : placeholder[j] # "none" /\ ~At(j, "done") ~> placeholder[j] = "none" \/ j \in excused
=============================================================================
