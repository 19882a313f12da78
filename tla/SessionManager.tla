---------------------------- MODULE SessionManager ----------------------------
(***************************************************************************)
(* Sessions, their tmux windows and state.json: internal/session           *)
(* (manager.go, store.go, gc.go).                                          *)
(*                                                                         *)
(* Goroutines of the TUI and of the HTTP handlers (Clients) create, resume,*)
(* delete, rename and purge sessions while the garbage collector (GC)      *)
(* syncs the store with tmux and deletes sessions whose pane has exited.   *)
(* Manager.mu (here mu) covers Create, Delete, ResumeSession and Sync, but *)
(* neither Rename nor PurgeOrphans; every operation of the store is atomic *)
(* under Store.mu and is a step of its own.                                *)
(***************************************************************************)
EXTENDS Naturals, FiniteSets

CONSTANTS
  Ids,          (* session ids                                             *)
  Clients,      (* goroutines that call the manager                        *)
  GC,           (* the garbage collector's goroutine                       *)
  Free,         (* nobody holds Manager.mu                                 *)
  Ops,          (* the operations the clients call                         *)
  MaxLaunches,  (* bound: windows ever launched                            *)
  MaxCrashes,   (* bound: restarts of the program                          *)
  SaveMayFail,  (* TRUE: writing state.json can fail                       *)
  KillMayFail   (* TRUE: kill-window can fail and leave the window         *)

Threads == Clients \cup {GC}
Births == 1 .. MaxLaunches

ASSUME ConstantsAssumption ==
  /\ Ids # {} /\ GC \notin Clients /\ Free \notin Threads
  /\ Ops \subseteq {"create", "resume", "delete", "rename", "purge"}
  /\ MaxLaunches \in Nat \ {0} /\ MaxCrashes \in Nat
  /\ SaveMayFail \in BOOLEAN /\ KillMayFail \in BOOLEAN

VARIABLES
  records,   (* the sessions of the store                                  *)
  disk,      (* the sessions of state.json                                 *)
  window,    (* the tmux window of each id: no window, pane alive or dead  *)
  mu,        (* the holder of Manager.mu                                   *)
  pc,        (* where each goroutine is                                    *)
  arg,       (* the id each goroutine works on                             *)
  saved,     (* ResumeSession's savedOld, as a set of at most one record   *)
  listed,    (* the windows Sync listed                                    *)
  todo,      (* the ids a collection or a purge still has to remove        *)
  aged,      (* launches older than the grace period                       *)
  used,      (* ids handed out so far                                      *)
  launches, crashes,
  unsaved    (* history: the ids of which a resume could not save its record *)

vars == <<records, disk, window, mu, pc, arg, saved, listed, todo, aged, used, launches, crashes, unsaved>>

Statuses == {"Unknown", "Detached", "Running", "Dead", "Orphan"}

\* A session: born, the launch that made it, stands for CreatedAt, and
\* renamed for a Name changed since.  Status is not persisted.
Record == [id : Ids, born : Births, status : Statuses, renamed : BOOLEAN]
Stored == [id : Ids, born : Births, renamed : BOOLEAN]
Panes  == {"none", "alive", "dead"}
Labels == {"idle", "remove", "launch", "save", "restored", "flush", "purge", "sync", "snapshot", "collect"}

TypeOK ==
  /\ records \in SUBSET Record
  /\ disk \in SUBSET Stored
  /\ window \in [Ids -> Panes]
  /\ mu \in Threads \cup {Free}
  /\ pc \in [Threads -> Labels]
  /\ arg \in [Threads -> Ids]
  /\ saved \in SUBSET Record
  /\ listed \in SUBSET Ids
  /\ todo \in [Threads -> SUBSET Ids]
  /\ aged \in SUBSET Births
  /\ used \in SUBSET Ids
  /\ launches \in 0 .. MaxLaunches
  /\ crashes \in 0 .. MaxCrashes
  /\ unsaved \in SUBSET Ids

Init ==
  /\ records = {} /\ disk = {} /\ window = [i \in Ids |-> "none"]
  /\ mu = Free /\ pc = [t \in Threads |-> "idle"]
  /\ arg = [t \in Threads |-> CHOOSE id \in Ids : TRUE]
  /\ saved = {} /\ listed = {} /\ todo = [t \in Threads |-> {}]
  /\ aged = {} /\ used = {} /\ launches = 0 /\ crashes = 0 /\ unsaved = {}

Of(id) == {r \in records : r.id = id}

\* What Save writes and what Load makes of it.
Store(r) == [id |-> r.id, born |-> r.born, renamed |-> r.renamed]
Persisted == {Store(r) : r \in records}
Restore(d) == [id |-> d.id, born |-> d.born, status |-> "Unknown", renamed |-> d.renamed]

\* Store.Remove deletes the first session with the id.
RemoveFirst(id) ==
  \/ Of(id) = {} /\ UNCHANGED records
  \/ \E r \in Of(id) : records' = records \ {r}

KillWindow(id) ==
  \/ window' = [window EXCEPT ![id] = "none"]
  \/ KillMayFail /\ UNCHANGED window

Goto(t, label) == pc' = [pc EXCEPT ![t] = label]
Return(t) == Goto(t, IF t = GC THEN "collect" ELSE "idle")
Idle(c, op) == op \in Ops /\ pc[c] = "idle"

-----------------------------------------------------------------------------
(* Creating and resuming.                                                  *)

\* launchSession up to its Save: a window, then the record of it.
Launch(t, id, renamed) ==
  /\ launches < MaxLaunches
  /\ launches' = launches + 1
  /\ window' = [window EXCEPT ![id] = "alive"]
  /\ records' = records \cup {[id |-> id, born |-> launches + 1, status |-> "Running", renamed |-> renamed]}
  /\ mu' = t /\ Goto(t, "save")

\* A new session; a launch that fails changes nothing.
Create(c) ==
  /\ Idle(c, "create") /\ mu = Free
  /\ \E id \in Ids \ used :
       /\ Launch(c, id, FALSE)
       /\ arg' = [arg EXCEPT ![c] = id] /\ used' = used \cup {id}
  /\ UNCHANGED <<disk, saved, listed, todo, aged, crashes, unsaved>>

\* ResumeSession of an id that is no longer in the store.
ResumeCollected(c) ==
  /\ Idle(c, "resume") /\ mu = Free
  /\ \E id \in used :
       /\ Of(id) = {}
       /\ Launch(c, id, FALSE)
       /\ arg' = [arg EXCEPT ![c] = id]
  /\ UNCHANGED <<disk, saved, listed, todo, aged, used, crashes, unsaved>>

\* ResumeSession of an id in the store: find it and kill its window, ...
ResumeFind(c) ==
  /\ Idle(c, "resume") /\ mu = Free
  /\ \E old \in records :
       /\ saved' = {old} /\ arg' = [arg EXCEPT ![c] = old.id]
       /\ IF old.status = "Orphan" THEN UNCHANGED window ELSE KillWindow(old.id)
  /\ mu' = c /\ Goto(c, "remove")
  /\ UNCHANGED <<records, disk, listed, todo, aged, used, launches, crashes, unsaved>>

\* Mutants of ResumeRemove: the old record stays; its removal is saved.
ResumeKeeps(c) ==
  /\ pc[c] = "remove" /\ Goto(c, "launch")
  /\ UNCHANGED <<records, disk, window, mu, arg, saved, listed, todo, aged, used, launches, crashes, unsaved>>

ResumeRemoveSaves(c) ==
  /\ pc[c] = "remove" /\ Goto(c, "launch")
  /\ RemoveFirst(arg[c])
  /\ disk' = {Store(r) : r \in records'}
  /\ UNCHANGED <<window, mu, arg, saved, listed, todo, aged, used, launches, crashes, unsaved>>

\* ... remove the record, ...
ResumeRemove(c) ==
  /\ pc[c] = "remove"
  /\ RemoveFirst(arg[c])
  /\ Goto(c, "launch")
  /\ UNCHANGED <<disk, window, mu, arg, saved, listed, todo, aged, used, launches, crashes, unsaved>>

\* ... and launch under the same id.
ResumeLaunch(c) ==
  /\ pc[c] = "launch"
  /\ \E old \in saved : Launch(c, arg[c], old.renamed)
  /\ UNCHANGED <<disk, arg, saved, listed, todo, aged, used, crashes, unsaved>>

\* Mutant of RestoreOld: restores what state.json knows of the record.
RestoreStored(c) ==
  /\ records' = records \cup {Store(r) : r \in saved}
  /\ Goto(c, "restored")

\* Any error of the launch makes ResumeSession add the old record again.
RestoreOld(c) ==
  /\ records' = records \cup saved
  /\ Goto(c, "restored")

ResumeLaunchFails(c) ==
  /\ pc[c] = "launch"
  /\ RestoreOld(c)
  /\ UNCHANGED <<disk, window, mu, arg, saved, listed, todo, aged, used, launches, crashes, unsaved>>

-----------------------------------------------------------------------------
(* Saving and returning, with Manager.mu held.                             *)

Save(t) ==
  /\ pc[t] = "save"
  /\ disk' = Persisted
  /\ mu' = Free /\ saved' = {} /\ Return(t)
  /\ UNCHANGED <<records, window, arg, listed, todo, aged, used, launches, crashes, unsaved>>

\* The error of Save is an error of the launch as well: ResumeSession adds the
\* old record beside the one the launch has added already.
SaveFails(t) ==
  /\ pc[t] = "save" /\ SaveMayFail
  /\ \/ saved # {} /\ RestoreOld(t) /\ unsaved' = unsaved \cup {arg[t]} /\ UNCHANGED mu
     \/ saved = {} /\ mu' = Free /\ Return(t) /\ UNCHANGED <<records, unsaved>>
  /\ UNCHANGED <<disk, window, arg, saved, listed, todo, aged, used, launches, crashes>>

\* The Save after a restored record; its error is only logged.
SaveRestored(c) ==
  /\ pc[c] = "restored"
  /\ disk' = Persisted \/ (SaveMayFail /\ UNCHANGED disk)
  /\ mu' = Free /\ saved' = {} /\ Return(c)
  /\ UNCHANGED <<records, window, arg, listed, todo, aged, used, launches, crashes, unsaved>>

\* Mutant of DeleteOf: without kill-window.
DeleteRecordOnly(t, id) ==
  /\ mu = Free
  /\ \E r \in Of(id) : records' = records \ {r}
  /\ mu' = t /\ arg' = [arg EXCEPT ![t] = id] /\ Goto(t, "save")
  /\ UNCHANGED window

\* Delete, called by a client or by the collector.
DeleteOf(t, id) ==
  /\ mu = Free
  /\ \E r \in Of(id) :
       /\ IF r.status = "Orphan" THEN UNCHANGED window ELSE KillWindow(id)
       /\ records' = records \ {r}
  /\ mu' = t /\ arg' = [arg EXCEPT ![t] = id] /\ Goto(t, "save")

Delete(c) ==
  /\ Idle(c, "delete")
  /\ \E id \in Ids : DeleteOf(c, id)
  /\ UNCHANGED <<disk, saved, listed, todo, aged, used, launches, crashes, unsaved>>

-----------------------------------------------------------------------------
(* Rename and PurgeOrphans do not take Manager.mu.                         *)

\* Mutant of Rename: without Save.
RenameUnsaved(c) ==
  /\ Idle(c, "rename")
  /\ \E r \in records : records' = (records \ {r}) \cup {[r EXCEPT !.renamed = TRUE]}
  /\ UNCHANGED <<disk, window, mu, pc, arg, saved, listed, todo, aged, used, launches, crashes, unsaved>>

Rename(c) ==
  /\ Idle(c, "rename")
  /\ \E r \in records : records' = (records \ {r}) \cup {[r EXCEPT !.renamed = TRUE]}
  /\ Goto(c, "flush")
  /\ UNCHANGED <<disk, window, mu, arg, saved, listed, todo, aged, used, launches, crashes, unsaved>>

Purge(c) ==
  /\ Idle(c, "purge")
  /\ LET orphans == {r.id : r \in {s \in records : s.status = "Orphan"}}
     IN orphans # {} /\ todo' = [todo EXCEPT ![c] = orphans]
  /\ Goto(c, "purge")
  /\ UNCHANGED <<records, disk, window, mu, arg, saved, listed, aged, used, launches, crashes, unsaved>>

PurgeOne(c) ==
  /\ pc[c] = "purge"
  /\ \E id \in todo[c] :
       /\ RemoveFirst(id)
       /\ todo' = [todo EXCEPT ![c] = @ \ {id}]
       /\ Goto(c, IF todo[c] = {id} THEN "flush" ELSE "purge")
  /\ UNCHANGED <<disk, window, mu, arg, saved, listed, aged, used, launches, crashes, unsaved>>

Flush(c) ==
  /\ pc[c] = "flush"
  /\ disk' = Persisted \/ (SaveMayFail /\ UNCHANGED disk)
  /\ Goto(c, "idle")
  /\ UNCHANGED <<records, window, mu, arg, saved, listed, todo, aged, used, launches, crashes, unsaved>>

-----------------------------------------------------------------------------
(* The garbage collector: Sync, a copy of the sessions, Delete.            *)

\* Mutant of SyncList: without Manager.mu.
SyncListUnlocked ==
  /\ pc[GC] = "idle"
  /\ listed' = {id \in Ids : window[id] # "none"}
  /\ Goto(GC, "sync")
  /\ UNCHANGED <<records, disk, window, mu, arg, saved, todo, aged, used, launches, crashes, unsaved>>

SyncList ==
  /\ pc[GC] = "idle" /\ mu = Free
  /\ mu' = GC
  /\ listed' = {id \in Ids : window[id] # "none"}
  /\ Goto(GC, "sync")
  /\ UNCHANGED <<records, disk, window, arg, saved, todo, aged, used, launches, crashes, unsaved>>

\* has-session answers no: Sync leaves the statuses alone and reports success.
SyncNoSession ==
  /\ pc[GC] = "idle" /\ mu = Free
  /\ Goto(GC, "snapshot")
  /\ UNCHANGED <<records, disk, window, mu, arg, saved, listed, todo, aged, used, launches, crashes, unsaved>>

\* SyncWithTmux: the windows as listed before, their panes as they are now.
Observed(id) ==
  IF id \notin listed THEN "Orphan"
  ELSE CASE window[id] = "none"  -> "Detached"
         [] window[id] = "dead"  -> "Dead"
         [] window[id] = "alive" -> "Running"

SyncApply ==
  /\ pc[GC] = "sync"
  /\ records' = {[r EXCEPT !.status = Observed(r.id)] : r \in records}
  /\ mu' = Free /\ listed' = {} /\ Goto(GC, "snapshot")
  /\ UNCHANGED <<disk, window, arg, saved, todo, aged, used, launches, crashes, unsaved>>

\* list-panes fails: the collection ends.
SyncFails ==
  /\ pc[GC] = "sync"
  /\ mu' = Free /\ listed' = {} /\ Goto(GC, "idle")
  /\ UNCHANGED <<records, disk, window, arg, saved, todo, aged, used, launches, crashes, unsaved>>

\* Mutant of Snapshot: the grace period is compared the wrong way.
SnapshotYoung ==
  /\ pc[GC] = "snapshot"
  /\ todo' = [todo EXCEPT ![GC] = {r.id : r \in {s \in records : s.status = "Dead" /\ s.born \notin aged}}]
  /\ Goto(GC, "collect")
  /\ UNCHANGED <<records, disk, window, mu, arg, saved, listed, aged, used, launches, crashes, unsaved>>

Snapshot ==
  /\ pc[GC] = "snapshot"
  /\ todo' = [todo EXCEPT ![GC] = {r.id : r \in {s \in records : s.status = "Dead" /\ s.born \in aged}}]
  /\ Goto(GC, "collect")
  /\ UNCHANGED <<records, disk, window, mu, arg, saved, listed, aged, used, launches, crashes, unsaved>>

\* Delete of the next id; an id that is gone is "session not found".
Collect ==
  /\ pc[GC] = "collect"
  /\ \E id \in todo[GC] :
       /\ todo' = [todo EXCEPT ![GC] = @ \ {id}]
       /\ \/ DeleteOf(GC, id)
          \/ mu = Free /\ Of(id) = {} /\ UNCHANGED <<records, window, mu, pc, arg>>
  /\ UNCHANGED <<disk, saved, listed, aged, used, launches, crashes, unsaved>>

CollectEnd ==
  /\ pc[GC] = "collect" /\ todo[GC] = {}
  /\ Goto(GC, "idle")
  /\ UNCHANGED <<records, disk, window, mu, arg, saved, listed, todo, aged, used, launches, crashes, unsaved>>

-----------------------------------------------------------------------------
(* The environment: panes exit, windows are closed, time passes, and the   *)
(* program stops anywhere and loads state.json again; tmux keeps running.  *)

PaneExits ==
  /\ \E id \in Ids : window[id] = "alive" /\ window' = [window EXCEPT ![id] = "dead"]
  /\ UNCHANGED <<records, disk, mu, pc, arg, saved, listed, todo, aged, used, launches, crashes, unsaved>>

WindowClosed ==
  /\ \E id \in Ids : window[id] # "none" /\ window' = [window EXCEPT ![id] = "none"]
  /\ UNCHANGED <<records, disk, mu, pc, arg, saved, listed, todo, aged, used, launches, crashes, unsaved>>

GraceElapses ==
  /\ \E b \in (1 .. launches) \ aged : aged' = aged \cup {b}
  /\ UNCHANGED <<records, disk, window, mu, pc, arg, saved, listed, todo, used, launches, crashes, unsaved>>

Restart ==
  /\ crashes < MaxCrashes /\ crashes' = crashes + 1
  /\ records' = {Restore(d) : d \in disk}
  /\ mu' = Free /\ pc' = [t \in Threads |-> "idle"]
  /\ saved' = {} /\ listed' = {} /\ todo' = [t \in Threads |-> {}]
  /\ UNCHANGED <<disk, window, arg, aged, used, launches, unsaved>>

ClientStep(c) ==
  \/ Create(c) \/ ResumeCollected(c) \/ ResumeFind(c) \/ ResumeRemove(c)
  \/ ResumeLaunch(c) \/ ResumeLaunchFails(c) \/ SaveRestored(c)
  \/ Delete(c) \/ Rename(c) \/ Purge(c) \/ PurgeOne(c) \/ Flush(c)

Collector ==
  SyncList \/ SyncNoSession \/ SyncApply \/ SyncFails \/ Snapshot \/ Collect \/ CollectEnd

Environment == PaneExits \/ WindowClosed \/ GraceElapses \/ Restart

Next ==
  \/ \E c \in Clients : ClientStep(c)
  \/ \E t \in Threads : Save(t) \/ SaveFails(t)
  \/ Collector
  \/ Environment

Spec == Init /\ [][Next]_vars

\* A call that has started goes on, the collector ticks every interval and
\* gets its turn at the mutex, tmux answers again and again, time passes.
Fairness ==
  /\ \A c \in Clients :
       WF_vars(ResumeRemove(c) \/ ResumeLaunchFails(c) \/ SaveRestored(c) \/ PurgeOne(c) \/ Flush(c))
  /\ \A t \in Threads : WF_vars(Save(t))
  /\ SF_vars(SyncList) /\ SF_vars(SyncApply) /\ WF_vars(Snapshot) /\ SF_vars(Collect) /\ WF_vars(CollectEnd)
  /\ WF_vars(GraceElapses)

FairSpec == Spec /\ Fairness

-----------------------------------------------------------------------------
(* Properties                                                              *)

\* An id names one session: Delete, Rename and the collector, which act on
\* the first record with an id, act on the only one.  The one way to a second
\* record is a resume whose Save failed after its launch (manager.go:505).
OneRecordPerId == \A r, s \in records : r.id = s.id => r = s \/ r.id \in unsaved

\* A session marked Orphan has no window, so that Delete and ResumeSession,
\* which skip kill-window for it, leave no Claude behind: no window is launched
\* between Sync's listing and its update of the store.  The one way to an
\* orphan with a live window is again the record a failed Save restored.
OrphanHasNoWindow == \A r \in records : r.status = "Orphan" => window[r.id] = "none" \/ r.id \in unsaved

\* What operations that look a session up by its id rely on, and the one
\* failure that takes it from them, whatever else fails and in any order.
RecordsAreSound == OneRecordPerId /\ OrphanHasNoWindow

\* Until the program is restarted every window belongs to a session of the
\* store: no Claude keeps running where the user cannot see it, whoever
\* resumes and deletes at once.
WindowIsOwned == crashes = 0 => \A id \in Ids : window[id] # "none" => Of(id) # {}

\* While no call is between its change of the store and its Save, state.json
\* holds exactly the sessions of the store, whoever saved last.
DiskMatchesMemory ==
  (\A t \in Threads : pc[t] \notin {"remove", "launch", "save", "restored", "flush", "purge"}) => disk = Persisted

\* gc.go:69 "Only delete Dead sessions (pane has exited)": the collector
\* never closes the window of a live pane.
CollectorSparesLivePanes ==
  [][Collect => \A id \in Ids : window[id] = "alive" => window'[id] = "alive"]_vars

\* manager.go:1019 "If the launch fails we restore the old record so
\* state.json is not left corrupt": while ResumeSession replaces a session,
\* state.json does not lose it, whichever of its steps fails.
ResumedStaysOnDisk ==
  [][\A c \in Clients :
       (mu = c /\ saved # {} /\ \E d \in disk : d.id = arg[c]) => \E d \in disk' : d.id = arg[c]]_vars

\* A session whose pane has exited goes away, unless it is resumed or its
\* window closed (collect, gcGracePeriod).
DeadIsCollected ==
  \A id \in Ids : (window[id] = "dead" /\ Of(id) # {}) ~> (window[id] # "dead" \/ Of(id) = {})
=============================================================================
