------------------------------- MODULE Projects -------------------------------
(***************************************************************************)
(* How sessions are grouped into projects: the tree of the store           *)
(* (session/store.go, project.go) and the manager's operations that place  *)
(* a session in it (session/manager.go), with worktree directories and the *)
(* mirrors of remote sessions (cmd/lazyclaude/mirror.go).  SessionManager  *)
(* models the same store as a set of records, with the steps inside an     *)
(* operation; here every operation of the manager is one step, as it is    *)
(* under Manager.mu, and tmux or the Save may fail it.                     *)
(*                                                                         *)
(* A path is a pair: a directory and the worktree in it, NoTree for the    *)
(* directory itself.  A tmux window is known by its number, 0 is none;     *)
(* tmux uses a number once, its name tells the session it was made for,    *)
(* and its pane stays when the program in it exits (remain-on-exit).       *)
(***************************************************************************)
EXTENDS Naturals, FiniteSets, SequencesExt

CONSTANTS
  Ids,         (* session ids                                              *)
  Dirs,        (* directories that are project roots                       *)
  Trees,       (* worktree names                                           *)
  NoTree,      (* no worktree                                              *)
  PmName,      (* the name of every PM session: "pm"                       *)
  Remotes,     (* ssh hosts                                                *)
  Local,       (* the empty host                                           *)
  NoSession,   (* nil                                                      *)
  MaxWindows,  (* bound: tmux windows ever made                            *)
  KillMayFail  (* TRUE: kill-window may fail though the window is there    *)

Hosts == Remotes \cup {Local}
Windows == 1 .. MaxWindows
Paths == Dirs \X (Trees \cup {NoTree})

VARIABLES
  projects,  (* Store.projects, in order                                   *)
  windows,   (* the tmux windows made so far                               *)
  dirs,      (* worktree directories on disk                               *)
  used,      (* session ids given out                                      *)
  renamed,   (* Rename gave a session a name                               *)
  byName,    (* a collected session was resumed by its worktree's name     *)
  unsaved    (* ids whose resume could not save the record it had launched *)

treeVars == <<projects, windows, dirs, used, renamed, byName, unsaved>>

\* GenerateName: the base name of the directory, or that with a number.
Generated == Dirs \X Nat
Names == Trees \cup {PmName} \cup Generated
Session ==
  [id : Ids, name : Names, path : Paths, host : Hosts, role : {"none", "pm", "worker"},
   window : Windows \cup {0}, orphan : BOOLEAN]
Project == [path : Paths, pm : Session \cup {NoSession}, sessions : Seq(Session)]
Window == [id : Ids, pane : {"alive", "dead", "gone"}]

ASSUME ConstantsAssumption ==
  /\ Local \notin Remotes /\ NoTree \notin Trees /\ PmName \notin Trees /\ NoSession \notin Session
  /\ Dirs # {} /\ MaxWindows \in Nat /\ KillMayFail \in BOOLEAN

TreeTypeOK ==
  /\ projects \in Seq(Project)
  /\ windows \in Seq(Window) /\ Len(windows) =< MaxWindows
  /\ dirs \subseteq Dirs \X Trees /\ {used, unsaved} \subseteq SUBSET Ids
  /\ renamed \in BOOLEAN /\ byName \in BOOLEAN

TreeInit ==
  /\ projects = <<>> /\ windows = <<>>
  /\ dirs = {} /\ used = {} /\ unsaved = {} /\ renamed = FALSE /\ byName = FALSE

-----------------------------------------------------------------------------
(* The store.                                                              *)

\* The places of a project in the order in which every search sees them:
\* its PM, then its sessions.
Slots(p) == {k \in {0} : p.pm # NoSession} \cup DOMAIN p.sessions
InSlot(p, k) == IF k = 0 THEN p.pm ELSE p.sessions[k]
Members(p) == {InSlot(p, k) : k \in Slots(p)}
All == UNION {Members(projects[i]) : i \in DOMAIN projects}

\* The first, the last of some places, 0 if there is none.
FirstOf(places) == IF places = {} THEN 0 ELSE Min(places)
LastOf(places) == IF places = {} THEN 0 ELSE Max(places)

NameTaken(n) == \E s \in All : s.name = n

\* The project of a session, of a path: its place in the store or 0.
Has(p, id) == \E s \in Members(p) : s.id = id
ProjectOf(ps, id) == FirstOf({i \in DOMAIN ps : Has(ps[i], id)})
FindProjectForSession(id) == ProjectOf(projects, id)
FindProjectByPath(path) == FirstOf({i \in DOMAIN projects : projects[i].path = path})

SlotOf(p, id) == FirstOf({k \in Slots(p) : InSlot(p, k).id = id})
FindByID(id) ==
  LET i == FindProjectForSession(id) IN IF i = 0 THEN NoSession ELSE InSlot(projects[i], SlotOf(projects[i], id))

\* projectHost: of the PM, of the first session with one.
ProjectHost(p) ==
  LET hosted == {k \in Slots(p) : InSlot(p, k).host # Local}
  IN IF hosted = {} THEN Local ELSE InSlot(p, Min(hosted)).host

FindProjectIdx(ps, path, host) == FirstOf({i \in DOMAIN ps : ps[i].path = path /\ ProjectHost(ps[i]) = host})

InferProjectRoot(path) == <<path[1], NoTree>>

\* Add: to the project of that path and host, a new one if there is none;
\* a PM takes the place of the project's PM.
Placed(p, s) == IF s.role = "pm" THEN [p EXCEPT !.pm = s] ELSE [p EXCEPT !.sessions = Append(@, s)]
Add(ps, s, root) ==
  LET i == FindProjectIdx(ps, root, s.host)
  IN IF i = 0
     THEN Append(ps, Placed([path |-> root, pm |-> NoSession, sessions |-> <<>>], s))
     ELSE [ps EXCEPT ![i] = Placed(@, s)]

\* Store.Remove, maybeRemoveProjectLocked.
Without(p, id) ==
  LET k == SlotOf(p, id)
  IN IF k = 0 THEN [p EXCEPT !.pm = NoSession] ELSE [p EXCEPT !.sessions = RemoveAt(@, k)]
RemoveSession(ps, id) ==
  LET i == ProjectOf(ps, id)
      p == Without(ps[i], id)
  IN IF i = 0 THEN ps ELSE IF Slots(p) = {} THEN RemoveAt(ps, i) ELSE [ps EXCEPT ![i] = p]

\* Rename changes the first record of the id.
Renamed(p, id, name) ==
  LET k == SlotOf(p, id)
  IN IF k = 0 THEN [p EXCEPT !.pm.name = name] ELSE [p EXCEPT !.sessions[k].name = name]

\* Every session changed as f says: SyncWithTmux.
Updated(ps, f) ==
  [i \in DOMAIN ps |->
     [ps[i] EXCEPT !.pm = IF @ = NoSession THEN @ ELSE f[@],
                   !.sessions = [k \in DOMAIN @ |-> f[@[k]]]]]

\* GenerateName: the first number that is free; one of as many as there are
\* ids always is.
GenerateName(path) == <<path[1], FirstOf({k \in 1 .. Cardinality(Ids) : ~NameTaken(<<path[1], k>>)})>>

-----------------------------------------------------------------------------
(* tmux.                                                                   *)

Open(w) == w \in DOMAIN windows /\ windows[w].pane # "gone"
Named(id) == {w \in DOMAIN windows : windows[w].id = id /\ Open(w)}
With(wins, id) == Append(wins, [id |-> id, pane |-> "alive"])
Set(w, state) == [windows EXCEPT ![w].pane = state]

\* TmuxTarget: the window of the record, else the one of its name.
Targets(s) == IF s.window # 0 THEN {w \in {s.window} : Open(w)} ELSE Named(s.id)

\* What kill-window of a session leaves: its error is ignored, there is one
\* if two windows have the name.  An orphan's window is not killed.
AfterKill(s) ==
  (IF s.orphan THEN {} ELSE {Set(w, "gone") : w \in Targets(s)})
    \cup {wins \in {windows} : s.orphan \/ KillMayFail \/ Cardinality(Targets(s)) # 1}

-----------------------------------------------------------------------------
(* The manager's operations.                                               *)

\* launchSession: a window, then the record under the project of root; its
\* TmuxWindow stays empty until the next Sync.  A Save that fails leaves
\* window and record, the caller is told of an error.
Launch(s, root) ==
  /\ Len(windows) < MaxWindows /\ windows' = With(windows, s.id)
  /\ projects' = Add(projects, s, root)

NewSession(id, name, path, role) ==
  [id |-> id, name |-> name, path |-> path, host |-> Local, role |-> role,
   window |-> 0, orphan |-> FALSE]

Fresh(id) == id \notin used /\ used' = used \cup {id}

\* Create: a plain session; the project is inferred from its path.
Create(id, path) ==
  /\ Fresh(id) /\ Launch(NewSession(id, GenerateName(path), path, "none"), InferProjectRoot(path))
  /\ UNCHANGED <<dirs, renamed, byName, unsaved>>

\* createWorktreeSession of CreateWorktree and CreateWorker: git adds the
\* worktree, a directory that is there is used again; the directory stays
\* if the launch fails.
CreateWorktree(id, name, root) ==
  /\ ~NameTaken(name)
  /\ dirs' = dirs \cup {<<root[1], name>>}
  /\ \/ Fresh(id) /\ Launch(NewSession(id, name, <<root[1], name>>, "worker"), root)
     \/ UNCHANGED <<projects, windows, used>>
  /\ UNCHANGED <<renamed, byName, unsaved>>

\* createWorktreeSession of ResumeWorktree: the directory must be there.
ResumeWorktree(id, name, root) ==
  /\ <<root[1], name>> \in dirs /\ ~NameTaken(name)
  /\ Fresh(id) /\ Launch(NewSession(id, name, <<root[1], name>>, "worker"), root)
  /\ UNCHANGED <<dirs, renamed, byName, unsaved>>

\* CreatePMSession: refused if the project found by the path has a PM.
HasPM(root) == LET i == FindProjectByPath(root) IN i # 0 /\ projects[i].pm # NoSession
CreatePM(id, root) ==
  /\ ~HasPM(root)
  /\ Fresh(id) /\ Launch(NewSession(id, PmName, root, "pm"), root)
  /\ UNCHANGED <<dirs, renamed, byName, unsaved>>

\* Mutant of ResumeKnown: the record is not removed before the launch.
ResumeBeside(id) ==
  LET old == FindByID(id) IN
  /\ old # NoSession /\ old.host = Local /\ old.role # "pm"
  /\ LET root == projects[FindProjectForSession(id)].path
     IN \E wins \in AfterKill(old) :
          /\ Len(wins) < MaxWindows /\ windows' = With(wins, id)
          /\ projects' = Add(projects, [old EXCEPT !.window = 0, !.orphan = FALSE], root)
  /\ UNCHANGED <<dirs, used, renamed, byName, unsaved>>

\* ResumeSession of a session in the store: its window is killed and its
\* record removed; whatever error the launch returns puts the record back,
\* the one of a failed Save beside the record that was launched.
ResumeKnown(id) ==
  LET old == FindByID(id) IN
  /\ old # NoSession /\ old.host = Local /\ old.role # "pm"
  /\ LET root == projects[FindProjectForSession(id)].path
         rest == RemoveSession(projects, id)
         launched == Add(rest, [old EXCEPT !.window = 0, !.orphan = FALSE], root)
     IN \E wins \in AfterKill(old) :
          \/ /\ Len(wins) < MaxWindows /\ windows' = With(wins, id)
             /\ \/ projects' = launched /\ UNCHANGED unsaved
                \/ projects' = Add(launched, old, root) /\ unsaved' = unsaved \cup {id}
          \/ windows' = wins /\ projects' = Add(rest, old, root) /\ UNCHANGED unsaved
  /\ UNCHANGED <<dirs, used, renamed, byName>>

\* ResumeSession of a collected session: findProjectRootForWorktree takes
\* the first project with a worktree directory of that name.
ResumeCollected(id, name) ==
  /\ id \in used /\ FindByID(id) = NoSession
  /\ LET i == FirstOf({j \in DOMAIN projects : projects[j].path[2] = NoTree /\ <<projects[j].path[1], name>> \in dirs})
     IN i # 0 /\ Launch(NewSession(id, name, <<projects[i].path[1], name>>, "worker"), projects[i].path)
  /\ byName' = TRUE /\ UNCHANGED <<dirs, used, renamed, unsaved>>

Rename(id, name) ==
  /\ FindByID(id) # NoSession
  /\ projects' = [projects EXCEPT ![FindProjectForSession(id)] = Renamed(@, id, name)]
  /\ renamed' = TRUE
  /\ UNCHANGED <<windows, dirs, used, byName, unsaved>>

\* Delete, by the user or by the collector; a purge of orphans.
Delete(id) ==
  /\ FindByID(id) # NoSession
  /\ windows' \in AfterKill(FindByID(id)) /\ projects' = RemoveSession(projects, id)
  /\ UNCHANGED <<dirs, used, renamed, byName, unsaved>>

\* Claude exits: the dead pane keeps the window.
Exit(id) ==
  /\ \E w \in Named(id) : windows[w].pane = "alive" /\ windows' = Set(w, "dead")
  /\ UNCHANGED <<projects, dirs, used, renamed, byName, unsaved>>

\* The user closes a window in tmux.
Close(id) ==
  /\ \E w \in Named(id) : windows' = Set(w, "gone")
  /\ UNCHANGED <<projects, dirs, used, renamed, byName, unsaved>>

\* SyncWithTmux: TmuxWindow of every session, of any window with its name;
\* nothing is done while tmux has no window at all.
Sync ==
  /\ \E w \in DOMAIN windows : Open(w)
  /\ \E at \in [Ids -> Windows \cup {0}] :
       /\ \A i \in Ids : IF Named(i) = {} THEN at[i] = 0 ELSE at[i] \in Named(i)
       /\ projects' = Updated(projects, [s \in All |-> [s EXCEPT !.window = at[s.id], !.orphan = (at[s.id] = 0)]])
  /\ UNCHANGED <<windows, dirs, used, renamed, byName, unsaved>>

\* addMirrorSession: a session of another machine gets a window and a
\* record with its host; RestoreExisting groups it under its own path,
\* CreateMirror under the project it was created from.  A host has one PM
\* for a directory.
AddMirror(id, path, host, root) ==
  /\ root \in {path, InferProjectRoot(path)}
  /\ Fresh(id) /\ Len(windows) < MaxWindows /\ windows' = With(windows, id)
  /\ \E role \in {"none", "worker", "pm"} :
       /\ (role = "worker") = (path[2] # NoTree)
       /\ role = "pm" => \A s \in All : ~(s.role = "pm" /\ s.host = host /\ s.path = path)
       /\ projects' = Add(projects, [id |-> id, name |-> CASE role = "pm" -> PmName [] role = "worker" -> path[2] [] OTHER -> <<path[1], 1>>,
                        path |-> path, host |-> host, role |-> role,
                        window |-> Len(windows'), orphan |-> FALSE], root)
  /\ UNCHANGED <<dirs, renamed, byName, unsaved>>

-----------------------------------------------------------------------------
(* Properties                                                              *)

\* store.go:530 "Invariant: all sessions in a project share the same host":
\* and no project is empty, no two have the same path and host, no session
\* is in two projects, and none is in two places of its project, unless a
\* resume of it could not save the record it had launched (manager.go:1036
\* puts the old one beside it).
Sound(ps, lost) ==
  /\ \A i \in DOMAIN ps :
       /\ Members(ps[i]) # {}
       /\ \A s, t \in Members(ps[i]) : s.host = t.host
       /\ \A j \in DOMAIN ps : i # j => ps[i].path # ps[j].path \/ ProjectHost(ps[i]) # ProjectHost(ps[j])
  /\ \A i, j \in DOMAIN ps : \A k \in Slots(ps[i]), l \in Slots(ps[j]) :
       <<i, k>> # <<j, l>> /\ InSlot(ps[i], k).id = InSlot(ps[j], l).id => i = j /\ InSlot(ps[i], k).id \in lost
ProjectsAreSound == Sound(projects, unsaved)

\* No two workers of this machine are given the same worktree directory,
\* as long as no session was renamed and no collected one was resumed by
\* the name of its worktree.
WorktreeHasOneSession ==
  renamed \/ byName \/
  \A s, t \in {m \in All : m.host = Local /\ m.role = "worker"} : s.id # t.id => s.path # t.path
=============================================================================
