# lazyclaude in TLA+

lazyclaude is a terminal UI (gocui) that runs Claude Code sessions in tmux windows, locally and on remote
hosts over SSH, and shows their permission prompts as popups. This directory holds TLA+ models of its concurrent
core, TLC runs that check them on small instances, and TLAPS proofs that hold for every size. Paths below are
relative to `src/`.

## 1. The system

| Part | State | Operations | Talks to |
|---|---|---|---|
| Session manager (`internal/session/manager.go`, `store.go`) | records in the store, `state.json`, `Manager.mu` | Create, Delete, ResumeSession, Rename, PurgeOrphans, Sync, Save, Load | tmux, disk; called by key handlers, the HTTP server, the collector |
| Garbage collector (`session/gc.go`) | none of its own: a copy of the sessions | collect, every 2 s | session manager |
| Hook server (`internal/server/server.go`, `state.go`) | pid-to-window cache, pending tools, activity map | `/notify`, `/stop`, `/prompt-submit`, `/session-start`, `/msg/*` | Claude hooks (HTTP), tmux, broker, file queue |
| Event broker (`core/event/broker.go`) | subscribers, a channel each | Subscribe, Publish, HasSubscribers, Cancel | server to TUI |
| Notification queue (`internal/notify`) | one file per notification | Enqueue, ReadAll | server to TUI when nobody subscribes |
| TUI loop (`internal/gui/app.go`, `popup.go`, `notify_loop.go`) | activity map, popups, full screen target | broker event, tick, key | broker, queue, tmux send-keys |
| Popup stack (`gui/popup_controller.go`) | the stack, the focus index | push, dismiss, dismiss all, suspend, unsuspend, focus next and previous | TUI loop |
| Remote connection (`internal/daemon/connection_impl.go`, `tunnel.go`, `lifecycle.go`) | connection state, client, tunnel, cancel, backoff | Connect, Disconnect, monitor, reconnect | ssh, remote daemon |
| Remote host work (`cmd/lazyclaude/remote_host.go`, `root.go`, `session_command.go`, `mirror.go`) | lazy entry, provider map, connection map, placeholders, mirror windows | EnsureConnected, MarkConnected, connect pipeline, create, delete, mirror, restore; the TUI's own collector and purge work on the same records | remote connection, store, tmux |
| Daemon server (`daemon/server.go`, `server_sse.go`) | sessions, a broker subscription per stream | session calls, event stream with a full sync first | remote TUI |
| Providers (`daemon/remote_provider.go`, `composite_provider.go`, `http_client.go`) | cached sessions, waiting prompts, the provider of each host | connect, read the stream, call, hand prompts to the GUI, publish activities to the TUI's broker | TUI, daemon |
| Adapter (`daemon/gui_adapter.go`) | cached and pending host | routing of a command to a host | TUI, providers |
| Message router (`server/handler_msg.go`, `daemon/server.go`) | none: a message lives in a tmux prompt | send, create, resume | session manager, tmux |
| Projects (`session/store.go`, `project.go`) | projects with a PM and sessions, worktree directories | add, remove, rename, group, create, resume, mirror | session manager, message router |
| Server discovery (`server/ensure.go`, `lock.go`, `discover.go`) | a lock file per server, one port file | start, replace, clean up, find | other lazyclaude processes, hooks |
| tmux client (`core/tmux`) | control-mode process and subscription | list, send, subscribe | tmux |
| Screen (`gui/app_actions.go`, `layout.go`, `state.go`, `tree.go`) | tree rows, cursor, full screen target, item cache | move, enter, leave, layout, dispatch of a key | popups, forwarder, scroll mode, session providers |
| Key forwarder (`gui/fullscreen.go`, `input.go`) | bounded key queue, the batch of its goroutine | enqueue, batch, flush | tmux send-keys |
| Scroll mode (`gui/scroll_state.go`, `app_actions.go`) | offset, bound, cursor, lines, generation | enter, move, wheel, capture, exit | tmux capture-pane, history size |
| Dialogs and keys (`gui/dialog.go`, `keybindings.go`, `layout.go`, `keymap/registry.go`, `keydispatch/dispatcher.go`) | dialog kind and views, current view, active panel | open, submit, cancel, focus, layout, way of a key | gocui, password prompts |
| Password prompts (`daemon/askpass.go`, `cmd/lazyclaude/root.go`) | a channel per prompt, `handlerMu` | ask, answer, cancel, time out | ssh, dialogs |
| MCP and plugin panels (`internal/mcp`, `internal/plugin`) | cached lists | refresh, toggle, install | config files, claude CLI |
| Profiles (`internal/profile`) | none | load, validate, expand | session manager |

What is hard in this code:

* **Mutexes that cover half of an operation.** `RemoteConnection` has two (connMu for attempts, rc.mu for
  fields); `Manager.mu` covers Create, Delete, ResumeSession and Sync but not Rename and PurgeOrphans; the
  store's own lock covers single operations only; the mirror code checks the store and adds to it later.
* **Goroutines per event.** Every HTTP hook has a handler goroutine; gocui's `Update` starts a goroutine per
  event, remote activity included, so events are applied in any order; a choice is sent by a goroutine after its popup is gone.
* **Copies used after the fact.** The collector deletes by the ids of a copy; Sync updates the store from a
  listing taken before; a cached lazy error outlives the connection that would refute it.
* **Failure in the middle.** Each ssh, tmux, HTTP and disk call may fail or be the last one before a crash.
* **Bounded buffers** (the broker's 8 slots, which drop) **and clocks** (pending tools expire, retries end).
* **Two processes and a wire**: a stream that breaks, snapshots that cross answers, old streams beside new ones.
* **Files as shared memory**: several processes write, trust and remove one another's lock and port files.
* **Updates that run later**: dialogs are opened by functions handed to gocui, focus is set in three places.

What makes it correct: a connected connection is watched and its loss is noticed; ids name one session, a
window belongs to a session, `state.json` is what the store holds; a hook is delivered once, to its own window,
and a choice answers the prompt it was made for; the focus of the popups is on one the user sees; a remote session
that was created leaves the sidebar only when the user deletes it, a purge finds it orphaned, or its mirror was lost; what
a daemon reports arrives in order; hooks and the command line find the same server unless an editor's lock has the
highest port; a message is typed into its recipient's window or nowhere; keys go where the screen says, and a
password to the ssh process that asked. `PROJECT.json` lists 40 hazards at their lines and the
properties that would catch each, or the reason why none does.

## 2. The modules

### RemoteConnection, ConnectionLifecycle

`RemoteConnection` models `connection_impl.go` with what it drives. `state, tunnel, client, cancel, attempts` are
the fields of the struct, `connMu` its holder, `attempt` the locals of `connectLocked`, `torn` those of
`Disconnect`. Everything that one published connection owns (context, tunnel, monitor goroutine) has the
same number, its *generation*. connMu serialises attempts, but `setState` and the monitor take only rc.mu, so each
section between two uses of rc.mu is an action. Names follow the code: discovery, `tunnel.Start`, health check
with one replacement of a stale daemon, publish, `setState(Connected)`, start of the monitor; the monitor's
`select`, its wait and its retries.

`ConnectionLifecycle` is the abstract specification: the state machine that `connection.go` names, over the state
that is reported and one wire. `RemoteConnection` implements it (`ImplementsLifecycle`, with its fairness) under
`phase <- state`, `wire <- ` the link of the last tunnel. It is a promise to a sole user: `root.go` makes a new object
for every connect and calls Connect on it once. When somebody calls Connect again or Disconnect
(`SoleUser` is false) the phase becomes `"Shared"`, of which nothing is promised; ConnectedIsWatched, NoTunnelLeak,
and MonitorsRespond hold for every user.

### SessionManager

`records` is the store, `disk` is `state.json`, `window` the tmux window of each id. `born`, the number of the
launch, stands for CreatedAt: the collector's grace period and `DuplicateRecords` tell launches apart by it.
A client goes through an operation step by step, one step per store operation, tmux call or Save; the
collector goes through Sync (list, update) and collect (copy, Delete per id). Crash at any point restarts the
program from `disk`. Windows belong to the tmux server and survive. The store is a set of records, so that the same id
may be there twice: a Save that fails when a resume has launched makes that happen, and `unsaved`, a history, says for which ids.

### HookServer

From hook to popup and back. `claude, using, asking` are the Claude processes (external: what they do is read from
the hooks the code installs, `core/config/hooks.go`). A request is a record in `requests` whose `at` says which
lock its handler takes next: resolve the window by the pid, pop or set the pending tool, record the activity,
test `HasSubscribers`, publish or enqueue. `channel` is the subscription, `queue` the files, `updates` the
goroutines of `gui.Update`, `shown` the activity map of the TUI.

`env` is chosen in the initial state and never changes: the buffer of the subscription, how many turns, tools and
restarts there are, and which disturbances may happen (settings that approve a tool, answers typed in the pane, full
screen, hooks that give up, lookups that fail, expiry). `DeliveryIsSound` holds in every environment; the other four
properties are about a `Calm` one, in which nothing disturbs and the buffer holds the event of every hook.

### PopupStack

Every operation of `PopupController` that changes its state, in the order the key handlers call them
(`DismissActive` with its clamp and the `FocusNext` that follows; `SuspendAll` and `UnsuspendAll` of Esc and p).
`focusIdx` is 0-based as in the source. The two searches with wrap-around are the relations `FocusNextIs`
and `FocusPrevIs`.

### KeyForwarder, Scrollback, Screen

`KeyForwarder` is the queue of full screen: the event loop enqueues without blocking (a full queue drops), the goroutine
of `RunKeyForwarder` takes keys and `dispatchBatch` joins literal keys. `forwarder` says in which `select` it waits, `batch`
is what it has taken, `sent` what tmux was told. A batch is sent to the target of its first key, so a wrong join
would show in `sent`. `accepted` is a history variable. `DrainQueue`, which only tests call, is left out.

`Scrollback` is scroll mode. The text is left out: a capture has the offset it was `at` and how many lines came back,
which tmux (external) clips at the top of the history. Each `captureScrollback...` call is a goroutine in `captures` that
reads the history size if it has to, captures, and applies its result on the event loop unless `generation` has
moved. `stale` remembers that the latest capture could not show what was asked for: tmux failed, or the top was asked for
without a known size.

`Screen` composes the two with `PopupStack` by EXTENDS: three sets of variables and a fourth for the tree. A key is
offered to the popups, then to scroll mode, then to the forwarder (`keydispatch/dispatcher.go`); the wheel bypasses the
popups, as its binding does. `rows` is the tree at the last refresh, `sessions` what the providers have, `items` the cache that
a goroutine refreshes; `full` is `fullscreen.target`, `cursor` the row that `resolveForwardTarget` reads. `DoLayout` is
what `layout` changes: the tree, the end of full screen when its session is gone, the clamp of the cursor. An execution
has a `visit`: it goes deep in one direction (popups, keys or scroll mode), or a little way in all of them while sessions
come and go. That keeps the product of three independent parts out of the state space; the theorem
`ScreenImplementsParts`, which holds for any bounds, says that the parts do not disturb each other.

### RemoteSessions

One remote host. Jobs are goroutines the GUI starts: a creation behind a placeholder, another command that needs
the host, the connect dialog, a deletion. `lazy` is the entry of `lazyConn`: none, running (its `sync.Once`), ok
or its error. `provider` is `composite.remotes[host]`, `shown` is `remoteConns[host]`, both named by the job that
made the connection; `streams` are SSE readers. Each step of `connectRemoteHost` (connect, AddRemote,
publish the connection, RestoreExisting window by window, StartSSE) is an action, and so is each of
`CreateMirror`. Records and windows of a remote session are counted, because the question is whether there can
be two. The connection itself is the other module's subject and is `live` or not here. `visit` bounds an execution: its sessions, uses of the
dialog, losses and collections.

The records of mirrors and placeholders are in the TUI's own store, so what works on that store is here too: the garbage
collector (`gc`: Sync lists windows and updates every status, then a copy is searched for dead entries, then each is deleted by its
id) and PurgeOrphans, a job like the others. `exited` are mirrors whose ssh has ended, `errorWindow` the window in which a failed
placeholder waits for Enter. DeleteMirror may fail, as `session_command.go:116` ignores its error. Two histories name the exceptions of the
properties: `excused`, the entries that may leave for good (deleted by the user, purged as an orphan, failed or lost), and `left`,
the sessions whose record went while a window of theirs stayed.

### DaemonFeed

One remote host seen from the TUI. On the daemon: its sessions and numbered hook events; the handler of `/notifications`
with its broker subscription, which it makes before it takes the snapshot that it writes first. In the TUI: one provider per
run of `connectRemoteHost` (`step`: list the sessions, set them, register, open the stream), its cache and its waiting
prompts, and the calls of the GUI, whose answers add to or take from the cache when they arrive. `current` is
the provider that `CompositeProvider` keeps; the goroutine of an older one goes on, as nothing stops it. `sidebar` is what
`windowActivity` shows for each mirror, `prompts` what the GUI was given. `visit` bounds an execution: connections, callers and their
calls, events, changes on the host. A stream may break at any time, and what is on the wire
or in the subscription is lost with it. An activity has a second leg: `onSSEActivity` publishes it to the TUI's own broker, whose
subscription `local` is bounded and drops (the TUI's own hooks fill it too, so it may drop at any time), the loop of `App.Run` takes it from
there and starts a `gui.Update`, and the event loop applies these `updates` in any order. Histories: `made` (sessions whose launch the provider was
answered), `crossed` (those whose launch crossed a list, a snapshot or the answer of a delete), `dropped`, and `overtaken` (what was still
waiting in the TUI when the sidebar came to show something newer).

### ServerDiscovery

The processes that serve hooks on one machine and the files by which they find each other. Each step that touches a file, listens or
sends a signal is an action: check the debounce of the port file, read it, kill the server of that port (by the pid in its lock), remove
the files of the replaced one, listen, clean stale locks, write the lock, write the port file, clean all others. A crash leaves files
behind; a signalled server removes its lock and closes. Editors (external) keep locks in the same directory; they open, close, and may leave
their lock. CleanStale removes a stale lock of theirs, CleanAllExcept leaves them alone. `HookPorts` is what the JavaScript in
the hooks sees (a lock whose pid lives, whoever's), `CliPorts` what `DiscoverServer` sees (a lock of lazyclaude whose port accepts).

### Projects, MessageRouter

`Projects` is the store as a tree: projects in order, each with a path, at most one PM and its sessions, and the operations of the
manager that place a session (create, worktree, PM, resume of a known and of a collected session, mirror, rename, delete,
sync). `SessionManager` models the same store flat and step by step inside the operations; here an operation is one step, because it
runs under `Manager.mu`, and tmux or the Save may fail it. `windows` are the tmux windows in the order they were made, each with the id
it is named after and the state of its pane: a Claude that exits leaves a dead pane (`remain-on-exit`), which goes with kill-window or by
hand. An orphan's window is not killed, and tmux kills by name only what is not ambiguous. A resume has three endings: launched and saved;
not launched, the old record put back; launched and not saved, the old record put beside the new one (`unsaved` remembers the id).

`MessageRouter` adds the handlers of `/msg/send`, `/msg/create` and `/msg/resume`, each on a copy that the user and the collector make
stale: find the last session of the id, resolve its window, type the text, press Enter; find the caller's project, create, rename, type the
prompt. tmux refuses keys for a window that is gone and takes those for a dead pane without an error; the request notes what was
`unheard` or `unentered`.

### KeyMap, Desk

`KeyMap` is the table of `registry.go` and the chain of `keydispatch`: which action a key is in a scope and tab. `Desk` uses it for dialogs,
focus and password prompts. A key goes to the binding of the current view, else to its editor, else down the chain. `gui` is
the dialog state with the views that exist; `updates` are functions handed to `gocui.Update`, run later in any order; `Layout` sets the focus
again. `ssh` is the handler of each password prompt (waiting for `handlerMu`, shown, answered, timed out), `channel` its channel with a
buffer of one: an answer that finds it full makes the event loop wait (`stuck`) until a handler reads the channel.

### MC modules and proof modules

`MCx` extends `x` (or its proof module) with the symmetry sets of its runs and with the values that a cfg cannot write,
as `Visits` of `RemoteSessions` and `DaemonFeed`. The
operators called mutants sit beside the definitions they alter; `PROJECT.json` pairs each with the property
that it breaks, which shows that the property depends on the code.

## 3. The runs

| Run | Instance | Shows |
|---|---|---|
| `Connection_session` | 2 callers, 2 connects, 1 disconnect, 2 losses, 2 retries | in every order of these a connected connection is watched (`ConnectedIsWatched`), tunnels are stopped (`NoTunnelLeak`), a monitor notices the loss or its cancellation (`MonitorsRespond`); with a sole user recoveries end (`RecoveryEnds`) and the life cycle is implemented, liveness included (`ImplementsLifecycle`) |
| `Connection_recovers` | healthy remote side | finding: no reconnect can succeed (`HealthyRemoteIsReconnected`) |
| `Sessions_store` | 2 ids, 2 clients, 2 launches, 1 crash | `WindowIsOwned`, `DiskMatchesMemory`: every window has a session, `state.json` follows the store |
| `Sessions_failures` | 2 ids, 1 client, purges, failing saves and kills | `RecordsAreSound`: ids are single and orphans have no window, but for ids in `unsaved`; `ResumedStaysOnDisk`, `DeadIsCollected` |
| `Sessions_relaunched` | 1 id, create and resume | finding: the collector deletes a resumed session (`CollectorSparesLivePanes`) |
| `Hooks_prompts` | 2 windows; calm: 2 turns, 2 tools, buffer of 8; rough: 1 turn, 1 tool, buffer of 1, 1 restart, every disturbance | in both `DeliveryIsSound`; in the calm one `RoutedHome`, `PromptIsVisible`, `ChoiceAnswersItsPrompt`, `PromptIsAnswered` |
| `Screen_visits` | 2 sessions; 4 popups; 4 keys, queue of 2; 3 captures, history up to 3, view of 2 lines; 1 change of the sessions | popups are answered once, kept and answered as seen (`AnsweredOnce`, `NoPopupLost`, `OnlyVisibleAnswered`); keys arrive once and in order (`KeysInOrder`); scroll mode shows what was asked for last (`SettledView`), within its bound and nothing after it was left (`ScrollStateIsSound`); goroutines end (`BackgroundWorkEnds`) |
| `Remote_mirrors` | 2 jobs; 2 sessions and 1 dialog, or 1 session, 1 collection and 1 dialog or 1 loss | `EnsuredIsRoutable`, `CreatedStaysListed`, `MirrorsAreUnique`, `PlaceholderIsResolved` |
| `Feed_events` | 2 sessions; 2 calls of any kind by 2 callers, or by 1 and 1 change on the host; 2 events with 1 deletion and 1 change, or over 2 connections; buffers of 2, a local one of 1 | `CreatedStaysCached`, `PromptsInOrder`, `SidebarFollows`, `ActivityArrives` |
| `Discovery_files` | a TUI, 2 setups, a daemon, an editor; 3 launches, 1 crash, 1 quit, 3 ports | `HooksAndCliAgree`, `ServingIsDiscoverable`, `HooksFindServer` |
| `Messages_routed` | 3 ids, 2 messages or 2 requests of one kind, 3 windows, 1 directory, 1 worktree, 1 host; failing saves and kills; exits, closed windows, failing keys | `StoreIsSound` (types, `ProjectsAreSound`, `WorktreeHasOneSession`), `MessageReachesRecipient`, `WorkerJoinsCaller` |
| `Desk_dialogs` | 2 sessions, 2 password prompts, 2 openings, 1 popup, every key of the tables | `DialogHasFocus`, `InputsMatchTitles`, `AskpassEnds`, `NoDialogTraps` |

**Bounds.** All are CONSTANTS called `Max...` or named as a bound where they are declared, plus the sets, and each appears in a
guard. Two connections reach what one generation can do to the next (a late monitor beside a newer connection); a third only repeats it.
Two ids and two clients are one id for each of two operations, or two operations on one; two launches are the first
and the one that resumes it. A buffer of 1 makes the broker drop; one of 8 (the source's value) with at most
eight hooks never does. Four popups are two suspended and two visible ones in any order, with wrap-around in both
directions. Four keys over a queue of two are a batch that is ended by a key of another target and one that is ended by a
special key, with a key dropped; three generations are a capture that is current, one that is late and one of another
visit to scroll mode, over a history that is empty, shorter than the view, or longer. Two remote jobs are every pair of operations in
every order. Two events of a daemon are the pair whose order matters; buffers of two make a stream drop one and keep one; two
connections are the old stream beside the new one. A local buffer of 1 drops, and with one activity in it and another already
an update the order can change. Two calls are a launch beside a delete or another launch, the list and the snapshot of the connection being under way as well. One collection is enough to catch a placeholder or a mirror at any step of its creation; what it left is then found by the jobs. Three
launches are a server, one that replaces it and one that interferes, or an editor. Two requests beside the user are a copy made stale by a handler as well as by the user; three ids are a caller, a
recipient and a session in their way. Two openings are every dialog over every other, and two password prompts the
one that waits and the one it waits for.

**Visits.** `Screen`, `RemoteSessions`, `DaemonFeed` and `MessageRouter` choose in the initial state what an execution is about (`visit`,
`asked`): deep in one direction instead of the product of all. What happens in two visits at once is out of the runs; for the parts of
the screen the theorem `ScreenImplementsParts` says that they do not disturb each other, and the theorems about `RemoteSessions`, `DaemonFeed`
and `MessageRouter` hold for any `Visits`, the product included.

**Switches kept off, and why.** `Sessions_store` has no purges and no failing saves, because `WindowIsOwned` and `DiskMatchesMemory` are about
executions without them: the observations below say what they do. `RecordsAreSound` is checked with both on.
`WindowIsOwned` is stated for executions without a crash, which loses a window between `new-window`
and Save by design. The calm environment of `HookServer` keeps full screen, pane answers and expiry off, because each of them takes the
popup away on purpose. `MirrorsAreUnique` is stated while no dialog was used. `SidebarFollows` is stated until a second connection is made and an event without a
session was sent, `WorktreeHasOneSession` until a rename: section 5 says why.

**Deadlock** is not checked where the bounds let the system stop, and where the user may simply do nothing. It is
checked in the session runs, where the collector always has a next round.

**Fairness.** Weak fairness of each goroutine's own steps once it was started: Go schedules runnable goroutines, and the
ssh, HTTP and tmux calls behind the steps have timeouts or end when their process does. Strong fairness of taking a
contended mutex (a monitor's retry at connMu, the collector at `Manager.mu`): Go's mutex hands itself over to a waiter
that starves. `SF_vars(SyncApply)` also says that tmux answers again and again. The user is fair in answering a visible
popup and in leaving full screen, which `PromptIsAnswered` is about, and in pressing Esc, q and Ctrl-D where they are bound, which
`NoDialogTraps` is about (strong fairness: other keys may come between). Nothing is fair in the environment: no tunnel must
drop, no pane must exit, nobody must call Connect or press a key, no server must crash or be asked to end, no editor must open or close, no stream must break, no
buffer must drop. The collector beside the remote jobs is not fair either: nothing there waits for it. The forwarder,
the capture goroutines, the stream's handler and its reader, the loop that takes events of the TUI's broker and each
`gui.Update` are fair as goroutines; a password prompt ends at its timeout at the latest.

## 4. The proofs

Proved by tlapm for every value of the constants under each module's assumptions (bounds are naturals,
the distinguished values are not members of the sets they are told from, in `HookServer` the windows are finitely many, and in `Projects`
there is a directory).

* `RemoteConnectionProofs`: `TypeCorrect`, `ConnectedIsAlwaysWatched`, `TunnelsAreStopped`, `LifecycleIsFollowed`. `ConnectedIsWatched` speaks of the moments when
  connMu is free, and is not inductive. Its strengthening `IInv` adds `LockInv` (connMu is held by exactly the thread
  inside Connect, Disconnect or a retry), `GenInv` (nothing refers to a connection that was not published) and
  `PublishInv` (between the publication and `setState(Connected)` the connection is complete, not
  cancelled, and its monitor unborn; nobody reports Connected meanwhile). Each action has a lemma. `LeakInv` says who may hold a live
  tunnel: a published connection, the attempt between opening and publishing, the Disconnect that has one to stop.
  `LifecycleIsFollowed` is the safety part of the refinement: while one caller has used the object, `SoleInv` puts it in one of seven
  phases (fresh, first attempt, opened, first failed, watched, retrying, over), and each action maps each phase to a step of the life
  cycle or a stutter; the retry runs under the context it has just cancelled, so `Retrying` can only end in `Over`.
* `SessionManagerProofs`: `TypeCorrect`; `RecordsStaySound`, with no hypothesis: saves and kills may fail, the program may crash, anybody
  may purge. `IInv` adds `HoldInv` (whoever is in a section of `Manager.mu` holds
  it), `ResumeInv` (ResumeSession has removed the one record it works on; if that is an orphan its window is closed; an id of `unsaved` is
  the exception), `UniqueInv` (ids are unique on disk, and were handed out; without failing saves `unsaved` is empty) and `SyncInv` (no
  window is missing from the listing that Sync is about to apply, because only a holder of the mutex launches). The exception is real: a
  Save that fails after the relaunch puts two records of one id into the store (section 5). `DiskFollowsMemory`, under `~SaveMayFail`, is inductive with the types: every
  change of the store leaves its call at a label from which only a Save leads on. `WindowsAreOwned` assumes besides that `kill-window`
  works and that nobody purges: a window that was not killed, and a resume overtaken by a purge, really lose their session. Its `OwnInv`
  adds that ResumeSession takes a record away only while its window is closed. `ResumeLosesNothing` lets every Save and kill-window
  fail and assumes that nobody renames or purges, the two that save without `Manager.mu` (section 5). `KeepInv`: while there is a record
  to restore its resumer holds the mutex, and the store has the id again by the time anything is saved.
* `HookServerProofs`: `TypeCorrect` and `SoundDelivery`, in every environment. That hooks stay below `MaxHooks` needs `CountInv`: a busy
  Claude still owes the hook that ends its turn, one that checks a tool may owe a prompt. "In one place" needs `OnceInv`: the numbers in
  the six places (requests, channel, files, updates, popups, choices) are disjoint (`PlacesInv`), single in each (`SinglesInv`) and none is above the last
  that was posted (`FreshInv`); each step moves one number from a place to another, drops it, or posts a new one.
  `PromptsAreRouted`, `PromptsAreShown` and `ChoicesAreRouted` speak of the calm environment, by `CalmInv`. `QuietInv`: there are no files and
  no full screen, every hook resolves to its own window, and the channel has room, since the hooks on it have different numbers and a
  calm environment posts no more of them than it has slots. `ToolInv`: from its PreToolUse hook to its prompt the tool of a Claude is noted once. `PromptInv`: an
  open prompt is carried by its request or by its event, which carry nothing else, so no handler can mix up two windows.
  Of `ServerDiscovery`, in the same module: `DiscoveryTypeCorrect`, `HooksAgreeWithCli`, `ServersStayDiscoverable`. They follow from `LockInv` (the lock of a port
  is that of the program with that port, which is between writing and removing it, an open editor, or ended), `PortInv` (a port belongs to one
  program, from Listen on) and `TargetInv` (who kills a server has read its port). From the first two: a lock whose program lives is on a
  port where that program listens, so that of the locks that are not an editor's hooks and command line see the same ones.
* `ScreenProofs`, of the popup stack: `TypeCorrect`, `FocusOnScreen`, `NoAnswerTwice`, `PopupsAreKept`, `AnswersTheScreen`. The invariant
  is the conjunction of the type, the focus and the uniqueness; the lemmas are about the two searches with
  wrap-around (what they return is visible if anything is) and about removal from a sequence.
  Of the screen: `ScreenImplementsParts`, that every step of the screen is a step or a stutter of each of its three
  parts; from it `KeysKeepTheirOrder`, `ScrollStaysSound` and, with the theorems of the popup stack,
  `ScreenKeepsPopups`. `KeysInOrder` needs that all keys of a batch have one target (`BatchInv`), so that flushing to the
  target of the first changes nothing. `ScrollStateIsSound` needs `CapturesInv` (a generation
  has one capture at most, none is of a later generation than the current one, and none of the current one exists out of
  scroll mode) and `OffsetInv` (while the capture that entered scroll mode is current, the only one
  that learns a bound without moving, the offset is 0). `ViewSettles` adds `AimInv`: every capture of the current generation
  was asked for at the offset it will be shown at, so whichever arrives last agrees with the status bar.
* `RemoteSessionsProofs`: `TypeCorrect`; `EnsuredRoutable`, by `Routable` (an `ok` of the once, and every pipeline
  behind AddRemote, stand for a registered provider, and providers are replaced but never removed);
  `CreationsStayListed`, by `Kept` (a creation has its placeholder until `finish` and `finish` is reached with the session in the store,
  or the entry is excused) and by `Excuses`, that the collector deletes only what it may (a placeholder marked dead has failed, a mirror marked
  dead has lost its ssh, and so has what a Sync, a copy or a collection still holds of them); `OneMirrorPerSession`, by `MirrorInv`: mirrors are
  made for sessions that exist, each by one job (`BornInv`), and while the dialog is not used one job connects and the others wait
  (`OnceInv`), so that a session still to be restored has no record and no window, unless its record went first (`TwinInv`).
* `DaemonFeedProofs`: `PromptsKeepTheirOrder`, by `FeedInv`: a queue argument along the whole way. `QueuesInv` says that the numbers on a
  stream grow from the wire through the subscription to the last hook event, `GivenInv` that what a provider holds comes after what the GUI was given
  and before what is on its wire; an old stream beside a new one cannot break it because a prompt is taken by one stream only.
  `TypeCorrect` includes that the wire and the subscriptions keep to their buffers. `CreatedAreCached` has no hypothesis on the order of answers and
  snapshots. `StoreInv`: the daemon has a session once, and nobody knows an id it did not make. `ListInv`: a session of the daemon whose
  launch crossed nothing is in every list on its way and in no delete's answer; so whatever arrives later keeps it in the cache (`MadeInv`).
  `SidebarIsFollowed` needs `TurnInv` (providers come one after the other), `NamedInv` (an event on the wire names its own session, or none,
  and none only if an event without a session was sent), `LowInv` (what is on the wire and in the subscription is newer than all
  that the TUI has) and `WaitInv` (what waits in the TUI is newer than what the sidebar shows, or noted as overtaken).
* `DeskProofs`: `TypeCorrect` (`TypeInv`), `FocusFollowsTheScreen`, `InputsReachTheirTitle`. `FocusInv`: an open dialog has its views, the focus is in a view of no
  other dialog, a dialog's active field is one of its own, and whatever the updates did to the focus the layout has the last word
  before the next key. `AskInv`: title, channel and what is typed name one password prompt, and a channel holds only its own
  prompt's answer. `RenameInv`: one rename at a time, asked for or open, so that what is typed goes to the session in the title.
* `MessageRouterProofs`, about `MessageRouter` and `Projects`: `TypeCorrect`, `StoreStaysSound`, `MessagesReachRecipients`, `WorkersJoinCallers`, for any number of
  requests, any mix of their kinds and whatever the user may do meanwhile (`Visits`, `Ops`); the runs have one kind at a time. The store is seen as its entries (a session with the path of its project): what
  the searches find, and what Add, Remove and a change of every session leave of the entries, is proved once. `TreeInv` is the soundness of
  the store with `EntriesInv` (ids were given out, a project of this machine is a root directory, a worker bears the name of its worktree
  until a rename, a stored window was made for its session). A window keeps the id it was made for, and one more window makes the rest no other's.
  The store may hold an id of `unsaved` twice in one project, so Remove and Rename are about the first of its places and a message about
  the last. Each operation of the manager keeps it and moves no session to another project (`TreeStep`), but the resume of a
  collected session by name. On top of it each request has three facts. `MessageOK`: its text is in the window that was resolved or nowhere, and `at` and `unheard`
  say which; that window was made for the recipient. `CallerOK`: its caller is not a mirror. `JoinOK`: from the moment
  the project is found, the caller lives in it or is gone, and so does what was made, unless a session was resumed by name. Both are sessions
  of this machine in a project with that path, and a sound store has one such project.

Only model-checked: liveness (`RecoveryEnds`, `MonitorsRespond`, `DeadIsCollected`, `PromptIsAnswered`, `PlaceholderIsResolved`, `BackgroundWorkEnds`,
`ActivityArrives`, `HooksFindServer`, `AskpassEnds`, `NoDialogTraps`) and the fairness of `ImplementsLifecycle`, which are out of the prover's reach.
Every safety property that a passing run checks is proved, three of them under the hypotheses named above (`DiskFollowsMemory`, `WindowsAreOwned`,
`ResumeLosesNothing`).

## 5. Findings and observations

Two disagreements between code and comments are kept as runs (`findings` in `PROJECT.json`): the reconnect that cancels its
own context, and the collector's stale copy.

Met while modelling, true of the code, not kept as runs. Sessions and connections:

* A retry that fails leaves ConnectionError on the status bar between attempts, and a monitor may still report
  Reconnecting after a Disconnect. `Client` can return nil without an error during a Disconnect.
* A Save that fails after the relaunch of ResumeSession (`manager.go:505`) leaves two records of one id, the launched one and the old
  one that `manager.go:1036` puts back, in the same project; the next Sync gives both the one window, and a Delete takes the first.
  PurgeOrphans, which does not hold `Manager.mu`, can remove a session that was just resumed.
* Two comments say that an orphan's window may still be alive, because HasSession failed for a moment (`manager.go:749`, `gc.go:69`), and that
  Delete therefore spares it. Sync does not make such orphans any more: it returns without a change when has-session says no
  (`manager.go:153`), and marks an orphan only from a listing that misses the window. What still makes an orphan with a live window is the
  record of the previous observation, if the resumed session was an orphan, which Sync corrects; and things outside the
  model, a window renamed by hand or a second TUI on the same `state.json`. `RecordsAreSound` says so, with that exception.
* The TUI and a daemon on one host write the same `state.json` (`store.go:164`): the last writer wins.
* MarkConnected keeps the error of an earlier lazy connection (`remote_host.go:66`), and every later command returns it, though `remote_host.go:34`
  says it returns nil if already connected.
* `OnReconnect` hooks are never registered, and StartSSE is called by the connect pipeline only (`root.go:253`), while
  `api.go:329` says that full_sync is emitted on reconnect. A dialog that connects a connected host leaves the old
  provider's stream running and may mirror a session twice; the status bar and the commands may use two
  different connections.
* Deleting a failed placeholder leaves its error window; a placeholder stays when Create's Save fails; a
  deleted remote session can be mirrored again by a concurrent RestoreExisting; quitting in the middle of a creation
  leaves a placeholder on disk; `lifecycle.Register` after Close is dropped.
* A "connecting..." placeholder has no window, so the next Sync makes an orphan of it (`manager.go:181`), and a purge then removes it while its
  creation goes on: the sidebar shows nothing until the session is mirrored. Once it failed, its error window makes Sync call it
  Running until Enter closes it.
* The error of DeleteMirror is ignored (`session_command.go:116`): a mirror window that could not be killed stays without a record, and
  RestoreExisting opens a second one beside it if the daemon still has the session. A purge does the same to an orphan whose window came back.
* The collector deletes a mirror as soon as its ssh has exited, without the grace period: the record of a mirror has no CreatedAt.
  The session goes on running on its host, out of the sidebar until the host is connected again.
* A session renamed, or resumed by the name of its worktree, frees that name: a second worker gets the same worktree directory.
* An activity of a window without a session gets an empty id, "so downstream matching fails cleanly" (`server_sse.go:149`); the
  empty id is a prefix of every id, and the provider shows the activity for its first session.
* Hooks take the highest port: a server that starts after the TUI with a higher one takes the hooks that `root.go:437` says always reach the TUI.
* `DiscoverServer` takes the highest port, "matching the hooks' behavior" (`discover.go:19`), and skips the locks of other programs
  (`discover.go:42`); the hooks' `findAliveLockJS` does not (`hooks.go:13`). While VS Code or JetBrains has a lock with a higher port, hooks post
  to the editor and the command line talks to lazyclaude. CleanStale (`lock.go:109`) removes stale locks of other programs too, CleanAllExcept
  (`lock.go:162`) does not.
* addToCache "keeps the in-memory session cache coherent with the remote daemon" (`remote_provider.go:465`) unless the launch crossed a list of the
  sessions that was taken before it and arrives after its answer, or the answer of an earlier delete of the same id. The session
  is then missing from the cache, and its activity is not shown, until the host is connected again.

Hooks and messages:

* The broker drops a prompt when the buffer is full, and nothing enqueues it as a file instead (`server.go:563`).
  Two activity updates of one window may be applied in the wrong order (`app.go:151` says they need no mutex, which is true, and nothing orders
  them). Remote activity takes the same way, through the TUI's own broker with its 8 slots, and may be dropped there with the stream intact.
* A tool that Claude's settings allow leaves its pending entry behind; the popup of the next prompt of the window shows that tool (`state.go:101`).
* A prompt of the window in full screen gets no popup (`popup.go:24`) and none later, when full screen is left without an answer.
* The choice for a popup goes to whatever prompt its window shows when it is sent (`popup.go:40`). A remote prompt without a mirror window keeps
  the remote window's id (`root.go:857`), and the choice goes to the local window of that id, if there is one.
* A message to a session whose Claude has exited is answered "delivered" (`handler_msg.go:287`): `remain-on-exit` (`manager.go:885`) keeps the
  pane, and tmux takes keys for a dead pane without an error. So is one whose Enter failed, which stays typed in the prompt.
* The prompt of a session made by `/msg/create` is never typed if the session is local (`handler_msg.go:153`): its window is empty
  until the next Sync.

Screen and dialogs:

* PopupJumpToSession (`app_actions.go:877`) moves the cursor in full screen; the next keys go to the session at the cursor, not to
  the one on the screen.
* When the session in full screen disappears, `layoutFullScreen` leaves full screen and not scroll mode: its lines and its
  offset are there when full screen is entered again. The selection's anchor is a row of the view, which scrolling does not
  move. In a pane without history the wheel leaves the live end, and g then shows the live lines at that offset.
* A paste is sent by the event loop and may overtake keys that are queued; the goroutines of `SendKeyToPane` have no
  order among themselves. Esc in the search restores an index that was taken in the filtered list; a search on a panel too small for its
  field cannot be closed.
* The directory of a profile dialog that another dialog replaced stays: N, R, Esc, n, Enter creates the session there (`dialog.go:60`).
  `RenameID` stays after an interrupted rename, and R does nothing from then on. Enter in the key help enters full screen. The confirmation of a
  worktree takes the session at the cursor at that time. A password prompt over another dialog leaves the views of that
  dialog; one that opens in full screen is out of reach until full screen is left. A second answer to a prompt that is gone waits
  for ever on its channel, and with it the event loop.
* A popup that was pushed and not yet drawn takes the next key. The popup bindings by view (`keybindings.go:60`) never match, because the
  views are called `tool-popup-%d`; the keys arrive through the chain. Nobody opens the dialog RemoteProfileError.
* A Refresh of the MCP panel for a host that was left overwrites the cache of the new one (`mcp/manager.go:240`);
  ToggleDenied reads its target when its goroutine runs (`app_actions.go:1170`). The host of a command is that of the
  last row rendered (`gui_adapter.go:120`).

## 6. Not modelled

* The adapter between providers and the GUI: it turns sessions into rows and forwards calls; its choice of a host is read above.
* tmux and its control mode: the program reads the output of an external process; what tmux does is modelled where it is used.
* MCP servers and plugins panels, profiles, the command line: sequential reading, parsing and printing.
* The WebSocket IDE protocol (`handler.go`, `jsonrpc.go`), rendering, and the vendored terminal libraries.
* Of the screen: pastes, the selection, the preview, `SendKeyToPane`, views that resize while scroll mode is on. Of the
  remote host: Rename, ResumeSession and ListWorktrees, which are calls without a placeholder. Of dialogs: what is typed.

## 7. How the project grows

The modules are independent but for EXTENDS: `Screen` over `PopupStack`, `KeyForwarder`, `Scrollback`; `MessageRouter` over `Projects`; `Desk` over
`KeyMap`; `RemoteConnection` against `ConnectionLifecycle`. A change of the code touches the definitions whose lines `map` names. What would
pay next: the panels' refresh against their toggles, and `Manager.mu` against Rename and PurgeOrphans step by step.
