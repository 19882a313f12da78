------------------------------ MODULE DaemonFeed ------------------------------
(***************************************************************************)
(* The sessions and the activity of one remote host on their way to the    *)
(* TUI: the daemon's handlers and its stream of notifications              *)
(* (daemon/server.go, server_sse.go), the HTTP client, and the provider    *)
(* that caches what they say (remote_provider.go, root.go).  An activity   *)
(* goes on through the TUI's own broker and an update of the GUI of its    *)
(* own (event/broker.go, gui/app.go).                                      *)
(*                                                                         *)
(* Every run of connectRemoteHost makes a provider of its own, with its    *)
(* own cache and its own stream; CompositeProvider keeps the latest.  The  *)
(* window of a session has the name of the session, Stray is the window of *)
(* a Claude the daemon has no session for.  Hook events are numbered: the  *)
(* number stands for the activity it reports.  The last four variables but *)
(* the counters are histories the properties need: no action reads them.   *)
(***************************************************************************)
EXTENDS Naturals, Sequences, FiniteSets, SequencesExt

CONSTANTS
  Ids,         (* session ids of the daemon                                *)
  Stray,       (* a window of no session                                   *)
  NoId,        (* the empty session id                                     *)
  Connections, (* bound: runs of connectRemoteHost                         *)
  Callers,     (* goroutines of the TUI that use a provider                *)
  Kinds,       (* what they call                                           *)
  SubBuffer,   (* capacity of a broker subscription (64)                   *)
  LocalBuffer, (* capacity of the GUI's subscription to the local broker (8) *)
  WireSize,    (* bound: notifications between handler and provider        *)
  Visits,      (* bounds an execution may have: runs of connectRemoteHost,
                  goroutines that call, what and how often, hook events,
                  sessions that come and go on the host itself             *)
  MaxEvents,   (* bound: hook events of any execution                      *)
  Strays,      (* TRUE: events of windows without a session                *)
  Drops        (* TRUE: connections break                                  *)

Providers == 1 .. Connections

ASSUME ConstantsAssumption ==
  /\ Stray \notin Ids /\ NoId \notin Ids \cup {Stray}
  /\ Kinds \subseteq {"create", "worktree", "resume", "delete", "lookup"}
  /\ {Connections, SubBuffer, LocalBuffer, WireSize} \subseteq Nat \ {0}
  /\ MaxEvents \in Nat
  /\ Visits \subseteq [connections : Providers, callers : SUBSET Callers, kinds : SUBSET Kinds, calls : Nat,
                       events : 0 .. MaxEvents, changes : Nat]
  /\ {Strays, Drops} \subseteq BOOLEAN

VARIABLES
  remote,     (* the daemon's sessions, in the order of its store          *)
  used,       (* ids handed out so far                                     *)
  published,  (* number of the last hook event                             *)
  step,       (* how far connectRemoteHost of each provider is             *)
  answer,     (* the answer of GET /sessions a provider is about to apply  *)
  current,    (* CompositeProvider.remotes[host], 0: none                  *)
  stream,     (* the handler of each provider's stream                     *)
  sub,        (* its broker subscription                                   *)
  wire,       (* notifications written and not yet consumed                *)
  cache,      (* RemoteProvider.sessions                                   *)
  notes,      (* RemoteProvider.notifications                              *)
  calls,      (* the call of each goroutine                                *)
  mirrored,   (* sessions with a mirror in the local store                 *)
  sidebar,    (* windowActivity of each mirror: the event it shows         *)
  prompts,    (* tool prompts given to the GUI, in order                   *)
  local,      (* the GUI's subscription to the TUI's own broker            *)
  updates,    (* gui.Update callbacks under way to the event loop          *)
  made,       (* ids each provider took an answer for, that the daemon has had since *)
  crossed,    (* ids launched while a list, or the answer of a delete of the
                 same id, was under way to the provider                     *)
  dropped,    (* numbers of activities the local broker dropped            *)
  overtaken,  (* numbers of what the TUI held back until it was out of date *)
  strayed,    (* a notification without a session id was sent              *)
  visit, called, changes  (* the bounds of this execution and its counters *)

daemonVars == <<remote, used, published>>
streamVars == <<stream, sub, wire>>
pipeVars == <<step, answer, current>>
guiVars == <<mirrored, sidebar, prompts>>
loopVars == <<local, updates, dropped, overtaken>>
madeVars == <<made, crossed>>
vars == <<daemonVars, streamVars, pipeVars, cache, notes, madeVars, calls, guiVars, loopVars, strayed, visit, called, changes>>

Windows == Ids \cup {Stray}
Hooks == [kind : {"activity", "prompt"}, window : Windows, n : 1 .. MaxEvents]
Shown == [window : Windows \cup {NoId}, n : 0 .. MaxEvents]
Nothing == [window |-> NoId, n |-> 0]
Prompt == [window : Windows, mirror : Ids \cup {NoId}, n : 1 .. MaxEvents]
Call == [kind : Kinds, id : Ids \cup {NoId}, via : Providers, at : {"sent", "ok", "failed", "mirror"}]
NoCall == [kind |-> "none", id |-> NoId, via |-> 0, at |-> "idle"]
Launching == {"create", "worktree", "resume"}
Idle(c) == calls[c] = NoCall
CacheIds(p) == ToSet(cache[p])
Broken(p) == stream[p] = "ended"

TypeOK ==
  /\ remote \in Seq(Ids) /\ used \subseteq Ids /\ published \in 0 .. MaxEvents
  /\ step \in [Providers -> {"off", "list", "listed", "stream", "up"}]
  /\ answer \in [Providers -> Seq(Ids)] /\ current \in Providers \cup {0}
  /\ stream \in [Providers -> {"none", "open", "subscribed", "ended"}]
  /\ sub \in [Providers -> Seq(Hooks)]
  /\ \A p \in Providers : Len(sub[p]) =< SubBuffer /\ Len(wire[p]) =< WireSize
  /\ cache \in [Providers -> Seq(Ids)] /\ notes \in [Providers -> Seq(Prompt)]
  /\ {made, crossed} \subseteq [Providers -> SUBSET Ids]
  /\ calls \in [Callers -> Call \cup {NoCall}]
  /\ mirrored \subseteq Ids /\ sidebar \in [Ids -> Shown]
  /\ prompts \in Seq(Prompt) /\ local \in Seq(Prompt) /\ Len(local) =< LocalBuffer
  /\ updates \subseteq Prompt /\ dropped \cup overtaken \subseteq 1 .. MaxEvents /\ strayed \in BOOLEAN
  /\ visit \in Visits /\ called \in 0 .. visit.calls /\ changes \in 0 .. visit.changes

Init ==
  /\ \E old \in SUBSET Ids : old # Ids /\ IsFiniteSet(old) /\ remote = SetToSeq(old) /\ used = old
  /\ published = 0
  /\ step = [p \in Providers |-> "off"] /\ answer = [p \in Providers |-> <<>>] /\ current = 0
  /\ stream = [p \in Providers |-> "none"]
  /\ sub = [p \in Providers |-> <<>>] /\ wire = [p \in Providers |-> <<>>]
  /\ cache = [p \in Providers |-> <<>>] /\ notes = [p \in Providers |-> <<>>]
  /\ made = [p \in Providers |-> {}] /\ crossed = [p \in Providers |-> {}]
  /\ calls = [c \in Callers |-> NoCall]
  /\ mirrored = {} /\ sidebar = [s \in Ids |-> Nothing] /\ prompts = <<>>
  /\ local = <<>> /\ updates = {} /\ dropped = {} /\ overtaken = {}
  /\ strayed = FALSE /\ visit \in Visits /\ called = 0 /\ changes = 0

-----------------------------------------------------------------------------
(* The stream: broker, handler, wire.                                      *)

Sync(ids) == [kind |-> "sync", ids |-> ids]

\* sessionIDForWindow: the session of a window as the daemon knows it when
\* the handler gets to the event, the empty id when there is none.
SessionIdFor(w) == IF w \in ToSet(remote) THEN w ELSE NoId

\* brokerEventToNotification.
Notification(h) == [kind |-> h.kind, id |-> SessionIdFor(h.window), window |-> h.window, n |-> h.n]

\* Publish: a full subscription drops the event.
Publish(h) ==
  sub' = [p \in Providers |-> IF stream[p] = "subscribed" /\ Len(sub[p]) < SubBuffer THEN Append(sub[p], h) ELSE sub[p]]

Hook(w, kind) ==
  /\ published < visit.events /\ published' = published + 1
  /\ w \in ToSet(remote) \/ (Strays /\ w = Stray)
  /\ Publish([kind |-> kind, window |-> w, n |-> published + 1])
  /\ UNCHANGED <<remote, used, stream, wire, pipeVars, cache, notes, madeVars, calls, guiVars, loopVars, strayed, visit, called, changes>>

\* handleSSE writes the snapshot before it subscribes.
Subscribe(p) ==
  /\ stream[p] = "open" /\ stream' = [stream EXCEPT ![p] = "subscribed"]
  /\ UNCHANGED <<daemonVars, sub, wire, pipeVars, cache, notes, madeVars, calls, guiVars, loopVars, strayed, visit, called, changes>>

Forward(p) ==
  /\ stream[p] = "subscribed" /\ sub[p] # <<>> /\ Len(wire[p]) < WireSize
  /\ wire' = [wire EXCEPT ![p] = Append(@, Notification(Head(sub[p])))]
  /\ sub' = [sub EXCEPT ![p] = Tail(@)]
  /\ strayed' = (strayed \/ Notification(Head(sub[p])).id = NoId)
  /\ UNCHANGED <<daemonVars, stream, pipeVars, cache, notes, madeVars, calls, guiVars, loopVars, visit, called, changes>>

\* The connection breaks, the daemon shuts down or StopSSE cancels: the
\* handler returns, what is on the wire may be lost from some place on.
EndStream(p) ==
  /\ Drops /\ stream[p] \in {"open", "subscribed"}
  /\ stream' = [stream EXCEPT ![p] = "ended"]
  /\ sub' = [sub EXCEPT ![p] = <<>>]
  /\ \E n \in 0 .. Len(wire[p]) : wire' = [wire EXCEPT ![p] = SubSeq(@, 1, n)]
  /\ UNCHANGED <<daemonVars, pipeVars, cache, notes, madeVars, calls, guiVars, loopVars, strayed, visit, called, changes>>

-----------------------------------------------------------------------------
(* The provider at the other end of the wire.                              *)

\* The sessions an activity of the id is taken for: HasPrefix(ID, "").
Matches(s, id) == s = id \/ id = NoId

\* Mutant of FirstMatch: only the first session of the cache is compared.
HeadMatch(p, id) == IF cache[p] # <<>> /\ Matches(Head(cache[p]), id) THEN Head(cache[p]) ELSE NoId

FirstMatch(p, id) ==
  LET hits == {i \in DOMAIN cache[p] : Matches(cache[p][i], id)}
  IN IF hits = {} THEN NoId ELSE cache[p][Min(hits)]

\* The window of a mirror, while there is one.
Resolved(s, e) ==
  [window |-> e.window, mirror |-> IF s \in mirrored THEN s ELSE NoId, n |-> e.n]

\* EventActivity: published in the TUI for the first match, with the window of
\* its mirror (resolveActivityWindow).  A full subscription drops it, and
\* the events of the TUI's own hooks may have filled it.
ShowActivity(p, e) ==
  LET s == FirstMatch(p, e.id)
  IN \/ s = NoId /\ UNCHANGED <<local, dropped>>
     \/ s # NoId /\ Len(local) < LocalBuffer /\ local' = Append(local, Resolved(s, e)) /\ UNCHANGED dropped
     \/ s # NoId /\ dropped' = dropped \cup {e.n} /\ UNCHANGED local

\* handleSSEEvent; a prompt is rewritten (rewriteToolNotificationWindow) and
\* kept for the tick.
Take(p, e) ==
  \/ e.kind = "sync" /\ cache' = [cache EXCEPT ![p] = e.ids] /\ UNCHANGED <<notes, local, dropped>>
  \/ e.kind = "activity" /\ ShowActivity(p, e) /\ UNCHANGED <<cache, notes>>
  \/ e.kind = "prompt" /\ notes' = [notes EXCEPT ![p] = Append(@, Resolved(e.id, e))] /\ UNCHANGED <<cache, local, dropped>>

\* Mutant of Consume: the newest notification first.
ConsumeLast(p) ==
  /\ wire[p] # <<>> /\ Take(p, Last(wire[p]))
  /\ wire' = [wire EXCEPT ![p] = Front(@)]
  /\ UNCHANGED <<daemonVars, stream, sub, pipeVars, madeVars, calls, guiVars, updates, overtaken, strayed, visit, called, changes>>

\* consumeSSE.
Consume(p) ==
  /\ wire[p] # <<>> /\ Take(p, Head(wire[p]))
  /\ wire' = [wire EXCEPT ![p] = Tail(@)]
  /\ UNCHANGED <<daemonVars, stream, sub, pipeVars, madeVars, calls, guiVars, updates, overtaken, strayed, visit, called, changes>>

-----------------------------------------------------------------------------
(* The GUI.                                                                *)

\* What the TUI has in hand and has not shown yet.
Waiting == updates \cup ToSet(local) \cup UNION {ToSet(notes[p]) : p \in Providers}

\* The sidebar now shows something as new as these, or newer.
Outdated == {u.n : u \in {v \in Waiting : v.mirror \in Ids /\ v.n =< sidebar[v.mirror].n}}

\* The loop of App.Run takes an event of the broker and starts an update of
\* the GUI; gocui lets the updates arrive in any order.
TakeLocal ==
  /\ local # <<>>
  /\ updates' = updates \cup {Head(local)} /\ local' = Tail(local)
  /\ UNCHANGED <<daemonVars, streamVars, pipeVars, cache, notes, madeVars, calls, guiVars, dropped, overtaken, strayed, visit, called, changes>>

\* setWindowActivity in the event loop.
ApplyUpdate(u) ==
  /\ u \in updates /\ updates' = updates \ {u}
  /\ sidebar' = IF u.mirror = NoId THEN sidebar ELSE [sidebar EXCEPT ![u.mirror] = [window |-> u.window, n |-> u.n]]
  /\ UNCHANGED <<daemonVars, streamVars, pipeVars, cache, notes, madeVars, calls, mirrored, prompts, local, dropped>>
  /\ overtaken' = overtaken \cup Outdated'
  /\ UNCHANGED <<strayed, visit, called, changes>>

\* showToolPopup after setWindowActivity, for each prompt: the windows of the
\* mirrors are marked as waiting, with whatever they showed before.
Marked(ms) ==
  [s \in Ids |->
     LET own == {i \in DOMAIN ms : ms[i].mirror = s}
     IN IF own = {} THEN sidebar[s] ELSE [window |-> ms[Max(own)].window, n |-> ms[Max(own)].n]]

Drain(p) ==
  /\ notes[p] # <<>> /\ ~Broken(p)
  /\ prompts' = prompts \o notes[p] /\ sidebar' = Marked(notes[p])
  /\ notes' = [notes EXCEPT ![p] = <<>>]
  /\ UNCHANGED <<daemonVars, streamVars, pipeVars, cache, madeVars, calls, mirrored, local, updates, dropped>>
  /\ overtaken' = overtaken \cup Outdated'
  /\ UNCHANGED <<strayed, visit, called, changes>>

\* Mutant of PendingNotifications: every provider, not only the registered.
DrainAny == \E p \in Providers : Drain(p)

\* The tick of the GUI: drains the registered provider while it is
\* connected.
PendingNotifications == current # 0 /\ Drain(current)

-----------------------------------------------------------------------------
(* connectRemoteHost of a provider, once its connection is up.             *)

AddRemote(p) ==
  /\ step[p] = "off" /\ p =< visit.connections /\ \A q \in Providers : q < p => step[q] = "up"
  /\ current' = p /\ step' = [step EXCEPT ![p] = "list"]
  /\ UNCHANGED <<daemonVars, streamVars, answer, cache, notes, madeVars, calls, guiVars, loopVars, strayed, visit, called, changes>>

ListSessions(p) ==
  /\ step[p] = "list" /\ step' = [step EXCEPT ![p] = "listed"]
  /\ answer' = [answer EXCEPT ![p] = remote]
  /\ UNCHANGED <<daemonVars, streamVars, current, cache, notes, madeVars, calls, guiVars, loopVars, strayed, visit, called, changes>>

\* Sessions() stores the answer; RestoreExisting makes the missing mirrors.
RestoreMirrors(p) ==
  /\ step[p] = "listed" /\ step' = [step EXCEPT ![p] = "stream"]
  /\ cache' = [cache EXCEPT ![p] = answer[p]]
  /\ \E failed \in SUBSET (ToSet(answer[p]) \ mirrored) : mirrored' = mirrored \cup (ToSet(answer[p]) \ failed)
  /\ answer' = [answer EXCEPT ![p] = <<>>]
  /\ UNCHANGED <<daemonVars, streamVars, current, notes, madeVars, calls, sidebar, prompts, loopVars, strayed, visit, called, changes>>

\* StartSSE returns with the headers: the snapshot has been taken.  Its
\* failure is not fatal: the provider stays without a stream.
StartSSE(p) ==
  /\ step[p] = "stream" /\ step' = [step EXCEPT ![p] = "up"]
  /\ \/ /\ stream' = [stream EXCEPT ![p] = "open"]
        /\ wire' = [wire EXCEPT ![p] = <<Sync(remote)>>]
     \/ Drops /\ UNCHANGED <<stream, wire>>
  /\ UNCHANGED <<daemonVars, sub, answer, current, cache, notes, madeVars, calls, guiVars, loopVars, strayed, visit, called, changes>>

-----------------------------------------------------------------------------
(* Calls: the TUI's request, the daemon's handler, the provider's cache.   *)

\* A list of the sessions is under way to the provider.
Listing(p) == step[p] = "listed" \/ \E i \in DOMAIN wire[p] : wire[p][i].kind = "sync"
\* So is the answer of a delete.
Deleting(p, s) == \E c \in Callers : calls[c] = [kind |-> "delete", id |-> s, via |-> p, at |-> "ok"]

\* History: the launch of a session crosses what is under way.
Cross(s) == crossed' = [p \in Providers |-> IF Listing(p) \/ Deleting(p, s) THEN crossed[p] \cup {s} ELSE crossed[p]]
\* History: a session is gone from the daemon.
Lose(s) == made' = [p \in Providers |-> made[p] \ {s}]

\* The TUI may use a provider as soon as it is registered.  The daemon makes
\* the id of a new session.
Request(c) ==
  /\ Idle(c) /\ c \in visit.callers /\ called < visit.calls /\ called' = called + 1
  /\ current # 0
  /\ \E k \in visit.kinds, s \in Ids \cup {NoId} :
       /\ k \in {"create", "worktree"} => s = NoId
       /\ k \in {"delete", "resume", "lookup"} => s \in mirrored
       /\ calls' = [calls EXCEPT ![c] = [kind |-> k, id |-> s, via |-> current, at |-> "sent"]]
  /\ UNCHANGED <<daemonVars, streamVars, pipeVars, cache, notes, madeVars, guiVars, loopVars, strayed, visit, changes>>

Answer(c, at) == calls' = [calls EXCEPT ![c].at = at]
Handling(c, kinds) == calls[c].at = "sent" /\ calls[c].kind \in kinds

\* Manager.Create and its like: a record with a new id at the end.
Launch(c, s) ==
  /\ s \in Ids \ used /\ used' = used \cup {s}
  /\ remote' = Append(remote, s) /\ Cross(s)
  /\ calls' = [calls EXCEPT ![c] = [@ EXCEPT !.id = s, !.at = "ok"]]
  /\ UNCHANGED <<published, streamVars, pipeVars, cache, notes, made, guiVars, loopVars, strayed, visit, called, changes>>

\* handleSessionCreate: a plain session, a worktree, a PM or a worker.
HandleCreate(c) == Handling(c, {"create"}) /\ \E s \in Ids : Launch(c, s)

\* handleWorktreeCreate, handleWorktreeResume: a session with a new id.
HandleWorktree(c) == Handling(c, {"worktree"}) /\ \E s \in Ids : Launch(c, s)

\* handleSessionResume: ResumeSession removes the record, if there still is
\* one, and launches at the end of the store under the same id.
HandleResume(c) ==
  /\ Handling(c, {"resume"})
  /\ remote' = Append(RemoveFirst(remote, calls[c].id), calls[c].id) /\ Cross(calls[c].id)
  /\ Answer(c, "ok")
  /\ UNCHANGED <<used, published, streamVars, pipeVars, cache, notes, made, guiVars, loopVars, strayed, visit, called, changes>>

HandleDelete(c) ==
  /\ Handling(c, {"delete"})
  /\ remote' = RemoveFirst(remote, calls[c].id) /\ Lose(calls[c].id)
  /\ Answer(c, IF calls[c].id \in ToSet(remote) THEN "ok" ELSE "failed")
  /\ UNCHANGED <<used, published, streamVars, pipeVars, cache, notes, crossed, guiVars, loopVars, strayed, visit, called, changes>>

\* Rename, scrollback and history size look the session up and leave the
\* provider's cache alone.
HandleLookup(c) ==
  /\ Handling(c, {"lookup"}) /\ Answer(c, IF calls[c].id \in ToSet(remote) THEN "ok" ELSE "failed")
  /\ UNCHANGED <<daemonVars, streamVars, pipeVars, cache, notes, madeVars, guiVars, loopVars, strayed, visit, called, changes>>

\* An error of the handler, or the connection breaks before or after it.
HandleFails(c) ==
  /\ Drops /\ calls[c].at \in {"sent", "ok"} /\ Answer(c, "failed")
  /\ UNCHANGED <<daemonVars, streamVars, pipeVars, cache, notes, madeVars, guiVars, loopVars, strayed, visit, called, changes>>

\* addToCache, removeFromCache.
Added(seq, s) == IF s \in ToSet(seq) THEN seq ELSE Append(seq, s)
Removed(seq, s) == RemoveFirst(seq, s)

\* Mutant of Cached: no addToCache.
CachedOnlyRemoved(k, seq, s) ==
  CASE k = "delete" -> Removed(seq, s)
    [] OTHER -> seq

Cached(k, seq, s) ==
  CASE k \in Launching -> Added(seq, s)
    [] k = "delete" -> Removed(seq, s)
    [] OTHER -> seq

\* The provider takes the answer; what was launched still needs its mirror.
ApplyAnswer(c) ==
  LET call == calls[c] IN
  /\ call.at = "ok"
  /\ cache' = [cache EXCEPT ![call.via] = Cached(call.kind, @, call.id)]
  /\ made' = IF call.kind \in Launching THEN [made EXCEPT ![call.via] = @ \cup ({call.id} \cap ToSet(remote))] ELSE made
  /\ calls' = [calls EXCEPT ![c] = IF call.kind = "lookup" THEN NoCall ELSE [@ EXCEPT !.at = "mirror"]]
  /\ UNCHANGED <<daemonVars, streamVars, pipeVars, notes, crossed, guiVars, loopVars, strayed, visit, called, changes>>

\* invokePostCreate: the hook makes the mirror of a worktree, of a PM or a
\* worker and of a resumed session; SessionCommandService that of a plain one.
MakeMirror(c) ==
  /\ calls[c].at = "mirror" /\ calls[c].kind \in Launching
  /\ mirrored' = mirrored \cup {calls[c].id} /\ calls' = [calls EXCEPT ![c] = NoCall]
  /\ UNCHANGED <<daemonVars, streamVars, pipeVars, cache, notes, madeVars, sidebar, prompts, loopVars, strayed, visit, called, changes>>

\* What waits for a mirror's window is for a window that is gone.
Without(s, u) == IF u.mirror = s THEN [u EXCEPT !.mirror = NoId] ELSE u
WithoutAll(s, us) == [i \in DOMAIN us |-> Without(s, us[i])]

\* The window and the record of a deleted session go.
DropMirror(c) ==
  LET s == calls[c].id IN
  /\ calls[c].at = "mirror" /\ calls[c].kind = "delete"
  /\ mirrored' = mirrored \ {s} /\ calls' = [calls EXCEPT ![c] = NoCall]
  /\ sidebar' = [sidebar EXCEPT ![s] = Nothing]
  /\ notes' = [p \in Providers |-> WithoutAll(s, notes[p])]
  /\ local' = WithoutAll(s, local)
  /\ updates' = {Without(s, u) : u \in updates}
  /\ UNCHANGED <<daemonVars, streamVars, pipeVars, cache, madeVars, prompts, dropped, overtaken, strayed, visit, called, changes>>

CallFails(c) ==
  /\ calls[c].at = "failed" /\ calls' = [calls EXCEPT ![c] = NoCall]
  /\ UNCHANGED <<daemonVars, streamVars, pipeVars, cache, notes, madeVars, guiVars, loopVars, strayed, visit, called, changes>>

-----------------------------------------------------------------------------
(* What happens on the host itself: a PM creates a worker with msg create, *)
(* the daemon's collector removes a dead session.  No event tells the TUI. *)

RemoteChange ==
  /\ changes < visit.changes /\ changes' = changes + 1
  /\ \/ \E s \in Ids \ used : remote' = Append(remote, s) /\ used' = used \cup {s} /\ Cross(s) /\ UNCHANGED made
     \/ \E s \in ToSet(remote) : remote' = Removed(remote, s) /\ Lose(s) /\ UNCHANGED <<used, crossed>>
  /\ UNCHANGED <<published, streamVars, pipeVars, cache, notes, calls, guiVars, loopVars, strayed, visit, called>>

ProviderStep(p) ==
  \/ Subscribe(p) \/ Forward(p) \/ EndStream(p) \/ Consume(p)
  \/ AddRemote(p) \/ ListSessions(p) \/ RestoreMirrors(p) \/ StartSSE(p)

CallStep(c) ==
  \/ Request(c) \/ HandleCreate(c) \/ HandleWorktree(c) \/ HandleResume(c) \/ HandleDelete(c) \/ HandleLookup(c) \/ HandleFails(c)
  \/ ApplyAnswer(c) \/ MakeMirror(c) \/ DropMirror(c) \/ CallFails(c)

Next ==
  \/ \E w \in Windows, kind \in {"activity", "prompt"} : Hook(w, kind)
  \/ \E p \in Providers : ProviderStep(p)
  \/ \E c \in Callers : CallStep(c)
  \/ TakeLocal \/ \E u \in updates : ApplyUpdate(u)
  \/ PendingNotifications \/ RemoteChange

Spec == Init /\ [][Next]_vars

\* The handler, the provider's goroutine and the loop of the GUI go on while
\* there is something to read, every gui.Update arrives, the GUI ticks.
Fairness ==
  /\ \A p \in Providers : WF_vars(Subscribe(p)) /\ WF_vars(Forward(p)) /\ WF_vars(Consume(p))
  /\ WF_vars(TakeLocal) /\ \A n \in 1 .. MaxEvents : WF_vars(\E u \in updates : u.n = n /\ ApplyUpdate(u))
  /\ WF_vars(PendingNotifications)

FairSpec == Spec /\ Fairness

-----------------------------------------------------------------------------
(* Properties                                                              *)

\* A session whose launch a provider was answered stays in its cache for as
\* long as the daemon has it, whatever lists and answers still arrive, unless
\* the launch crossed one of those: a list of the sessions taken before it,
\* or the answer of an earlier delete of the same id (remote_provider.go:465
\* claims it without the exception).
CreatedStaysCached ==
  \A p \in Providers : made[p] \subseteq CacheIds(p) \cup crossed[p]

\* The GUI is given the tool prompts of a host in the order of their hooks
\* and none of them twice, however often the host is connected again while
\* the streams of older connections go on.
PromptsInOrder == \A i, j \in DOMAIN prompts : i < j => prompts[i].n < prompts[j].n

\* What the sidebar shows for a session is replaced only by what is of the
\* same session, and by something older only if both waited in the TUI at
\* the same time, in its broker, its updates or for its tick; as long as one
\* connection was made and every event belonged to a session.
SidebarFollows ==
  [][(~strayed' /\ current =< 1) =>
       \A s \in Ids : sidebar'[s] \notin {sidebar[s], Nothing} =>
         /\ sidebar'[s].window = s
         /\ sidebar'[s].n > sidebar[s].n \/ sidebar'[s].n \in overtaken]_vars

\* An activity that a stream has taken over, of a session the provider has in
\* its cache and the TUI has a mirror of, is shown, unless the local broker
\* was full when it came, the stream breaks or the session goes.
ActivityArrives ==
  \A s \in Ids, n \in 1 .. MaxEvents : LET p == 1 IN
    (/\ s \in CacheIds(p) \cap mirrored
     /\ \E i \in DOMAIN sub[p] : sub[p][i] = [kind |-> "activity", window |-> s, n |-> n])
      ~> (sidebar[s].n >= n \/ n \in dropped \/ Broken(p) \/ s \notin CacheIds(p) \cap mirrored \cap ToSet(remote))
=============================================================================
