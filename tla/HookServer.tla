------------------------------ MODULE HookServer ------------------------------
(***************************************************************************)
(* From a Claude Code hook to a popup and back: the HTTP handlers of       *)
(* internal/server (server.go, state.go), the event broker                 *)
(* (core/event/broker.go) or the file queue (notify/notify.go), and the    *)
(* refresh loop of the TUI (gui/app.go, gui/popup.go).                     *)
(*                                                                         *)
(* Claude runs in tmux windows and posts a hook for each prompt, tool,     *)
(* permission prompt and stop.  Every request has a handler goroutine of   *)
(* its own, one step per lock it takes; every event the TUI receives is    *)
(* applied by a goroutine of gui.Update, in any order.  A window stands    *)
(* for its Claude process as well, whose pid all its hooks report.         *)
(***************************************************************************)
EXTENDS Naturals, Sequences, FiniteSets

CONSTANTS
  Windows,         (* tmux windows, each with a Claude                      *)
  NoWindow,        (* the window "" of an unresolved request               *)
  Environments     (* the surroundings in which the program is run         *)

\* What may happen beside Claude asking and the user answering popups:
Disturbance == {
  "autoApproval",  (* Claude's settings may allow a tool unasked            *)
  "paneAnswers",   (* the user also answers prompts in the pane            *)
  "fullscreen",    (* the user also views a window in full screen          *)
  "hookTimeouts",  (* a hook may give up before its handler is done        *)
  "tmuxFails",     (* a window lookup by pid may fail                      *)
  "expiry"}        (* pending tools and queued files grow stale            *)

\* buffer is that of the TUI's subscription (8 in the source); the others
\* bound the prompts submitted, the tools used and the restarts of the TUI.
Environment == [buffer : Nat, turns : Nat, tools : Nat, restarts : Nat, may : SUBSET Disturbance]

ASSUME ConstantsAssumption ==
  /\ NoWindow \notin Windows /\ IsFiniteSet(Windows)
  /\ \A e \in Environments : e \in Environment

VARIABLES
  env,         (* the surroundings of this behaviour, never changed        *)
  claude,      (* what each Claude does                                    *)
  using,       (* the tool each Claude uses, 0 for none                    *)
  asking,      (* the permission hook of an open prompt, 0 for none        *)
  requests,    (* requests whose handler still runs                        *)
  cached,      (* State.pidToWindow                                        *)
  pending,     (* State.pending of all windows, oldest first               *)
  activity,    (* Server.activityMap                                       *)
  channel,     (* the channel of the TUI's subscription                    *)
  subscribed,  (* the broker has the TUI's subscription                    *)
  queue,       (* notification files                                       *)
  updates,     (* events taken from the channel, not yet applied           *)
  shown,       (* App.windowActivity                                       *)
  popups,      (* the popup stack                                          *)
  full,        (* the window in full screen                                *)
  choices,     (* SendChoice calls under way                               *)
  hooks, tools, turns, restarts  (* hooks, tools, turns, restarts so far   *)

May(disturbance) == disturbance \in env.may
Buffer      == env.buffer
MaxTurns    == env.turns
MaxTools    == env.tools
MaxRestarts == env.restarts

external == <<claude, using, asking, tools, turns>>
server   == <<requests, cached, pending, activity>>
tui      == <<updates, shown, popups, full, choices>>
vars == <<external, server, channel, subscribed, queue, tui, hooks, restarts>>

Activities == {"Unknown", "Running", "NeedsInput", "Idle"}
Places == Windows \cup {NoWindow}
MaxHooks == 2 * MaxTurns + 2 * MaxTools
Tool == 0 .. MaxTools

Request == [n : 1 .. MaxHooks, kind : {"tool_info", "permission", "stop", "prompt"}, from : Windows,
            tool : Tool, at : {"resolve", "state", "activity", "check", "publish", "enqueue"}, window : Places]
Event == [n : 1 .. MaxHooks, state : Activities, window : Places, tool : Tool, popup : BOOLEAN]

TypeOK ==
  /\ env \in Environments
  /\ claude \in [Windows -> {"idle", "running", "checking", "asking"}]
  /\ using \in [Windows -> Tool] /\ asking \in [Windows -> 0 .. MaxHooks]
  /\ requests \in SUBSET Request
  /\ cached \in [Windows -> Places]
  /\ pending \in Seq([window : Windows, tool : Tool])
  /\ activity \in [Windows -> Activities]
  /\ channel \in Seq(Event) /\ Len(channel) <= Buffer
  /\ subscribed \in BOOLEAN
  /\ queue \in Seq(Event)
  /\ updates \in SUBSET Event
  /\ shown \in [Windows -> Activities]
  /\ popups \in SUBSET Event
  /\ full \in Places
  /\ choices \in SUBSET Event
  /\ hooks \in 0 .. MaxHooks /\ tools \in Tool /\ turns \in 0 .. MaxTurns /\ restarts \in 0 .. MaxRestarts

Init ==
  /\ env \in Environments
  /\ claude = [w \in Windows |-> "idle"] /\ using = [w \in Windows |-> 0] /\ asking = [w \in Windows |-> 0]
  /\ requests = {} /\ cached = [w \in Windows |-> NoWindow] /\ pending = <<>>
  /\ activity = [w \in Windows |-> "Unknown"]
  /\ channel = <<>> /\ subscribed = TRUE /\ queue = <<>>
  /\ updates = {} /\ shown = [w \in Windows |-> "Unknown"] /\ popups = {} /\ full = NoWindow /\ choices = {}
  /\ hooks = 0 /\ tools = 0 /\ turns = 0 /\ restarts = 0

-----------------------------------------------------------------------------
(* Claude Code, external: a turn of tools, each allowed, asked for or both *)
(* first.  The process of a hook ends with the answer of the server or at  *)
(* its own timeout; only the Notification hook runs beside Claude.         *)

Post(w, kind, tool) ==
  /\ hooks' = hooks + 1
  /\ requests' = requests \cup
       {[n |-> hooks + 1, kind |-> kind, from |-> w, tool |-> tool, at |-> "resolve", window |-> NoWindow]}

HooksDone(w) == May("hookTimeouts") \/ \A r \in requests : r.from = w => r.kind = "permission"

Submit(w) ==
  /\ claude[w] = "idle" /\ HooksDone(w) /\ turns < MaxTurns
  /\ turns' = turns + 1
  /\ claude' = [claude EXCEPT ![w] = "running"]
  /\ Post(w, "prompt", 0)
  /\ UNCHANGED <<using, asking, tools, cached, pending, activity, channel, subscribed, queue, tui, restarts>>

UseTool(w) ==
  /\ claude[w] = "running" /\ HooksDone(w) /\ tools < MaxTools
  /\ tools' = tools + 1
  /\ claude' = [claude EXCEPT ![w] = "checking"] /\ using' = [using EXCEPT ![w] = tools + 1]
  /\ Post(w, "tool_info", tools + 1)
  /\ UNCHANGED <<asking, turns, cached, pending, activity, channel, subscribed, queue, tui, restarts>>

Allow(w) ==
  /\ claude[w] = "checking" /\ HooksDone(w) /\ May("autoApproval")
  /\ claude' = [claude EXCEPT ![w] = "running"]
  /\ UNCHANGED <<using, asking, tools, turns, server, channel, subscribed, queue, tui, hooks, restarts>>

Ask(w) ==
  /\ claude[w] = "checking" /\ HooksDone(w)
  /\ claude' = [claude EXCEPT ![w] = "asking"] /\ asking' = [asking EXCEPT ![w] = hooks + 1]
  /\ Post(w, "permission", using[w])
  /\ UNCHANGED <<using, tools, turns, cached, pending, activity, channel, subscribed, queue, tui, restarts>>

Finish(w) ==
  /\ claude[w] = "running" /\ HooksDone(w)
  /\ claude' = [claude EXCEPT ![w] = "idle"]
  /\ Post(w, "stop", 0)
  /\ UNCHANGED <<using, asking, tools, turns, cached, pending, activity, channel, subscribed, queue, tui, restarts>>

\* A key in the pane answers the prompt that is open, if one is.
Answered(w) ==
  IF claude[w] = "asking"
  THEN claude' = [claude EXCEPT ![w] = "running"] /\ asking' = [asking EXCEPT ![w] = 0]
  ELSE UNCHANGED <<claude, asking>>

AnswerInPane(w) ==
  /\ May("paneAnswers") /\ claude[w] = "asking"
  /\ Answered(w)
  /\ UNCHANGED <<using, tools, turns, server, channel, subscribed, queue, tui, hooks, restarts>>

-----------------------------------------------------------------------------
(* The handlers.                                                           *)

Replace(r, s) == requests' = (requests \ {r}) \cup {s}
Done(r) == requests' = requests \ {r}

\* LastPendingWindow: the window of the newest entry that has not expired.
LastPendingWindow == IF pending = <<>> THEN NoWindow ELSE pending[Len(pending)].window

\* Mutant of Resolve: the fallback comes before tmux.
ResolvePendingFirst(r) ==
  /\ r.at = "resolve"
  /\ LET last == IF r.kind = "tool_info" THEN NoWindow ELSE LastPendingWindow
         w == IF last # NoWindow THEN last ELSE r.from
     IN /\ cached' = [cached EXCEPT ![r.from] = w]
        /\ Replace(r, [r EXCEPT !.window = w,
                         !.at = IF r.kind \in {"tool_info", "permission"} THEN "state" ELSE "activity"])
  /\ UNCHANGED <<external, pending, activity, channel, subscribed, queue, tui, hooks, restarts>>

\* resolveNotifyWindow by the cache or by tmux, the fallback of every hook
\* but PreToolUse, and SetConn, which caches the answer for the pid.
Resolve(r) ==
  /\ r.at = "resolve"
  /\ \E w \in Places :
       /\ \/ cached[r.from] # NoWindow /\ w = cached[r.from]
          \/ cached[r.from] = NoWindow /\ w = r.from
          \/ cached[r.from] = NoWindow /\ May("tmuxFails")
               /\ w = IF r.kind = "tool_info" THEN NoWindow ELSE LastPendingWindow
       /\ cached' = [cached EXCEPT ![r.from] = w]
       /\ IF w = NoWindow /\ r.kind # "stop" THEN Done(r) \* 404
          ELSE Replace(r, [r EXCEPT !.window = w,
                             !.at = IF r.kind \in {"tool_info", "permission"} THEN "state" ELSE "activity"])
  /\ UNCHANGED <<external, pending, activity, channel, subscribed, queue, tui, hooks, restarts>>

\* tool_info: SetPending.
SetPending(r) ==
  /\ r.at = "state" /\ r.kind = "tool_info"
  /\ pending' = Append(pending, [window |-> r.window, tool |-> r.tool])
  /\ Replace(r, [r EXCEPT !.at = "activity"])
  /\ UNCHANGED <<external, cached, activity, channel, subscribed, queue, tui, hooks, restarts>>

\* Mutant of GetPending: clears the entries of every window.
GetPendingClears(r) ==
  /\ r.at = "state" /\ r.kind = "permission"
  /\ \/ \E i \in DOMAIN pending :
          /\ pending[i].window = r.window /\ pending' = <<>>
          /\ Replace(r, [r EXCEPT !.tool = pending[i].tool, !.at = "activity"])
     \/ /\ \A i \in DOMAIN pending : pending[i].window # r.window
        /\ Done(r) /\ UNCHANGED pending
  /\ UNCHANGED <<external, cached, activity, channel, subscribed, queue, tui, hooks, restarts>>

\* permission: GetPending pops the oldest entry of the window; without one
\* the prompt is dropped, for a Notification hook names no tool.
GetPending(r) ==
  /\ r.at = "state" /\ r.kind = "permission"
  /\ \/ \E i \in DOMAIN pending :
          /\ pending[i].window = r.window
          /\ \A j \in 1 .. i - 1 : pending[j].window # r.window
          /\ pending' = SubSeq(pending, 1, i - 1) \o SubSeq(pending, i + 1, Len(pending))
          /\ Replace(r, [r EXCEPT !.tool = pending[i].tool, !.at = "activity"])
     \/ /\ \A i \in DOMAIN pending : pending[i].window # r.window
        /\ Done(r) /\ UNCHANGED pending
  /\ UNCHANGED <<external, cached, activity, channel, subscribed, queue, tui, hooks, restarts>>

State(kind) ==
  CASE kind = "permission" -> "NeedsInput" [] kind = "stop" -> "Idle" [] OTHER -> "Running"

SetActivity(r) ==
  /\ r.at = "activity"
  /\ activity' = [w \in Windows |-> IF w = r.window THEN State(r.kind) ELSE activity[w]]
  /\ Replace(r, [r EXCEPT !.at = IF r.kind = "permission" THEN "check" ELSE "publish"])
  /\ UNCHANGED <<external, cached, pending, channel, subscribed, queue, tui, hooks, restarts>>

\* dispatchToolNotification asks HasSubscribers first.
CheckSubscribers(r) ==
  /\ r.at = "check"
  /\ Replace(r, [r EXCEPT !.at = IF subscribed THEN "publish" ELSE "enqueue"])
  /\ UNCHANGED <<external, cached, pending, activity, channel, subscribed, queue, tui, hooks, restarts>>

EventOf(r) ==
  [n |-> r.n, state |-> State(r.kind), window |-> r.window, tool |-> r.tool, popup |-> r.kind = "permission"]

\* Mutants of Publish: no limit of the buffer; a file besides.
PublishUnbounded(r) ==
  /\ r.at = "publish"
  /\ channel' = IF subscribed THEN Append(channel, EventOf(r)) ELSE channel
  /\ Done(r)
  /\ UNCHANGED <<external, cached, pending, activity, subscribed, queue, tui, hooks, restarts>>

PublishAndEnqueue(r) ==
  /\ r.at = "publish"
  /\ channel' = IF subscribed /\ Len(channel) < Buffer THEN Append(channel, EventOf(r)) ELSE channel
  /\ Replace(r, [r EXCEPT !.at = "enqueue"])
  /\ UNCHANGED <<external, cached, pending, activity, subscribed, queue, tui, hooks, restarts>>

\* Broker.Publish drops the event of a subscriber that has no room.
Publish(r) ==
  /\ r.at = "publish"
  /\ channel' = IF subscribed /\ Len(channel) < Buffer THEN Append(channel, EventOf(r)) ELSE channel
  /\ Done(r)
  /\ UNCHANGED <<external, cached, pending, activity, subscribed, queue, tui, hooks, restarts>>

Enqueue(r) ==
  /\ r.at = "enqueue"
  /\ queue' = Append(queue, EventOf(r))
  /\ Done(r)
  /\ UNCHANGED <<external, cached, pending, activity, channel, subscribed, tui, hooks, restarts>>

\* The oldest pending entry passes its TTL; every reader skips it from now on.
PendingExpires ==
  /\ May("expiry") /\ pending # <<>>
  /\ pending' = Tail(pending)
  /\ UNCHANGED <<external, requests, cached, activity, channel, subscribed, queue, tui, hooks, restarts>>

-----------------------------------------------------------------------------
(* The TUI.                                                                *)

Receive ==
  /\ channel # <<>>
  /\ updates' = updates \cup {Head(channel)} /\ channel' = Tail(channel)
  /\ UNCHANGED <<external, server, subscribed, queue, shown, popups, full, choices, hooks, restarts>>

\* showToolPopup pushes no popup for the window in full screen.
Visible(e) == e.popup /\ e.window # full

\* The function handed to gui.Update runs on the event loop.
Apply(e) ==
  /\ e \in updates /\ updates' = updates \ {e}
  /\ shown' = [w \in Windows |-> IF w = e.window THEN e.state ELSE shown[w]]
  /\ popups' = popups \cup {p \in {e} : Visible(p)}
  /\ UNCHANGED <<external, server, channel, subscribed, queue, full, choices, hooks, restarts>>

\* PendingNotifications of a tick: ReadAll removes every file and skips the
\* ones that are too old.
ReadAll ==
  /\ subscribed /\ queue # <<>>
  /\ \E k \in 0 .. Len(queue) :
       /\ May("expiry") \/ k = 0
       /\ LET fresh == {queue[i] : i \in k + 1 .. Len(queue)}
          IN /\ shown' = [w \in Windows |-> IF \E e \in fresh : e.window = w THEN "NeedsInput" ELSE shown[w]]
             /\ popups' = popups \cup {e \in fresh : Visible(e)}
  /\ queue' = <<>>
  /\ UNCHANGED <<external, server, channel, subscribed, updates, full, choices, hooks, restarts>>

\* Mutants of Dismiss: the popup stays on the stack; SendChoice is not called.
DismissKeeps(p) ==
  /\ p \in popups /\ full = NoWindow
  /\ shown' = [shown EXCEPT ![p.window] = "Running"]
  /\ choices' = choices \cup {p}
  /\ UNCHANGED <<external, server, channel, subscribed, queue, updates, popups, full, hooks, restarts>>

DismissSilently(p) ==
  /\ p \in popups /\ full = NoWindow
  /\ popups' = popups \ {p}
  /\ shown' = [shown EXCEPT ![p.window] = "Running"]
  /\ UNCHANGED <<external, server, channel, subscribed, queue, updates, full, choices, hooks, restarts>>

\* dismissPopup of the focused popup; the choice is sent by a goroutine.
Dismiss(p) ==
  /\ p \in popups /\ full = NoWindow
  /\ popups' = popups \ {p}
  /\ shown' = [shown EXCEPT ![p.window] = "Running"]
  /\ choices' = choices \cup {p}
  /\ UNCHANGED <<external, server, channel, subscribed, queue, updates, full, hooks, restarts>>

SendChoice(p) ==
  /\ p \in choices /\ choices' = choices \ {p}
  /\ Answered(p.window)
  /\ UNCHANGED <<using, tools, turns, server, channel, subscribed, queue, updates, shown, popups, full, hooks, restarts>>

\* Entering full screen clears an Idle mark.
EnterFullscreen(w) ==
  /\ May("fullscreen") /\ subscribed /\ full = NoWindow /\ full' = w
  /\ shown' = IF shown[w] = "Idle" THEN [shown EXCEPT ![w] = "Unknown"] ELSE shown
  /\ UNCHANGED <<external, server, channel, subscribed, queue, updates, popups, choices, hooks, restarts>>

ExitFullscreen ==
  /\ full # NoWindow /\ full' = NoWindow
  /\ UNCHANGED <<external, server, channel, subscribed, queue, updates, shown, popups, choices, hooks, restarts>>

\* The main loop ends, the refresh loop cancels the subscription; handlers
\* still run until the process exits.
Quit ==
  /\ subscribed /\ restarts < MaxRestarts
  /\ subscribed' = FALSE /\ channel' = <<>>
  /\ updates' = {} /\ popups' = {} /\ full' = NoWindow /\ choices' = {}
  /\ shown' = [w \in Windows |-> "Unknown"]
  /\ UNCHANGED <<external, server, queue, hooks, restarts>>

\* A new process: a server with a new state, a TUI with a new subscription.
Start ==
  /\ ~subscribed /\ restarts' = restarts + 1
  /\ subscribed' = TRUE
  /\ requests' = {} /\ cached' = [w \in Windows |-> NoWindow] /\ pending' = <<>>
  /\ activity' = [w \in Windows |-> "Unknown"]
  /\ UNCHANGED <<external, channel, queue, tui, hooks>>

Claude(w) == Submit(w) \/ UseTool(w) \/ Allow(w) \/ Ask(w) \/ Finish(w)
Handler(r) ==
  Resolve(r) \/ SetPending(r) \/ GetPending(r) \/ SetActivity(r)
    \/ CheckSubscribers(r) \/ Publish(r) \/ Enqueue(r)

Next ==
  /\ \/ \E w \in Windows : Claude(w) \/ AnswerInPane(w) \/ EnterFullscreen(w)
     \/ \E r \in requests : Handler(r)
     \/ \E e \in updates : Apply(e)
     \/ \E p \in popups : Dismiss(p)
     \/ \E p \in choices : SendChoice(p)
     \/ Receive \/ ReadAll \/ PendingExpires \/ ExitFullscreen \/ Quit \/ Start
  /\ UNCHANGED env

Spec == Init /\ [][Next]_<<env, vars>>

\* Handlers, the refresh loop, the event loop and SendChoice keep running,
\* and the user answers the popups on the screen and leaves full screen.
Fairness ==
  /\ WF_vars(\E r \in requests : Handler(r))
  /\ WF_vars(Receive) /\ WF_vars(ReadAll)
  /\ WF_vars(\E e \in updates : Apply(e))
  /\ WF_vars(\E p \in popups : Dismiss(p)) /\ WF_vars(\E p \in choices : SendChoice(p))
  /\ WF_vars(ExitFullscreen)

FairSpec == Spec /\ Fairness

-----------------------------------------------------------------------------
(* Properties                                                              *)

InChannel == {channel[i] : i \in DOMAIN channel}
InQueue   == {queue[i] : i \in DOMAIN queue}

\* The places a prompt can be on its way from its hook to its answer.
Copies(n) ==
  Cardinality({r \in requests : r.n = n}) + Cardinality({i \in DOMAIN channel : channel[i].n = n})
  + Cardinality({i \in DOMAIN queue : queue[i].n = n}) + Cardinality({e \in updates : e.n = n})
  + Cardinality({p \in popups : p.n = n}) + Cardinality({p \in choices : p.n = n})

\* A hook is in one place at most, and a prompt is shown and answered at most
\* once: "no duplicates" between broker and files (app.go's refresh loop,
\* PendingNotifications, dispatchToolNotification).
DeliveredOnce == \A n \in 1 .. hooks : Copies(n) <= 1

\* Every event is of its kind, in a buffer that keeps its limit, and single.
DeliveryIsSound == TypeOK /\ DeliveredOnce

\* Nothing disturbs, and the buffer holds the event of every hook.
Calm == env.may = {} /\ MaxRestarts = 0 /\ MaxHooks <= Buffer

\* When nothing disturbs, an event is delivered under the window whose Claude
\* posted it and names the tool it asks for (resolveNotifyWindow,
\* State.pidToWindow, GetPending), however the handlers of the windows mix.
RoutedHome ==
  Calm => \A e \in InChannel \cup InQueue \cup updates \cup popups :
            e.popup => \A w \in Windows : asking[w] = e.n => e.window = w /\ e.tool = using[w]

\* When nothing disturbs, a choice reaches the prompt its popup was made for:
\* the user answers popups in any order, and events may be applied in any.
ChoiceAnswersItsPrompt ==
  [][Calm => \A p \in choices : SendChoice(p) => asking[p.window] = p.n]_vars

\* Nothing about the prompts is on its way through the program.
Settled == requests = {} /\ channel = <<>> /\ queue = <<>> /\ updates = {} /\ choices = {}

\* When nothing disturbs and all is delivered, every open prompt has a popup.
PromptIsVisible ==
  (Calm /\ Settled) =>
    \A w \in Windows : asking[w] # 0 => \E p \in popups : p.n = asking[w] /\ p.window = w

\* When nothing disturbs, every prompt is answered in the end, through its
\* popup (dispatch, popup, SendChoice).
PromptIsAnswered == \A w \in Windows : (Calm /\ asking[w] # 0) ~> asking[w] = 0
=============================================================================
