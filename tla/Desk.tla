--------------------------------- MODULE Desk ---------------------------------
(***************************************************************************)
(* Dialogs, focus and the way of a key in the TUI (gui/dialog.go,          *)
(* keybindings.go, layout.go, search.go, keybind_help.go), with the SSH    *)
(* password prompts that open over whatever is there (daemon/askpass.go).  *)
(*                                                                         *)
(* A key goes to the binding of the current view, else to the editor of    *)
(* that view, else to the global binding and from there down the chain of  *)
(* KeyMap.  Dialogs are opened by functions handed to gocui.Update, which  *)
(* run later and in any order, and focus is set by them, by the handlers   *)
(* and again by every layout; several keys and updates may come between    *)
(* two layouts.  Left out: what is typed, other than into the password     *)
(* field; the cursors, so that Enter picks any item and R any session;     *)
(* panels too small for the search field; the quit keys.  Popups count as  *)
(* one: the stack is PopupStack's subject.                                 *)
(***************************************************************************)
EXTENDS KeyMap, Bags

CONSTANTS
  Sessions, NoSession,   (* sessions of the tree; none                     *)
  Prompts, NoPrompt,     (* password prompts of ssh processes; none, which *)
                         (* is also what a cancelled dialog answers        *)
  Free,                  (* an empty channel, and an event loop that runs  *)
  MaxCalls,              (* bound: dialogs and full screens the user asks  *)
                         (* for, password prompts, and sessions that go    *)
                         (* by themselves, all together                    *)
  MaxPopups              (* bound: tool popups                             *)

ASSUME ConstantsAssumption ==
  /\ NoSession \notin Sessions
  /\ NoPrompt \notin Prompts /\ Free \notin Prompts \cup {NoPrompt}
  /\ MaxCalls \in Nat /\ MaxPopups \in Nat

VARIABLES
  alive,         (* the sessions                                           *)
  panel,         (* the active panel                                       *)
  popup,         (* the tool popup: none, shown or hidden                  *)
  full, scroll,  (* session in full screen; scroll mode                    *)
  gui,           (* dialog.Kind, ActiveField and RenameID, the views and   *)
                 (* the current one                                        *)
  mainEdits,     (* the main view is Editable                              *)
  laid,          (* nothing has happened since the last layout             *)
  updates,       (* functions handed to gocui.Update                       *)
  named,         (* the session whose name is in rename-input              *)
  titled, typed, (* askpass-input: the prompt of its title, and the one    *)
                 (* under whose title its text was typed                   *)
  askpassCh,     (* the prompt whose channel the dialog answers            *)
  channel,       (* the channel of each prompt, with its buffer of one     *)
  stuck,         (* what the event loop waits to send, or Free             *)
  ssh,           (* the handler of each prompt                             *)
  calls, popped  (* how many of what MaxCalls and MaxPopups bound          *)

screen == <<panel, popup, full, scroll>>
askVars == <<titled, typed, askpassCh, channel, stuck>>
laidOut == <<mainEdits, laid>>
vars == <<alive, screen, gui, laidOut, updates, named, askVars, ssh, calls, popped>>

-----------------------------------------------------------------------------
(* Dialogs and their views.                                                *)

\* A dialog: the views it makes and deletes, the one it opens with, whether
\* it keeps ActiveField.
Single(v) == [views |-> {v}, opens |-> v, fielded |-> FALSE]
RenameDialog == Single("rename-input")
ConnectDialog == Single("connect-input")
ConnectChooser == Single("connect-chooser")
AskpassDialog == Single("askpass-input")
KeybindHelp == Single("keybind-help-input")
SearchInput == Single("search-input")
WorktreeChooser == Single("worktree-chooser")

WorktreeDialog ==
  [views |-> {"worktree-branch", "worktree-prompt", "worktree-profile-chooser", "worktree-options"},
   opens |-> "worktree-branch", fielded |-> TRUE]

WorktreeResume ==
  [views |-> {"worktree-resume-prompt", "worktree-resume-profile-chooser", "worktree-resume-options"},
   opens |-> "worktree-resume-prompt", fielded |-> TRUE]

ProfileDialog ==
  [views |-> {"profile-chooser", "profile-cwd", "profile-options"}, opens |-> "profile-chooser", fielded |-> TRUE]

Dialogs ==
  [rename |-> RenameDialog, worktree |-> WorktreeDialog, worktreeChooser |-> WorktreeChooser,
   worktreeResume |-> WorktreeResume, help |-> KeybindHelp, search |-> SearchInput, connect |-> ConnectDialog,
   connectChooser |-> ConnectChooser, askpass |-> AskpassDialog, profile |-> ProfileDialog]

Kinds == DOMAIN Dialogs
Own(kind) == Dialogs[kind].views
Fielded == {k \in Kinds : Dialogs[k].fielded}
Panels == {"sessions", "plugins", "logs"}

\* isChooserView: views with a list instead of a text.
Choosers ==
  {"worktree-chooser", "connect-chooser", "profile-chooser", "worktree-profile-chooser", "worktree-resume-profile-chooser"}
Texts == (UNION {Own(k) : k \in Kinds}) \ Choosers

\* Tab in the dialogs with several fields: from one to the next, without
\* profile-cwd when that view does not exist.
WorktreeTab ==
  [v \in Own("worktree") |->
     CASE v = "worktree-branch" -> "worktree-prompt"
       [] v = "worktree-prompt" -> "worktree-profile-chooser"
       [] v = "worktree-profile-chooser" -> "worktree-options"
       [] v = "worktree-options" -> "worktree-branch"]
ResumeTab ==
  [v \in Own("worktreeResume") |->
     CASE v = "worktree-resume-prompt" -> "worktree-resume-profile-chooser"
       [] v = "worktree-resume-profile-chooser" -> "worktree-resume-options"
       [] v = "worktree-resume-options" -> "worktree-resume-prompt"]
ProfileTab ==
  [v \in Own("profile") |->
     CASE v = "profile-chooser" -> "profile-cwd"
       [] v = "profile-cwd" -> "profile-options"
       [] v = "profile-options" -> "profile-chooser"]

NextField(g) ==
  LET next == CASE g.current \in Own("worktree") -> WorktreeTab[g.current]
                [] g.current \in Own("worktreeResume") -> ResumeTab[g.current]
                [] g.current \in Own("profile") -> ProfileTab[g.current]
  IN IF next = "profile-cwd" /\ next \notin g.views THEN ProfileTab[next] ELSE next

\* dialogFocusView.
FocusView(g) == IF g.kind \in Fielded /\ g.field # "" THEN g.field ELSE Dialogs[g.kind].opens

\* SetCurrentView of a view that does not exist leaves the focus where it is.
Focused(g, v) == [g EXCEPT !.current = IF v \in g.views THEN v ELSE @]

\* Mutant of Show: the active field of the dialog before is kept.
ShowKeepsField(g, kind, cwd) ==
  [g EXCEPT !.kind = kind, !.current = Dialogs[kind].opens,
            !.views = @ \cup (IF cwd THEN Own(kind) ELSE Own(kind) \ {"profile-cwd"})]

\* showRenameInput, showWorktreeDialog, ...: views that exist already are
\* used again, a profile-cwd among them.
Show(g, kind, cwd) ==
  [g EXCEPT !.kind = kind, !.current = Dialogs[kind].opens,
            !.views = @ \cup (IF cwd THEN Own(kind) ELSE Own(kind) \ {"profile-cwd"}),
            !.field = IF kind \in Fielded THEN Dialogs[kind].opens ELSE @]

\* closeRenameInput, closeWorktreeDialog, ...: the focus goes to the sessions,
\* or the panel of a search, and stays on the deleted view if that is gone.
Close(g, kind) ==
  LET closed == [g EXCEPT !.kind = "none", !.views = @ \ Own(kind),
                          !.field = IF kind \in Fielded THEN "" ELSE @,
                          !.renaming = IF kind = "rename" THEN NoSession ELSE @]
  IN CASE kind = "help" -> closed
       [] kind = "search" -> Focused(closed, panel)
       [] OTHER -> Focused(closed, "sessions")

-----------------------------------------------------------------------------
(* The way of a key.                                                       *)

Special ==
  {"CtrlC", "CtrlBackslash", "Tab", "Backtab", "Up", "Down", "Left", "Right", "Enter", "Esc", "CtrlV", "CtrlY",
   "CtrlA", "CtrlN", "CtrlD", "Pgup", "Pgdn", "CtrlJ", "CtrlK"}
Runes == (Keys \cup {"x"}) \ Special
Pressed == Runes \cup Special

\* Mutant of Cancelling: the chooser of the resume dialog is forgotten.
CancellingMostly(kind) ==
  [views |-> Own(kind) \ {"worktree-resume-profile-chooser"}, keys |-> {"Esc"}, does |-> "cancel", kind |-> kind]

Cancelling(kind) == [views |-> Own(kind), keys |-> {"Esc"}, does |-> "cancel", kind |-> kind]
Confirming(kind) == [views |-> Own(kind), keys |-> {"Enter"}, does |-> "confirm", kind |-> kind]
Tabbing(kind) == [views |-> Own(kind), keys |-> {"Tab"}, does |-> "next", kind |-> kind]

\* The bindings of single views; those of choosers and lists move their
\* cursor, Ctrl+J types a newline into the prompts.
ViewBindings ==
  {Cancelling(k) : k \in Kinds} \cup {Confirming(k) : k \in Kinds \ {"help"}} \cup {Tabbing(k) : k \in Fielded}
    \cup {[views |-> Choosers, keys |-> {"j", "k", "Up", "Down"}, does |-> "move", kind |-> "none"],
          [views |-> Own("help"), keys |-> {"CtrlJ", "CtrlK", "Up", "Down"}, does |-> "move", kind |-> "none"],
          [views |-> {"worktree-prompt", "worktree-resume-prompt"}, keys |-> {"CtrlJ"}, does |-> "move", kind |-> "none"]}

Editable(v) == v \in Texts \/ (v = "main" /\ mainEdits)

\* matchView: rune bindings are passed over in editable views.
OfView(key) ==
  {b \in ViewBindings : gui.current \in b.views /\ key \in b.keys /\ (Editable(gui.current) => key \notin Runes)}

\* The editors: searchInputEditor, helpInputEditor, inputEditor of the main
\* view, gocui's SimpleEditor.
EditorTakes(key) ==
  /\ Editable(gui.current)
  /\ CASE gui.current \in {"search-input", "keybind-help-input"} -> key \in Runes
       [] gui.current = "main" ->
            /\ full # NoSession /\ popup # "shown" /\ ~scroll
            /\ key \notin {"CtrlV", "CtrlC", "CtrlD", "CtrlBackslash", "Enter"}
       [] OTHER -> key \notin {"Tab", "Backtab", "Esc", "CtrlC", "CtrlV", "CtrlBackslash", "CtrlN", "Pgup", "Pgdn"}

\* execKeybindings: the global binding of a key, by the kind of view.
IsGlobal(key) == key \in Keys /\ (Editable(gui.current) => key \notin Runes \cup {"CtrlA"})

-----------------------------------------------------------------------------
(* What handlers do.                                                       *)

Running == stuck = Free
Tabbed == IF panel = "plugins" THEN Tabs ELSE {"none"}

Post(show, of) == updates' = updates (+) SetToBag({[show |-> show, of |-> of]})

\* CreateSession, CreateSessionAtCWD, StartPMSession, StartWorktreeInput,
\* SelectWorktree, ConnectRemote: guarded when the key is pressed only.
Asks ==
  [newSession |-> "profile", newSessionCWD |-> "profileCWD", startPMSession |-> "profile",
   startWorktree |-> "worktree", selectWorktree |-> "worktreeChooser", connectRemote |-> "connect"]

Ask(show) ==
  /\ gui.kind = "none" /\ calls < MaxCalls
  /\ calls' = calls + 1 /\ Post(show, NoSession)
  /\ UNCHANGED <<screen, gui>>

\* StartRename: an interrupted rename keeps RenameID for good.
StartRename(s) ==
  /\ gui.renaming = NoSession /\ calls < MaxCalls
  /\ calls' = calls + 1 /\ gui' = [gui EXCEPT !.renaming = s] /\ Post("rename", s)
  /\ UNCHANGED screen

\* ShowKeybindHelp, StartSearch: the view is made by the next layout.
Overlay(kind) ==
  /\ gui.kind = "none" /\ full = NoSession /\ calls < MaxCalls
  /\ calls' = calls + 1 /\ gui' = [gui EXCEPT !.kind = kind]
  /\ UNCHANGED <<screen, updates>>

\* enterFullScreen: over a dialog too.
EnterFullScreen(s) ==
  /\ calls < MaxCalls
  /\ calls' = calls + 1 /\ full' = s
  /\ UNCHANGED <<panel, popup, scroll, gui, updates>>

\* FocusNext and FocusPrev.
Following == [sessions |-> "plugins", plugins |-> "logs", logs |-> "sessions"]

\* The actions that move between panels, popups and full screen.
Move(action) ==
  /\ \/ action = "focusNextPanel" /\ panel' = Following[panel] /\ UNCHANGED <<popup, full, scroll>>
     \/ action = "focusPrevPanel" /\ panel' = Following[Following[panel]] /\ UNCHANGED <<popup, full, scroll>>
     \/ /\ action \in {"popupAccept", "popupAllow", "popupReject", "popupAcceptAll"}
        /\ popup' = "none" /\ UNCHANGED <<panel, full, scroll>>
     \/ /\ action \in {"popupSuspend", "popupJumpToSession"}
        /\ popup' = "hidden" /\ UNCHANGED <<panel, full, scroll>>
     \/ /\ action = "unsuspendPopups" /\ popup = "hidden"
        /\ popup' = "shown" /\ UNCHANGED <<panel, full, scroll>>
     \/ action = "exitFull" /\ full' = NoSession /\ UNCHANGED <<panel, popup, scroll>>
     \/ action = "scrollEnter" /\ scroll' = TRUE /\ UNCHANGED <<panel, popup, full>>
     \/ action = "scrollExit" /\ scroll' = FALSE /\ UNCHANGED <<panel, popup, full>>
  /\ UNCHANGED <<gui, updates, calls>>

Do(action) ==
  /\ \/ action \in DOMAIN Asks /\ Ask(Asks[action])
     \/ action = "startRename" /\ \E s \in alive : StartRename(s)
     \/ action = "showKeybindHelp" /\ Overlay("help")
     \/ action = "startSearch" /\ Overlay("search")
     \/ action \in {"enterFull", "enterFullR"} /\ \E s \in alive : EnterFullScreen(s)
     \/ Move(action)
  /\ UNCHANGED <<named, askVars>>

-----------------------------------------------------------------------------
(* Bindings of views.                                                      *)

\* ch <- text: without room in the channel the event loop stops here.
Send(text) ==
  IF askpassCh = NoPrompt THEN UNCHANGED <<channel, stuck>>
  ELSE IF channel[askpassCh] = Free THEN channel' = [channel EXCEPT ![askpassCh] = text] /\ UNCHANGED stuck
  ELSE stuck' = text /\ UNCHANGED channel

AnswerAskpass(text) ==
  /\ gui' = Close(gui, "askpass") /\ Send(text)
  /\ UNCHANGED <<screen, updates, named, titled, typed, askpassCh, calls>>

\* Enter, by dialog: what the state is then.  A dialog of a worktree stays
\* when a view of it is missing or the branch has no valid name; the choosers
\* go on to a second dialog, the one of an item only if they still have items.
Complete(kind) == Own(kind) \subseteq gui.views
ConfirmWorktree == {gui} \cup (IF Complete("worktree") THEN {Close(gui, "worktree")} ELSE {})
ConfirmResume == IF Complete("worktreeResume") THEN {Close(gui, "worktreeResume")} ELSE {gui}
ConfirmChooser ==
  LET closed == Close(gui, "worktreeChooser")
      next == IF Complete("worktreeChooser") THEN {"worktree", "worktreeResume"} ELSE {"worktree"}
  IN {Show(closed, k, FALSE) : k \in next}
ConfirmHost ==
  LET closed == Close(gui, "connectChooser")
  IN {Show(closed, "connect", FALSE)} \cup (IF Complete("connectChooser") THEN {closed} ELSE {})

\* Of a profile dialog, rename, search and connect: they close.
Confirm(kind) ==
  CASE kind = "worktree" -> ConfirmWorktree
    [] kind = "worktreeResume" -> ConfirmResume
    [] kind = "worktreeChooser" -> ConfirmChooser
    [] kind = "connectChooser" -> ConfirmHost
    [] OTHER -> {Close(gui, kind)}

InView(b) ==
  \/ b.kind = "askpass" /\ AnswerAskpass(IF b.does = "confirm" THEN typed ELSE NoPrompt)
  \/ /\ b.kind # "askpass"
     /\ \/ b.does = "confirm" /\ gui' \in Confirm(b.kind)
        \/ b.does = "cancel" /\ gui' = Close(gui, b.kind)
        \/ b.does = "next" /\ gui' = Focused([gui EXCEPT !.field = NextField(gui)], NextField(gui))
        \/ b.does = "move" /\ UNCHANGED gui
     /\ UNCHANGED <<screen, updates, named, askVars, calls>>

\* A rune typed into a field changes nothing here, but for the password.
Type(key) ==
  /\ key \in Runes
  /\ typed' = IF gui.current = "askpass-input" /\ typed = NoPrompt THEN titled ELSE typed
  /\ UNCHANGED <<screen, gui, updates, named, titled, askpassCh, channel, stuck, calls>>

PressKey(key) ==
  /\ Running
  /\ \/ \E b \in OfView(key) : InView(b)
     \/ OfView(key) = {} /\ EditorTakes(key) /\ Type(key)
     \/ /\ OfView(key) = {} /\ ~EditorTakes(key) /\ IsGlobal(key)
        /\ \E tab \in Tabbed : Do(Dispatch(key, popup = "shown", full # NoSession, scroll, panel, tab))
  /\ laid' = FALSE
  /\ UNCHANGED <<alive, mainEdits, ssh, popped>>

-----------------------------------------------------------------------------
(* Functions handed to Update, and the layout.                             *)

\* Mutant of ClearText: a view that is there already keeps its text.
KeepText == IF "askpass-input" \in gui.views THEN typed ELSE NoPrompt

\* TextArea.Clear of showAskpassDialog.
ClearText == NoPrompt

\* The functions posted by Ask, StartRename and ShowAskpassPrompt; the list
\* of worktrees may be empty, the one of hosts too.
RunUpdate(u) ==
  /\ Running /\ BagIn(u, updates)
  /\ updates' = updates (-) SetToBag({u})
  /\ gui' \in CASE u.show \in {"profile", "worktree", "rename", "askpass"} -> {Show(gui, u.show, FALSE)}
                [] u.show = "profileCWD" -> {Show(gui, "profile", TRUE)}
                [] u.show = "worktreeChooser" -> {gui, Show(gui, "worktreeChooser", FALSE)}
                [] u.show = "connect" -> {Show(gui, "connect", FALSE), Show(gui, "connectChooser", FALSE)}
  /\ named' = IF u.show = "rename" THEN u.of ELSE named
  /\ IF u.show = "askpass"
     THEN askpassCh' = u.of /\ titled' = u.of /\ typed' = ClearText
     ELSE UNCHANGED <<askpassCh, titled, typed>>
  /\ laid' = FALSE
  /\ UNCHANGED <<alive, screen, mainEdits, channel, stuck, ssh, calls, popped>>

\* layoutMain: the panels are made again, the views of help and search exist
\* with their dialog only.  Focus: popup, dialog, panel.
Split(g) ==
  LET overlays == {"help", "search"}
      made == [g EXCEPT !.views = (@ \ UNION {Own(k) : k \in overlays}) \cup Panels \cup {"main"}
                                    \cup UNION {Own(k) : k \in overlays \cap {g.kind}}]
  IN CASE popup = "shown" -> made
       [] popup # "shown" /\ g.kind # "none" -> Focused(made, FocusView(made))
       [] OTHER -> Focused(made, panel)

\* layoutFullScreen: without its session it ends before it sets the focus.
Whole(g) ==
  LET made == [g EXCEPT !.views = @ \ {"sessions", "logs"}]
  IN IF full \in alive THEN Focused(made, "main") ELSE made

\* layout: layoutToolPopup has the last word on the focus.
Layout ==
  LET drawn == IF full = NoSession THEN Split(gui) ELSE Whole(gui)
      gone == full \notin alive \cup {NoSession}
  IN /\ Running /\ ~laid
     /\ gui' = IF popup = "shown" THEN [drawn EXCEPT !.current = "tool-popup"] ELSE drawn
     /\ mainEdits' = (full # NoSession /\ (gone \/ ~scroll))
     /\ full' = IF gone THEN NoSession ELSE full
     /\ laid' = ~gone
     /\ UNCHANGED <<alive, panel, popup, scroll, updates, named, askVars, ssh, calls, popped>>

-----------------------------------------------------------------------------
(* Tool popups, sessions and ssh.                                          *)

\* showToolPopup: none for the session in full screen.
NewPopup ==
  /\ Running /\ popped < MaxPopups
  /\ popped' = popped + 1 /\ popup' = "shown" /\ laid' = FALSE
  /\ UNCHANGED <<alive, panel, full, scroll, gui, mainEdits, updates, named, askVars, ssh, calls>>

\* Removed by the GC, the daemon or another host.
Vanish(s) ==
  /\ calls < MaxCalls /\ s \in alive
  /\ calls' = calls + 1 /\ alive' = alive \ {s} /\ laid' = FALSE
  /\ UNCHANGED <<screen, gui, mainEdits, updates, named, askVars, ssh, popped>>

\* handleConn with a prompt; it waits for handlerMu.
AskProcess(p) ==
  /\ ssh[p] = "off" /\ calls < MaxCalls
  /\ calls' = calls + 1 /\ ssh' = [ssh EXCEPT ![p] = "waiting"]
  /\ UNCHANGED <<alive, screen, gui, laidOut, updates, named, askVars, popped>>

\* handlerMu.Lock, and the handler of root.go up to its select.
TakeHandler(p) ==
  /\ ssh[p] = "waiting" /\ \A q \in Prompts : ssh[q] # "asked"
  /\ ssh' = [ssh EXCEPT ![p] = "asked"] /\ Post("askpass", p)
  /\ UNCHANGED <<alive, screen, gui, laidOut, named, askVars, calls, popped>>

Receive(p) ==
  /\ ssh[p] = "asked" /\ channel[p] # Free
  /\ ssh' = [ssh EXCEPT ![p] = "done"] /\ channel' = [channel EXCEPT ![p] = Free]
  /\ UNCHANGED <<alive, screen, gui, laidOut, updates, named, titled, typed, askpassCh, stuck, calls, popped>>

\* Mutant of Timeout: the handler waits for the channel alone.
NoTimeout(p) == FALSE /\ UNCHANGED vars

\* time.After: the dialog, if there is one, stays.
Timeout(p) ==
  /\ ssh[p] = "asked" /\ ssh' = [ssh EXCEPT ![p] = "done"]
  /\ UNCHANGED <<alive, screen, gui, laidOut, updates, named, askVars, calls, popped>>

\* The send of a stopped event loop completes.
Unstick ==
  /\ ~Running /\ channel[askpassCh] = Free
  /\ channel' = [channel EXCEPT ![askpassCh] = stuck] /\ stuck' = Free
  /\ UNCHANGED <<alive, screen, gui, laidOut, updates, named, titled, typed, askpassCh, ssh, calls, popped>>

Init ==
  /\ alive = Sessions /\ panel = "sessions" /\ popup = "none" /\ full = NoSession /\ scroll = FALSE
  /\ gui = [kind |-> "none", field |-> "", renaming |-> NoSession,
            views |-> Panels \cup {"main"}, current |-> "sessions"]
  /\ mainEdits = FALSE /\ laid = TRUE /\ updates = EmptyBag /\ named = NoSession
  /\ titled = NoPrompt /\ typed = NoPrompt /\ askpassCh = NoPrompt
  /\ channel = [p \in Prompts |-> Free] /\ stuck = Free
  /\ ssh = [p \in Prompts |-> "off"]
  /\ calls = 0 /\ popped = 0

User == \E key \in Pressed : PressKey(key)
Ssh(p) == TakeHandler(p) \/ Receive(p) \/ Timeout(p)

Next ==
  \/ User
  \/ \E u \in BagToSet(updates) : RunUpdate(u)
  \/ Layout \/ NewPopup \/ Unstick
  \/ \E s \in Sessions : Vanish(s)
  \/ \E p \in Prompts : AskProcess(p) \/ Ssh(p)

\* A user who wants to get back to the panels: leaves scroll mode, and
\* answers the popup, leaves full screen or leaves the dialog, whichever is
\* on the screen.
LeavesScrolling == full # NoSession /\ scroll /\ popup # "shown" /\ PressKey("Esc")
GetsBack ==
  \/ popup = "shown" /\ PressKey("CtrlY")
  \/ popup # "shown" /\ full # NoSession /\ ~scroll /\ PressKey("CtrlD")
  \/ popup # "shown" /\ full = NoSession /\ gui.kind # "none" /\ PressKey("Esc")

Fairness ==
  /\ WF_vars(Layout) /\ WF_vars(Unstick)
  /\ WF_vars(\E u \in BagToSet(updates) : RunUpdate(u))
  /\ \A p \in Prompts : WF_vars(Ssh(p))
  /\ SF_vars(LeavesScrolling) /\ SF_vars(GetsBack)

Spec == Init /\ [][Next]_vars /\ Fairness

-----------------------------------------------------------------------------
(* Properties.                                                             *)

\* When the screen has settled, keys go where the screen says: to the popup,
\* the session in full screen, a field of the open dialog that exists, or
\* the active panel (layout.go's order of focus), whichever dialog opened
\* over which and whatever ran between two layouts.
DialogHasFocus ==
  laid /\ Running =>
    CASE popup = "shown" -> gui.current = "tool-popup"
      [] popup # "shown" /\ full # NoSession -> gui.current = "main"
      [] popup # "shown" /\ full = NoSession /\ gui.kind # "none" -> gui.current \in Own(gui.kind) \cap gui.views
      [] OTHER -> gui.current = panel

\* What is typed goes where the title says: Enter renames the session whose
\* name the field shows, and a password reaches only the ssh process whose
\* prompt was its title (StartRename's RenameID, ShowAskpassPrompt's channel).
InputsMatchTitles ==
  /\ gui.kind = "rename" => named = gui.renaming
  /\ gui.kind = "askpass" => titled = askpassCh
  /\ \A p \in Prompts : channel[p] \in {Free, NoPrompt, p}

\* Every password prompt ends, answered, cancelled or timed out, whatever
\* dialogs hide it and even if the event loop stops (root.go's 120 s and
\* handlerMu, which lets one handler in after the other).
AskpassEnds == \A p \in Prompts : ssh[p] = "waiting" ~> ssh[p] = "done"

\* No dialog traps the user: one who answers popups, leaves full screen and
\* presses Esc gets back to the panels, whatever opened in between.
NoDialogTraps == gui.kind # "none" ~> gui.kind = "none"
=============================================================================
