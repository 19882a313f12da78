------------------------------ MODULE DeskProofs ------------------------------
(* The proofs about Desk: for any sessions and prompts, and whatever opens  *)
(* over what between two layouts, keys go where the screen says and text    *)
(* where its title says.                                                    *)
EXTENDS Desk, TLAPS

\* Where the focus can be, and what ActiveField can name.
Fields == UNION {Own(k) : k \in Kinds}
Places == Fields \cup Panels \cup {"main", "tool-popup"}
Shows == {"profile", "profileCWD", "worktree", "worktreeChooser", "connect", "rename", "askpass"}
Gui == [kind : Kinds \cup {"none"}, field : Fields \cup {""}, renaming : Sessions \cup {NoSession},
        views : SUBSET Places, current : Places]
Posted == [show : Shows \ {"askpass"}, of : Sessions \cup {NoSession}] \cup [show : {"askpass"}, of : Prompts]

ScreenTypes ==
  /\ alive \subseteq Sessions /\ panel \in Panels /\ popup \in {"none", "shown", "hidden"}
  /\ full \in Sessions \cup {NoSession} /\ scroll \in BOOLEAN
  /\ mainEdits \in BOOLEAN /\ laid \in BOOLEAN
GuiTypes == gui \in Gui /\ named \in Sessions \cup {NoSession}
UpdateTypes == IsABag(updates) /\ DOMAIN updates \subseteq Posted
AskTypes ==
  /\ titled \in Prompts \cup {NoPrompt} /\ typed \in Prompts \cup {NoPrompt} /\ askpassCh \in Prompts \cup {NoPrompt}
  /\ channel \in [Prompts -> Prompts \cup {NoPrompt, Free}]
  /\ stuck \in Prompts \cup {NoPrompt, Free}
CallTypes ==
  /\ ssh \in [Prompts -> {"off", "waiting", "asked", "done"}]
  /\ calls \in 0 .. MaxCalls /\ popped \in 0 .. MaxPopups

TypeInv == ScreenTypes /\ GuiTypes /\ UpdateTypes /\ AskTypes /\ CallTypes

\* A dialog has the views it needs, but for those the layout makes, the
\* focus is in none of another, and its field is one of its views.
Overlays == {"help", "search"}
GuiInv(g) ==
  /\ "main" \in g.views
  /\ g.kind \notin Overlays \cup {"none"} =>
       /\ Own(g.kind) \ {"profile-cwd"} \subseteq g.views
       /\ \A k \in Kinds \ {g.kind} : g.current \notin Own(k)
  /\ g.kind \in Fielded /\ g.field # "" => g.field \in Own(g.kind) \cap g.views

\* The layout has the last word on the focus.
FocusInv == GuiInv(gui) /\ DialogHasFocus /\ (laid => Running)

\* A password is typed under a title and goes to the prompt of that title.
AskInv ==
  /\ titled = askpassCh /\ typed \in {NoPrompt, titled}
  /\ stuck # Free => askpassCh # NoPrompt /\ stuck \in {NoPrompt, askpassCh}
  /\ \A p \in Prompts : channel[p] \in {Free, NoPrompt, p}

\* One rename at a time: its dialog is asked for, or is there.
RenameInv ==
  /\ \A u \in BagToSet(updates) : u.show = "rename" =>
       /\ updates[u] = 1 /\ u.of = gui.renaming /\ u.of # NoSession
       /\ "rename-input" \notin gui.views /\ gui.current # "rename-input" /\ gui.kind # "rename"
  /\ "rename-input" \in gui.views => gui.renaming # NoSession /\ named = gui.renaming
  /\ gui.kind = "rename" => "rename-input" \in gui.views
-----------------------------------------------------------------------------
(* The tables of the model                                                 *)

\* The dialogs, their views and which of them have fields.
LEMMA KindsAre ==
  Kinds = {"rename", "worktree", "worktreeChooser", "worktreeResume", "help", "search", "connect", "connectChooser",
           "askpass", "profile"}
  BY DEF Kinds, Dialogs

\* The views of each dialog.
LEMMA ViewsAre ==
  /\ Own("rename") = {"rename-input"} /\ Own("worktreeChooser") = {"worktree-chooser"}
  /\ Own("help") = {"keybind-help-input"} /\ Own("search") = {"search-input"}
  /\ Own("connect") = {"connect-input"} /\ Own("connectChooser") = {"connect-chooser"} /\ Own("askpass") = {"askpass-input"}
  /\ Own("worktree") = {"worktree-branch", "worktree-prompt", "worktree-profile-chooser", "worktree-options"}
  /\ Own("worktreeResume") = {"worktree-resume-prompt", "worktree-resume-profile-chooser", "worktree-resume-options"}
  /\ Own("profile") = {"profile-chooser", "profile-cwd", "profile-options"}
  BY DEF Own, Dialogs, Single, RenameDialog, ConnectDialog, ConnectChooser, AskpassDialog, KeybindHelp, SearchInput,
         WorktreeChooser, WorktreeDialog, WorktreeResume, ProfileDialog

\* The view each dialog opens with.
LEMMA OpensAre ==
  /\ Dialogs["rename"].opens = "rename-input" /\ Dialogs["worktreeChooser"].opens = "worktree-chooser"
  /\ Dialogs["help"].opens = "keybind-help-input" /\ Dialogs["search"].opens = "search-input"
  /\ Dialogs["connect"].opens = "connect-input" /\ Dialogs["connectChooser"].opens = "connect-chooser"
  /\ Dialogs["askpass"].opens = "askpass-input" /\ Dialogs["worktree"].opens = "worktree-branch"
  /\ Dialogs["worktreeResume"].opens = "worktree-resume-prompt" /\ Dialogs["profile"].opens = "profile-chooser"
  BY DEF Dialogs, Single, RenameDialog, ConnectDialog, ConnectChooser, AskpassDialog, KeybindHelp, SearchInput,
         WorktreeChooser, WorktreeDialog, WorktreeResume, ProfileDialog

\* The dialogs with ActiveField.
LEMMA FieldedAre == Fielded = {"worktree", "worktreeResume", "profile"}
  <1>1. \A k \in Kinds : Dialogs[k].fielded <=> k \in {"worktree", "worktreeResume", "profile"}
    BY KindsAre DEF Dialogs, Single, RenameDialog, ConnectDialog, ConnectChooser, AskpassDialog, KeybindHelp, SearchInput,
         WorktreeChooser, WorktreeDialog, WorktreeResume, ProfileDialog
  <1>2. QED BY <1>1, KindsAre DEF Fielded

\* No view belongs to two dialogs, none of them to the panels.
LEMMA OwnFacts ==
  /\ \A j, k \in Kinds : j # k => Own(j) \cap Own(k) = {}
  /\ \A k \in Kinds : Dialogs[k].opens \in Own(k) \ {"profile-cwd"}
  /\ \A k \in Kinds : Own(k) \cap (Panels \cup {"main", "tool-popup"}) = {} /\ Own(k) \subseteq Fields
  /\ \A k \in Kinds : "rename-input" \in Own(k) => k = "rename"
  <1>1. \A j, k \in Kinds : j # k => Own(j) \cap Own(k) = {}
    BY KindsAre, ViewsAre
  <1>2. \A k \in Kinds : Dialogs[k].opens \in Own(k) \ {"profile-cwd"}
    BY KindsAre, ViewsAre, OpensAre
  <1>3. \A k \in Kinds : Own(k) \cap (Panels \cup {"main", "tool-popup"}) = {}
    BY KindsAre, ViewsAre DEF Panels
  <1>4. \A k \in Kinds : Own(k) \subseteq Fields
    BY DEF Fields
  <1>5. "rename-input" \in Own("rename") /\ "rename" \in Kinds
    BY KindsAre, ViewsAre
  <1>6. QED BY <1>1, <1>2, <1>3, <1>4, <1>5

\* Tab stays in its dialog, and skips a missing profile-cwd.
LEMMA NextFacts ==
  ASSUME NEW k \in Fielded, NEW g, g.current \in Own(k)
  PROVE  /\ NextField(g) \in Own(k)
         /\ Own(k) \ {"profile-cwd"} \subseteq g.views => NextField(g) \in g.views
  <1>1. CASE k = "worktree"
    <2>1. NextField(g) = WorktreeTab[g.current]
      BY <1>1, ViewsAre DEF NextField, WorktreeTab
    <2>2. QED BY <1>1, <2>1, ViewsAre DEF WorktreeTab
  <1>2. CASE k = "worktreeResume"
    <2>1. NextField(g) = ResumeTab[g.current]
      BY <1>2, ViewsAre DEF NextField, ResumeTab
    <2>2. QED BY <1>2, <2>1, ViewsAre DEF ResumeTab
  <1>3. CASE k = "profile"
    <2>1. NextField(g) = IF ProfileTab[g.current] = "profile-cwd" /\ "profile-cwd" \notin g.views
                         THEN ProfileTab["profile-cwd"] ELSE ProfileTab[g.current]
      BY <1>3, ViewsAre DEF NextField, ProfileTab
    <2>2. QED BY <1>3, <2>1, ViewsAre DEF ProfileTab
  <1>4. QED BY <1>1, <1>2, <1>3, FieldedAre

-----------------------------------------------------------------------------
(* What the helpers make of dialogs and views                              *)

\* Setting the current view changes nothing else, and nothing if the view does not exist.
LEMMA FocusedFacts ==
  ASSUME NEW g \in Gui, NEW v \in Places
  PROVE  /\ Focused(g, v) \in Gui
         /\ Focused(g, v).kind = g.kind /\ Focused(g, v).field = g.field
         /\ Focused(g, v).renaming = g.renaming /\ Focused(g, v).views = g.views
         /\ Focused(g, v).current = IF v \in g.views THEN v ELSE g.current
  BY DEF Focused, Gui

\* A dialog that is shown has its views, its field and the focus.
LEMMA ShowFacts ==
  ASSUME NEW g \in Gui, "main" \in g.views, NEW kind \in Kinds, NEW cwd \in BOOLEAN
  PROVE  /\ Show(g, kind, cwd) \in Gui /\ GuiInv(Show(g, kind, cwd))
         /\ Show(g, kind, cwd).kind = kind /\ Show(g, kind, cwd).renaming = g.renaming
         /\ Show(g, kind, cwd).current = Dialogs[kind].opens
         /\ "rename-input" \in Show(g, kind, cwd).views <=> "rename-input" \in g.views \/ kind = "rename"
  <1> DEFINE h == Show(g, kind, cwd)
  <1> DEFINE vs == g.views \cup (IF cwd THEN Own(kind) ELSE Own(kind) \ {"profile-cwd"})
             f == IF kind \in Fielded THEN Dialogs[kind].opens ELSE g.field
  <1>1. h = [g EXCEPT !.kind = kind, !.current = Dialogs[kind].opens, !.views = vs, !.field = f]
    BY DEF Show
  <1>2. Dialogs[kind].opens \in Own(kind) \ {"profile-cwd"} /\ Own(kind) \subseteq Fields /\ Fields \subseteq Places
    BY OwnFacts DEF Places
  <1>3. vs \in SUBSET Places /\ f \in Fields \cup {""} /\ Dialogs[kind].opens \in Places
    BY <1>2 DEF Gui
  <1>c. /\ vs = g.views \cup (IF cwd THEN Own(kind) ELSE Own(kind) \ {"profile-cwd"})
        /\ f = IF kind \in Fielded THEN Dialogs[kind].opens ELSE g.field
    OBVIOUS
  <1> HIDE DEF h, vs, f
  <1>4. h \in Gui /\ h.kind = kind /\ h.renaming = g.renaming /\ h.current = Dialogs[kind].opens /\ h.views = vs /\ h.field = f
    BY <1>1, <1>3 DEF Gui
  <1>5. "rename-input" \in h.views <=> "rename-input" \in g.views \/ kind = "rename"
    BY <1>4, <1>c, OwnFacts, ViewsAre, KindsAre
  <1>6. GuiInv(h)
    <2>1. "main" \in h.views /\ Own(h.kind) \ {"profile-cwd"} \subseteq h.views
      BY <1>4, <1>c
    <2>2. \A k \in Kinds \ {h.kind} : h.current \notin Own(k)
      BY <1>2, <1>4, OwnFacts
    <2>3. h.kind \in Fielded => h.field \in Own(h.kind) \cap h.views
      BY <1>2, <1>4, <1>c
    <2>4. QED BY <2>1, <2>2, <2>3 DEF GuiInv
  <1>7. QED BY <1>4, <1>5, <1>6 DEF h

\* A dialog that is closed leaves no dialog, and the focus on a panel or
\* where it was.
LEMMA CloseFacts ==
  ASSUME NEW g \in Gui, NEW kind \in Kinds, panel \in Panels
  PROVE  /\ Close(g, kind) \in Gui /\ Close(g, kind).kind = "none"
         /\ Close(g, kind).views = g.views \ Own(kind)
         /\ Close(g, kind).renaming = IF kind = "rename" THEN NoSession ELSE g.renaming
         /\ Close(g, kind).current \in {g.current} \cup Panels
         /\ "main" \in g.views => GuiInv(Close(g, kind))
  <1> DEFINE closed == [g EXCEPT !.kind = "none", !.views = @ \ Own(kind),
                                 !.field = IF kind \in Fielded THEN "" ELSE @,
                                 !.renaming = IF kind = "rename" THEN NoSession ELSE @]
             h == Close(g, kind)
  <1>1. /\ closed \in Gui /\ closed.kind = "none" /\ closed.views = g.views \ Own(kind)
        /\ closed.renaming = (IF kind = "rename" THEN NoSession ELSE g.renaming) /\ closed.current = g.current
    BY DEF Gui
  <1>2. h \in {closed, Focused(closed, panel), Focused(closed, "sessions")}
    BY DEF Close
  <1> HIDE DEF closed, h
  <1>3. Panels \subseteq Places /\ "sessions" \in Panels
    BY DEF Places, Panels
  <1>4. /\ h \in Gui /\ h.kind = "none" /\ h.views = g.views \ Own(kind)
        /\ h.renaming = (IF kind = "rename" THEN NoSession ELSE g.renaming) /\ h.current \in {g.current} \cup Panels
    BY <1>1, <1>2, <1>3, FocusedFacts
  <1>5. "none" \notin Fielded /\ "main" \notin Own(kind)
    BY FieldedAre, OwnFacts
  <1>6. "main" \in g.views => GuiInv(h)
    BY <1>4, <1>5 DEF GuiInv
  <1>7. QED BY <1>4, <1>6 DEF h

-----------------------------------------------------------------------------
(* Functions handed to Update                                              *)

\* A function handed to Update is in the bag, the others stay.
LEMMA PostFacts ==
  ASSUME NEW B, NEW x, IsABag(B)
  PROVE  /\ IsABag(B (+) SetToBag({x})) /\ DOMAIN (B (+) SetToBag({x})) = DOMAIN B \cup {x}
         /\ \A y \in DOMAIN B : y # x => (B (+) SetToBag({x}))[y] = B[y]
         /\ x \notin DOMAIN B => (B (+) SetToBag({x}))[x] = 1
  BY DEF (+), SetToBag, IsABag

\* A function that was the only one of its kind is gone when it has run.
LEMMA RunFacts ==
  ASSUME NEW B, NEW x, IsABag(B), x \in DOMAIN B
  PROVE  /\ IsABag(B (-) SetToBag({x})) /\ DOMAIN (B (-) SetToBag({x})) \subseteq DOMAIN B
         /\ \A y \in DOMAIN (B (-) SetToBag({x})) : y # x => (B (-) SetToBag({x}))[y] = B[y]
         /\ B[x] = 1 => x \notin DOMAIN (B (-) SetToBag({x}))
  BY DEF (-), SetToBag, IsABag

\* All of it.
IInv == TypeInv /\ FocusInv /\ AskInv /\ RenameInv

\* What the password prompts hold stays typed when nothing touches it.
LEMMA AskTypesFrame == AskTypes /\ UNCHANGED askVars => AskTypes'
  BY DEF AskTypes, askVars

\* What the password prompts hold stays sound when nothing touches it.
LEMMA AskFrame == AskInv /\ UNCHANGED askVars => AskInv'
  BY DEF AskInv, askVars

\* Until the next layout the focus promises nothing.
LEMMA Unlaid == laid' = FALSE /\ GuiInv(gui') => FocusInv'
  BY DEF FocusInv, DialogHasFocus

\* What neither asks for a rename nor ends one.
LEMMA RenameFrame ==
  ASSUME RenameInv, UNCHANGED <<updates, named>>, gui'.renaming = gui.renaming,
         "rename-input" \in gui'.views <=> "rename-input" \in gui.views,
         gui'.kind = "rename" => gui.kind = "rename",
         gui'.current = "rename-input" => gui.current = "rename-input" \/ "rename-input" \in gui.views
  PROVE  RenameInv'
  BY DEF RenameInv, BagToSet

\* Rename is a rune, and the field of a name takes runes.
LEMMA RenameKey ==
  ASSUME NEW scope \in Scopes, NEW key, NEW tab, MatchTab(key, scope, tab) = "startRename"
  PROVE  key = "R"
  <1> DEFINE hits == {d \in BindingsForScopeTab(scope, tab) : key \in d.keys}
             d == CHOOSE x \in hits : TRUE
  <1>1. hits # {} /\ d.action = "startRename"
    BY DEF MatchTab
  <1>2. d \in hits
    BY <1>1
  <1>3. d \in Default[scope] /\ key \in d.keys
    BY <1>2 DEF BindingsForScopeTab
  <1> HIDE DEF hits, d
  <1>4. scope \in {"global", "sessions", "plugins", "logs", "popup", "fullscreen", "scroll"}
    BY DEF Scopes, Default
  <1>5. CASE scope = "sessions"
    <2>1. d \in SessionDefs \cup ErrorDefs \cup SearchDefs
      BY <1>3, <1>5 DEF Default
    <2>2. CASE d \in SessionDefs
      BY <1>1, <1>3, <2>2 DEF SessionDefs, Def
    <2>3. CASE d \in ErrorDefs \cup SearchDefs
      BY <1>1, <2>3 DEF ErrorDefs, SearchDefs, Def
    <2>4. QED BY <2>1, <2>2, <2>3
  <1>6. CASE scope = "global"
    BY <1>1, <1>3, <1>6 DEF Default, GlobalDefs, Def
  <1>7. CASE scope = "plugins"
    BY <1>1, <1>3, <1>7 DEF Default, McpTabDefs, PluginsTabDefs, MarketplaceDefs, SearchDefs, InTab, Def
  <1>8. CASE scope = "logs"
    BY <1>1, <1>3, <1>8 DEF Default, LogDefs, SearchDefs, Def
  <1>9. CASE scope = "popup"
    BY <1>1, <1>3, <1>9 DEF Default, PopupDefs, Def
  <1>10. CASE scope = "fullscreen"
    BY <1>1, <1>3, <1>10 DEF Default, FullScreenDefs, Def
  <1>11. CASE scope = "scroll"
    BY <1>1, <1>3, <1>11 DEF Default, ScrollDefs, Def
  <1>12. QED BY <1>4, <1>5, <1>6, <1>7, <1>8, <1>9, <1>10, <1>11

\* The key of a rename is typed, not dispatched, while the focus is in a rename field.
LEMMA RenameIsTyped ==
  ASSUME NEW key, panel \in Panels, NEW tab, IsGlobal(key),
         Dispatch(key, popup = "shown", full # NoSession, scroll, panel, tab) = "startRename"
  PROVE  gui.current # "rename-input"
  <1>1. {"global", "popup", "scroll", "fullscreen"} \cup Panels \subseteq Scopes
    BY DEF Scopes, Default, Panels
  <1>2. \E scope \in Scopes, t \in AllTabs \cup {tab} : MatchTab(key, scope, t) = "startRename"
    BY <1>1 DEF Dispatch, Match, AllTabs
  <1>3. key = "R"
    BY <1>2, RenameKey
  <1>4. "R" \in Runes
    <2>1. [action |-> "startRename", keys |-> {"R"}, tabs |-> AllTabs] \in Default["sessions"] /\ "sessions" \in Scopes
      BY DEF Default, Scopes, SessionDefs, Def
    <2>2. "R" \in Keys
      BY <2>1 DEF Keys
    <2>3. QED BY <2>2 DEF Runes, Special
  <1>5. "rename-input" \in Texts
    <2>1. "rename-input" \in UNION {Own(k) : k \in Kinds}
      BY KindsAre, ViewsAre
    <2>2. "rename-input" \notin Choosers
      BY DEF Choosers
    <2>3. QED BY <2>1, <2>2 DEF Texts
  <1>6. QED BY <1>3, <1>4, <1>5 DEF IsGlobal, Editable

-----------------------------------------------------------------------------
(* The actions of keys                                                     *)

\* A key that asks for a dialog: the dialog comes later.
LEMMA AskKeeps ==
  ASSUME IInv, NEW action \in DOMAIN Asks, Ask(Asks[action]), UNCHANGED <<alive, mainEdits, ssh, popped, named, askVars>>, laid' = FALSE
  PROVE  IInv'
  <1> DEFINE x == [show |-> Asks[action], of |-> NoSession]
  <1>1. Asks[action] \in Shows \ {"askpass"} /\ Asks[action] # "rename"
    BY DEF Asks, Shows
  <1>2. x \in Posted /\ x.show # "rename"
    BY <1>1 DEF Posted
  <1>3. updates' = updates (+) SetToBag({x}) /\ gui' = gui /\ UNCHANGED screen /\ calls' = calls + 1 /\ calls < MaxCalls
    BY DEF Ask, Post
  <1> HIDE DEF x
  <1>4. /\ IsABag(updates') /\ DOMAIN updates' = DOMAIN updates \cup {x}
        /\ \A y \in DOMAIN updates : y # x => updates'[y] = updates[y]
    <2>1. IsABag(updates)
      BY DEF IInv, TypeInv, UpdateTypes
    <2>2. QED BY <1>3, <2>1, PostFacts
  <1>5. TypeInv'
    <2>1. ScreenTypes' /\ GuiTypes'
      BY <1>3 DEF IInv, TypeInv, ScreenTypes, GuiTypes, screen
    <2>2. UpdateTypes'
      BY <1>2, <1>4 DEF IInv, TypeInv, UpdateTypes
    <2>3. AskTypes' /\ CallTypes'
      BY <1>3, AskTypesFrame, ConstantsAssumption DEF IInv, TypeInv, CallTypes
    <2>4. QED BY <2>1, <2>2, <2>3 DEF TypeInv
  <1>6. FocusInv' /\ AskInv'
    BY <1>3, Unlaid, AskFrame DEF IInv, FocusInv
  <1>7. RenameInv'
    BY <1>2, <1>3, <1>4 DEF IInv, RenameInv, BagToSet
  <1>8. QED BY <1>5, <1>6, <1>7 DEF IInv

\* r: RenameID is set before the dialog exists.
LEMMA StartRenameKeeps ==
  ASSUME IInv, NEW s \in alive, StartRename(s), gui.current # "rename-input",
         UNCHANGED <<alive, mainEdits, ssh, popped, named, askVars>>, laid' = FALSE
  PROVE  IInv'
  <1> DEFINE x == [show |-> "rename", of |-> s]
  <1>1. x \in Posted /\ x.show = "rename" /\ x.of = s /\ s # NoSession /\ s \in Sessions
    BY ConstantsAssumption DEF IInv, TypeInv, ScreenTypes, Posted, Shows
  <1>2. /\ updates' = updates (+) SetToBag({x}) /\ UNCHANGED screen /\ calls' = calls + 1 /\ calls < MaxCalls
        /\ gui.renaming = NoSession /\ gui' = [gui EXCEPT !.renaming = s]
    BY DEF StartRename, Post
  <1> HIDE DEF x
  <1>3. /\ gui' \in Gui /\ gui'.renaming = s /\ gui'.kind = gui.kind /\ gui'.views = gui.views
        /\ gui'.current = gui.current /\ gui'.field = gui.field
    BY <1>1, <1>2 DEF IInv, TypeInv, GuiTypes, Gui
  <1>4. \A u \in DOMAIN updates : u.show # "rename"
    BY <1>2 DEF IInv, RenameInv, BagToSet
  <1>5. x \notin DOMAIN updates
    BY <1>1, <1>4
  <1>6. /\ IsABag(updates') /\ DOMAIN updates' = DOMAIN updates \cup {x} /\ updates'[x] = 1
    <2>1. IsABag(updates)
      BY DEF IInv, TypeInv, UpdateTypes
    <2>2. QED BY <1>2, <1>5, <2>1, PostFacts
  <1>7. TypeInv'
    <2>1. ScreenTypes' /\ GuiTypes'
      BY <1>2, <1>3 DEF IInv, TypeInv, ScreenTypes, GuiTypes, screen
    <2>2. UpdateTypes'
      BY <1>1, <1>6 DEF IInv, TypeInv, UpdateTypes
    <2>3. AskTypes' /\ CallTypes'
      BY <1>2, AskTypesFrame, ConstantsAssumption DEF IInv, TypeInv, CallTypes
    <2>4. QED BY <2>1, <2>2, <2>3 DEF TypeInv
  <1>8. FocusInv' /\ AskInv'
    <2>1. GuiInv(gui')
      BY <1>3 DEF IInv, FocusInv, GuiInv
    <2>2. QED BY <2>1, Unlaid, AskFrame DEF IInv
  <1>9. RenameInv'
    <2>1. "rename-input" \notin gui.views /\ gui.kind # "rename"
      BY <1>2 DEF IInv, RenameInv
    <2>2. QED BY <1>1, <1>3, <1>4, <1>6, <2>1 DEF RenameInv, BagToSet
  <1>10. QED BY <1>7, <1>8, <1>9 DEF IInv

\* ? and /: the dialog is there before its view.
LEMMA OverlayKeeps ==
  ASSUME IInv, NEW kind \in Overlays, Overlay(kind),
         UNCHANGED <<alive, mainEdits, ssh, popped, named, askVars>>, laid' = FALSE
  PROVE  IInv'
  <1>1. /\ UNCHANGED <<screen, updates>> /\ calls' = calls + 1 /\ calls < MaxCalls /\ gui' = [gui EXCEPT !.kind = kind]
        /\ kind \in Kinds /\ kind \notin Fielded /\ kind # "rename"
    BY KindsAre, FieldedAre DEF Overlay, Overlays
  <1>2. /\ gui' \in Gui /\ gui'.renaming = gui.renaming /\ gui'.kind = kind /\ gui'.views = gui.views
        /\ gui'.current = gui.current /\ gui'.field = gui.field
    BY <1>1 DEF IInv, TypeInv, GuiTypes, Gui
  <1>3. TypeInv'
    <2>1. ScreenTypes' /\ GuiTypes' /\ UpdateTypes'
      BY <1>1, <1>2 DEF IInv, TypeInv, ScreenTypes, GuiTypes, UpdateTypes, screen
    <2>2. AskTypes' /\ CallTypes'
      BY <1>1, AskTypesFrame, ConstantsAssumption DEF IInv, TypeInv, CallTypes
    <2>3. QED BY <2>1, <2>2 DEF TypeInv
  <1>4. FocusInv' /\ AskInv'
    <2>1. GuiInv(gui')
      BY <1>1, <1>2 DEF IInv, FocusInv, GuiInv
    <2>2. QED BY <2>1, Unlaid, AskFrame DEF IInv
  <1>5. RenameInv'
    BY <1>1, <1>2, RenameFrame DEF IInv
  <1>6. QED BY <1>3, <1>4, <1>5 DEF IInv

\* What changes the panel, the popup or full screen only.
LEMMA ScreenKeeps ==
  ASSUME IInv, laid' = FALSE, gui' = gui, UNCHANGED <<updates, named, askVars>>, TypeInv'
  PROVE  IInv'
  <1>1. FocusInv' /\ AskInv'
    BY Unlaid, AskFrame DEF IInv, FocusInv
  <1>2. RenameInv'
    BY RenameFrame DEF IInv
  <1>3. QED BY <1>1, <1>2 DEF IInv

\* Every action of the key table.
LEMMA DoKeeps ==
  ASSUME IInv, NEW action, Do(action), action = "startRename" => gui.current # "rename-input",
         UNCHANGED <<alive, mainEdits, ssh, popped>>, laid' = FALSE
  PROVE  IInv'
  <1>0. UNCHANGED <<named, askVars>>
    BY DEF Do
  <1>1. CASE action \in DOMAIN Asks /\ Ask(Asks[action])
    BY <1>0, <1>1, AskKeeps
  <1>2. CASE action = "startRename" /\ \E s \in alive : StartRename(s)
    BY <1>0, <1>2, StartRenameKeeps
  <1>3. CASE Overlay("help") \/ Overlay("search")
    BY <1>0, <1>3, OverlayKeeps DEF Overlays
  <1>4. CASE \E s \in alive : EnterFullScreen(s)
    <2>1. PICK s \in alive : EnterFullScreen(s)
      BY <1>4
    <2>2. /\ calls < MaxCalls /\ calls' = calls + 1 /\ full' = s /\ s \in Sessions
          /\ UNCHANGED <<panel, popup, scroll, gui, updates>>
      BY <2>1 DEF EnterFullScreen, IInv, TypeInv, ScreenTypes
    <2>3. ScreenTypes' /\ GuiTypes' /\ UpdateTypes'
      BY <1>0, <2>2 DEF IInv, TypeInv, ScreenTypes, GuiTypes, UpdateTypes
    <2>4. AskTypes' /\ CallTypes'
      BY <1>0, <2>2, AskTypesFrame, ConstantsAssumption DEF IInv, TypeInv, CallTypes
    <2>5. TypeInv'
      BY <2>3, <2>4 DEF TypeInv
    <2>6. QED BY <1>0, <2>2, <2>5, ScreenKeeps
  <1>5. CASE Move(action)
    <2>1. panel' \in Panels /\ popup' \in {"none", "shown", "hidden"} /\ full' \in {full, NoSession} /\ scroll' \in BOOLEAN
      <3>1. panel' \in {panel, Following[panel], Following[Following[panel]]}
        BY <1>5 DEF Move
      <3>2. \A x \in Panels : Following[x] \in Panels
        BY DEF Following, Panels
      <3>3. popup' \in {popup, "none", "shown", "hidden"} /\ full' \in {full, NoSession} /\ scroll' \in {scroll, TRUE, FALSE}
        BY <1>5 DEF Move
      <3>4. QED BY <3>1, <3>2, <3>3 DEF IInv, TypeInv, ScreenTypes
    <2>2. UNCHANGED <<gui, updates, calls>>
      BY <1>5 DEF Move
    <2>3. ScreenTypes' /\ GuiTypes' /\ UpdateTypes'
      BY <1>0, <2>1, <2>2 DEF IInv, TypeInv, ScreenTypes, GuiTypes, UpdateTypes
    <2>4. AskTypes' /\ CallTypes'
      BY <1>0, <2>2, AskTypesFrame DEF IInv, TypeInv, CallTypes
    <2>5. TypeInv'
      BY <2>3, <2>4 DEF TypeInv
    <2>6. QED BY <1>0, <2>2, <2>5, ScreenKeeps
  <1>6. QED BY <1>1, <1>2, <1>3, <1>4, <1>5 DEF Do

-----------------------------------------------------------------------------
(* Keys of views                                                           *)

\* A binding of a view belongs to a dialog that has the view, or moves a cursor.
LEMMA BindingFacts ==
  ASSUME NEW b \in ViewBindings
  PROVE  /\ b.does \in {"confirm", "cancel"} => b.kind \in Kinds /\ b.views = Own(b.kind)
         /\ b.does = "next" => b.kind \in Fielded /\ b.kind \in Kinds /\ b.views = Own(b.kind)
         /\ b.kind = "askpass" => b.does \in {"confirm", "cancel"}
  <1>1. CASE \E k \in Kinds : b = Cancelling(k) \/ b = Confirming(k)
    BY <1>1 DEF Cancelling, Confirming
  <1>2. CASE \E k \in Fielded : b = Tabbing(k)
    BY <1>2, FieldedAre, KindsAre DEF Tabbing
  <1>3. CASE b.does = "move" /\ b.kind = "none"
    BY <1>3
  <1>4. QED BY <1>1, <1>2, <1>3 DEF ViewBindings

\* Leaving a dialog by one of its views; a rename is over then.
LEMMA LeaveKeeps ==
  ASSUME IInv, NEW k \in Kinds, gui.current \in Own(k), gui' = Close(gui, k), UNCHANGED <<panel, updates, named>>
  PROVE  GuiTypes' /\ GuiInv(gui') /\ RenameInv'
  <1>1. gui \in Gui /\ "main" \in gui.views /\ panel \in Panels
    BY DEF IInv, TypeInv, GuiTypes, ScreenTypes, FocusInv, GuiInv
  <1>2. /\ gui' \in Gui /\ gui'.kind = "none" /\ gui'.views = gui.views \ Own(k)
        /\ gui'.renaming = (IF k = "rename" THEN NoSession ELSE gui.renaming)
        /\ gui'.current \in {gui.current} \cup Panels /\ GuiInv(gui')
    BY <1>1, CloseFacts
  <1>3. GuiTypes'
    BY <1>2 DEF IInv, TypeInv, GuiTypes
  <1>4. CASE k = "rename"
    <2>1. gui.current = "rename-input" /\ "rename-input" \notin gui'.views
      BY <1>2, <1>4, ViewsAre
    <2>2. \A u \in BagToSet(updates') : u.show # "rename"
      BY <2>1 DEF IInv, RenameInv, BagToSet
    <2>3. gui'.kind # "rename"
      BY <1>2
    <2>4. RenameInv'
      BY <2>1, <2>2, <2>3 DEF RenameInv, BagToSet
    <2>5. QED BY <1>2, <1>3, <2>4
  <1>5. CASE k # "rename"
    <2>1. "rename-input" \in gui'.views <=> "rename-input" \in gui.views
      BY <1>2, <1>5, OwnFacts
    <2>2. "rename-input" \notin Panels
      BY DEF Panels
    <2>3. gui'.renaming = gui.renaming /\ gui'.kind # "rename" /\ (gui'.current = "rename-input" => gui.current = "rename-input")
      BY <1>2, <1>5, <2>2
    <2>4. RenameInv
      BY DEF IInv
    <2>5. RenameInv'
      BY <2>1, <2>3, <2>4, RenameFrame
    <2>6. QED BY <1>2, <1>3, <2>5
  <1>6. QED BY <1>2, <1>3, <1>4, <1>5

\* A chooser that goes on to a second dialog.
LEMMA GoOnKeeps ==
  ASSUME IInv, NEW k \in Kinds \ {"rename"}, NEW next \in Kinds \ {"rename"},
         gui' = Show(Close(gui, k), next, FALSE), UNCHANGED <<panel, updates, named>>
  PROVE  GuiTypes' /\ GuiInv(gui') /\ RenameInv'
  <1> DEFINE h == Close(gui, k)
  <1>1. gui \in Gui /\ "main" \in gui.views /\ panel \in Panels
    BY DEF IInv, TypeInv, GuiTypes, ScreenTypes, FocusInv, GuiInv
  <1>2. h \in Gui /\ h.views = gui.views \ Own(k) /\ h.renaming = gui.renaming
    BY <1>1, CloseFacts
  <1>3. "main" \in h.views /\ ("rename-input" \in h.views <=> "rename-input" \in gui.views)
    BY <1>1, <1>2, OwnFacts
  <1>4. gui' = Show(h, next, FALSE)
    OBVIOUS
  <1> HIDE DEF h
  <1>5. /\ gui' \in Gui /\ GuiInv(gui') /\ gui'.kind = next /\ gui'.renaming = h.renaming
        /\ gui'.current = Dialogs[next].opens
        /\ ("rename-input" \in gui'.views <=> "rename-input" \in h.views)
    <2>1. next \in Kinds /\ next # "rename" /\ FALSE \in BOOLEAN
      OBVIOUS
    <2> DEFINE shown == Show(h, next, FALSE)
    <2>2. /\ shown \in Gui /\ GuiInv(shown) /\ shown.kind = next /\ shown.renaming = h.renaming
          /\ shown.current = Dialogs[next].opens
          /\ ("rename-input" \in shown.views <=> "rename-input" \in h.views \/ next = "rename")
      BY <1>2, <1>3, <2>1, ShowFacts
    <2> HIDE DEF shown
    <2>3. gui' = shown
      BY <1>4 DEF shown
    <2>4. QED BY <2>1, <2>2, <2>3
  <1>6. gui'.current # "rename-input"
    <2>1. next \in Kinds /\ Dialogs[next].opens \in Own(next)
      BY OwnFacts
    <2>2. "rename-input" \notin Own(next)
      BY OwnFacts
    <2>3. QED BY <1>5, <2>1, <2>2
  <1>7. RenameInv'
    BY <1>2, <1>3, <1>5, <1>6, RenameFrame DEF IInv
  <1>8. QED BY <1>5, <1>7 DEF IInv, TypeInv, GuiTypes

\* Tab.
LEMMA NextKeeps ==
  ASSUME IInv, NEW k \in Fielded, k \in Kinds, gui.current \in Own(k),
         gui' = Focused([gui EXCEPT !.field = NextField(gui)], NextField(gui)), UNCHANGED <<updates, named>>
  PROVE  GuiTypes' /\ GuiInv(gui') /\ RenameInv'
  <1> DEFINE v == NextField(gui)
             h == [gui EXCEPT !.field = v]
  <1>1. gui \in Gui /\ GuiInv(gui)
    BY DEF IInv, TypeInv, GuiTypes, FocusInv
  <1>2. v \in Own(k) /\ (Own(k) \ {"profile-cwd"} \subseteq gui.views => v \in gui.views)
    BY NextFacts
  <1>3. v \in Fields /\ v \in Places /\ v # "rename-input"
    BY <1>2, OwnFacts, FieldedAre DEF Places
  <1> HIDE DEF v
  <1>4. /\ h \in Gui /\ h.field = v /\ h.kind = gui.kind /\ h.views = gui.views /\ h.current = gui.current
        /\ h.renaming = gui.renaming
    BY <1>1, <1>3 DEF Gui
  <1>5. gui' = Focused(h, v)
    BY DEF v
  <1> HIDE DEF h
  <1>6. /\ gui' \in Gui /\ gui'.kind = gui.kind /\ gui'.field = v /\ gui'.renaming = gui.renaming
        /\ gui'.views = gui.views /\ gui'.current \in {gui.current, v}
    BY <1>3, <1>4, <1>5, FocusedFacts
  <1>7. GuiInv(gui')
    <2>1. CASE gui.kind = k
      <3>1. k \notin Overlays \cup {"none"}
        BY FieldedAre DEF Overlays
      <3>2. "main" \in gui'.views /\ Own(k) \ {"profile-cwd"} \subseteq gui'.views
        BY <1>1, <1>6, <2>1, <3>1 DEF GuiInv
      <3>3. \A j \in Kinds \ {k} : gui'.current \notin Own(j)
        BY <1>1, <1>2, <1>6, OwnFacts
      <3>4. gui'.field \in Own(k) \cap gui'.views
        BY <1>2, <1>6, <3>2
      <3>5. QED BY <1>6, <2>1, <3>2, <3>3, <3>4 DEF GuiInv
    <2>2. CASE gui.kind # k
      <3>1. gui.kind \in Overlays \cup {"none"}
        BY <1>1, <2>2 DEF GuiInv
      <3>2. gui.kind \notin Fielded
        BY <3>1, FieldedAre DEF Overlays
      <3>3. QED BY <1>1, <1>6, <3>1, <3>2 DEF GuiInv
    <2>3. QED BY <2>1, <2>2
  <1>8. RenameInv'
    BY <1>3, <1>6, RenameFrame DEF IInv
  <1>9. QED BY <1>6, <1>7, <1>8 DEF IInv, TypeInv, GuiTypes

\* The answer of the password dialog reaches the prompt of its title.
LEMMA SendKeeps ==
  ASSUME AskTypes, AskInv, Running, NEW text \in {typed, NoPrompt}, Send(text), UNCHANGED <<titled, typed, askpassCh>>
  PROVE  AskTypes' /\ AskInv'
  <1>1. CASE askpassCh = NoPrompt
    BY <1>1 DEF Send, AskTypes, AskInv
  <1>2. CASE askpassCh # NoPrompt /\ channel[askpassCh] = Free
    <2>1. channel' = [channel EXCEPT ![askpassCh] = text] /\ UNCHANGED stuck
      BY <1>2 DEF Send
    <2>2. askpassCh \in Prompts /\ text \in {NoPrompt, askpassCh}
      BY <1>2 DEF AskTypes, AskInv
    <2>3. QED BY <2>1, <2>2 DEF AskTypes, AskInv, Running
  <1>3. CASE askpassCh # NoPrompt /\ channel[askpassCh] # Free
    <2>1. stuck' = text /\ UNCHANGED channel
      BY <1>3 DEF Send
    <2>2. QED BY <1>3, <2>1 DEF AskTypes, AskInv
  <1>4. QED BY <1>1, <1>2, <1>3

\* Every binding of a view.
LEMMA InViewKeeps ==
  ASSUME IInv, Running, NEW b \in ViewBindings, gui.current \in b.views, InView(b),
         UNCHANGED <<alive, mainEdits, ssh, popped>>, laid' = FALSE
  PROVE  IInv'
  <1>1. UNCHANGED <<screen, updates, named, calls>> /\ UNCHANGED <<panel, popup, full, scroll>>
    BY DEF InView, AnswerAskpass, screen
  <1>2. ScreenTypes' /\ UpdateTypes' /\ CallTypes'
    BY <1>1 DEF IInv, TypeInv, ScreenTypes, UpdateTypes, CallTypes
  <1>3. AskTypes' /\ AskInv'
    <2>1. CASE UNCHANGED askVars
      BY <2>1, AskFrame, AskTypesFrame DEF IInv, TypeInv
    <2>2. CASE ~UNCHANGED askVars
      <3>1. \E text \in {typed, NoPrompt} : AnswerAskpass(text)
        BY <2>2 DEF InView
      <3>2. QED BY <3>1, SendKeeps DEF IInv, TypeInv, AnswerAskpass
    <2>3. QED BY <2>1, <2>2
  <1>4. GuiTypes' /\ GuiInv(gui') /\ RenameInv'
    <2>1. CASE gui' = gui
      BY <1>1, <2>1, RenameFrame DEF IInv, TypeInv, GuiTypes, FocusInv
    <2>2. CASE b.kind = "askpass"
      <3>1. gui' = Close(gui, "askpass")
        BY <2>2 DEF InView, AnswerAskpass
      <3>2. QED BY <1>1, <2>2, <3>1, BindingFacts, LeaveKeeps
    <2>3. CASE b.kind # "askpass" /\ b.does = "confirm" /\ gui' \in Confirm(b.kind)
      <3>1. b.kind \in Kinds /\ gui.current \in Own(b.kind)
        BY <2>3, BindingFacts
      <3>2. CASE gui' = Close(gui, b.kind)
        BY <1>1, <3>1, <3>2, LeaveKeeps
      <3>3. CASE \E k, next \in Kinds \ {"rename"} : gui' = Show(Close(gui, k), next, FALSE)
        BY <1>1, <3>3, GoOnKeeps
      <3>4. gui' = gui \/ gui' = Close(gui, b.kind) \/ \E k, next \in Kinds \ {"rename"} : gui' = Show(Close(gui, k), next, FALSE)
        BY <2>3, KindsAre DEF Confirm, ConfirmWorktree, ConfirmResume, ConfirmChooser, ConfirmHost
      <3>5. QED BY <2>1, <3>2, <3>3, <3>4
    <2>4. CASE b.does = "cancel" /\ gui' = Close(gui, b.kind)
      BY <1>1, <2>4, BindingFacts, LeaveKeeps
    <2>5. CASE b.does = "next" /\ gui' = Focused([gui EXCEPT !.field = NextField(gui)], NextField(gui))
      BY <1>1, <2>5, BindingFacts, NextKeeps
    <2>6. QED BY <2>1, <2>2, <2>3, <2>4, <2>5 DEF InView
  <1>5. FocusInv'
    BY <1>4, Unlaid
  <1>6. QED BY <1>2, <1>3, <1>4, <1>5 DEF IInv, TypeInv

\* A rune in a field.
LEMMA TypeKeeps ==
  ASSUME IInv, NEW key, Type(key), UNCHANGED <<alive, mainEdits, ssh, popped>>, laid' = FALSE
  PROVE  IInv'
  <1>1. /\ UNCHANGED <<panel, popup, full, scroll, gui, updates, named, titled, askpassCh, channel, stuck, calls>>
        /\ typed' \in {titled, typed}
    BY DEF Type, screen
  <1>2. ScreenTypes' /\ UpdateTypes' /\ CallTypes' /\ GuiTypes'
    BY <1>1 DEF IInv, TypeInv, ScreenTypes, UpdateTypes, CallTypes, GuiTypes
  <1>3. AskTypes' /\ AskInv'
    BY <1>1 DEF IInv, TypeInv, AskTypes, AskInv
  <1>4. FocusInv' /\ RenameInv'
    BY <1>1, Unlaid, RenameFrame DEF IInv, FocusInv
  <1>5. QED BY <1>2, <1>3, <1>4 DEF IInv, TypeInv

\* Every key.
LEMMA PressKeyKeeps ==
  ASSUME IInv, NEW key, PressKey(key)
  PROVE  IInv'
  <1>1. Running /\ laid' = FALSE /\ UNCHANGED <<alive, mainEdits, ssh, popped>>
    BY DEF PressKey
  <1>2. CASE \E b \in OfView(key) : InView(b)
    BY <1>1, <1>2, InViewKeeps DEF OfView
  <1>3. CASE Type(key)
    BY <1>1, <1>3, TypeKeeps
  <1>4. CASE IsGlobal(key) /\ \E tab \in Tabbed : Do(Dispatch(key, popup = "shown", full # NoSession, scroll, panel, tab))
    <2>1. PICK tab \in Tabbed : Do(Dispatch(key, popup = "shown", full # NoSession, scroll, panel, tab))
      BY <1>4
    <2> DEFINE action == Dispatch(key, popup = "shown", full # NoSession, scroll, panel, tab)
    <2>2. action = "startRename" => gui.current # "rename-input"
      BY <1>4, RenameIsTyped DEF IInv, TypeInv, ScreenTypes
    <2>3. Do(action)
      BY <2>1
    <2> HIDE DEF action
    <2>4. QED BY <1>1, <2>2, <2>3, DoKeeps
  <1>5. QED BY <1>2, <1>3, <1>4 DEF PressKey

-----------------------------------------------------------------------------
(* Updates and the layout                                                  *)

\* A function handed to Update opens its dialog over whatever is there by then.
LEMMA RunUpdateKeeps ==
  ASSUME IInv, NEW u \in BagToSet(updates), RunUpdate(u)
  PROVE  IInv'
  <1>1. /\ Running /\ laid' = FALSE /\ updates' = updates (-) SetToBag({u})
        /\ UNCHANGED <<alive, panel, popup, full, scroll, mainEdits, channel, stuck, ssh, calls, popped>>
        /\ named' = IF u.show = "rename" THEN u.of ELSE named
    BY DEF RunUpdate, screen
  <1>2. u \in DOMAIN updates /\ u \in Posted /\ IsABag(updates) /\ gui \in Gui /\ "main" \in gui.views
    BY DEF BagToSet, IInv, TypeInv, UpdateTypes, GuiTypes, FocusInv, GuiInv
  <1>3. /\ IsABag(updates') /\ DOMAIN updates' \subseteq DOMAIN updates
        /\ \A y \in DOMAIN updates' : y # u => updates'[y] = updates[y]
        /\ updates[u] = 1 => u \notin DOMAIN updates'
    BY <1>1, <1>2, RunFacts
  <1>4. /\ u.show \in Shows
        /\ u.show = "askpass" => u.of \in Prompts
        /\ u.show # "askpass" => u.of \in Sessions \cup {NoSession}
    BY <1>2 DEF Posted, Shows
  <1>5. \/ gui' = gui /\ u.show # "rename"
        \/ \E k \in Kinds, cwd \in BOOLEAN : gui' = Show(gui, k, cwd) /\ (k = "rename" <=> u.show = "rename")
    BY <1>4, KindsAre DEF RunUpdate, Shows
  <1>6. ASSUME gui' = gui, u.show # "rename"
        PROVE  gui' \in Gui /\ GuiInv(gui') /\ RenameInv'
    <2>1. GuiInv(gui') /\ gui' \in Gui /\ named' = named
      BY <1>1, <1>6 DEF IInv, TypeInv, GuiTypes, FocusInv
    <2>2. RenameInv'
      BY <1>3, <1>6, <2>1 DEF IInv, RenameInv, BagToSet
    <2>3. QED BY <2>1, <2>2
  <1>7. ASSUME \E k \in Kinds, cwd \in BOOLEAN : gui' = Show(gui, k, cwd) /\ (k = "rename" <=> u.show = "rename")
        PROVE  gui' \in Gui /\ GuiInv(gui') /\ RenameInv'
    <2>1. PICK k \in Kinds, cwd \in BOOLEAN : gui' = Show(gui, k, cwd) /\ (k = "rename" <=> u.show = "rename")
      BY <1>7
    <2> DEFINE shown == Show(gui, k, cwd)
    <2>2. /\ shown \in Gui /\ GuiInv(shown) /\ shown.kind = k /\ shown.renaming = gui.renaming
          /\ shown.current = Dialogs[k].opens
          /\ ("rename-input" \in shown.views <=> "rename-input" \in gui.views \/ k = "rename")
      BY <1>2, ShowFacts
    <2> HIDE DEF shown
    <2>3. gui' = shown
      BY <2>1 DEF shown
    <2>4. RenameInv'
      <3>1. CASE k = "rename"
        <4>1. updates[u] = 1 /\ u.of = gui.renaming /\ u.of # NoSession
          BY <2>1, <3>1 DEF IInv, RenameInv
        <4>2. \A y \in DOMAIN updates : y.show = "rename" => y.of = u.of
          BY <4>1 DEF IInv, RenameInv, BagToSet
        <4>3. \A y \in DOMAIN updates : y.show = "rename" => y = u
          BY <1>2, <2>1, <3>1, <4>2 DEF IInv, TypeInv, UpdateTypes, Posted
        <4>4. \A y \in DOMAIN updates' : y.show # "rename"
          BY <1>3, <4>1, <4>3
        <4>5. named' = gui'.renaming /\ gui'.renaming # NoSession
          BY <1>1, <2>1, <2>2, <2>3, <3>1, <4>1
        <4>6. QED BY <2>2, <2>3, <3>1, <4>4, <4>5 DEF RenameInv, BagToSet
      <3>2. CASE k # "rename"
        <4>1. named' = named /\ u.show # "rename"
          BY <1>1, <2>1, <3>2
        <4>2. "rename-input" \notin Own(k) /\ Dialogs[k].opens \in Own(k)
          BY <3>2, OwnFacts
        <4>3. /\ gui'.renaming = gui.renaming /\ gui'.kind # "rename" /\ gui'.current # "rename-input"
              /\ ("rename-input" \in gui'.views <=> "rename-input" \in gui.views)
          BY <2>2, <2>3, <3>2, <4>2
        <4>4. \A y \in DOMAIN updates' : y.show = "rename" => y \in DOMAIN updates /\ updates'[y] = updates[y]
          BY <1>3, <4>1
        <4>5. QED BY <4>1, <4>3, <4>4 DEF IInv, RenameInv, BagToSet
      <3>3. QED BY <3>1, <3>2
    <2>5. QED BY <2>2, <2>3, <2>4
  <1>8. gui' \in Gui /\ GuiInv(gui') /\ RenameInv'
    BY <1>5, <1>6, <1>7
  <1>9. AskTypes' /\ AskInv'
    <2>1. CASE u.show = "askpass"
      <3>1. askpassCh' = u.of /\ titled' = u.of /\ typed' = NoPrompt
        BY <2>1 DEF RunUpdate, ClearText
      <3>2. u.of \in Prompts
        BY <1>4, <2>1
      <3>3. QED BY <1>1, <3>1, <3>2 DEF IInv, TypeInv, AskTypes, AskInv, Running
    <2>2. CASE u.show # "askpass"
      <3>1. UNCHANGED askVars
        BY <1>1, <2>2 DEF RunUpdate, askVars
      <3>2. QED BY <3>1, AskFrame, AskTypesFrame DEF IInv, TypeInv
    <2>3. QED BY <2>1, <2>2
  <1>10. TypeInv'
    <2>1. ScreenTypes' /\ CallTypes'
      BY <1>1 DEF IInv, TypeInv, ScreenTypes, CallTypes
    <2>2. GuiTypes' /\ UpdateTypes'
      BY <1>1, <1>3, <1>4, <1>8 DEF IInv, TypeInv, GuiTypes, UpdateTypes
    <2>3. QED BY <1>9, <2>1, <2>2 DEF TypeInv
  <1>11. FocusInv'
    BY <1>1, <1>8, Unlaid
  <1>12. QED BY <1>8, <1>9, <1>10, <1>11 DEF IInv

\* What a layout leaves alone, and that it moves the focus to views only.
Drawn(g, h) ==
  /\ h \in Gui /\ GuiInv(h) /\ h.kind = g.kind /\ h.renaming = g.renaming
  /\ "rename-input" \in h.views <=> "rename-input" \in g.views
  /\ h.current \in {g.current} \cup h.views

\* The view that gets the focus of a dialog is one of its own and exists.
LEMMA FocusViewFacts ==
  ASSUME NEW g \in Gui, GuiInv(g), g.kind # "none", g.kind \in Overlays => Own(g.kind) \subseteq g.views
  PROVE  FocusView(g) \in Own(g.kind) \cap g.views
  <1>1. g.kind \in Kinds
    BY DEF Gui
  <1>2. CASE g.kind \in Fielded /\ g.field # ""
    BY <1>2 DEF FocusView, GuiInv
  <1>3. CASE ~(g.kind \in Fielded /\ g.field # "")
    <2>1. FocusView(g) = Dialogs[g.kind].opens /\ Dialogs[g.kind].opens \in Own(g.kind) \ {"profile-cwd"}
      BY <1>1, <1>3, OwnFacts DEF FocusView
    <2>2. Own(g.kind) \ {"profile-cwd"} \subseteq g.views
      BY DEF GuiInv
    <2>3. QED BY <2>1, <2>2
  <1>4. QED BY <1>2, <1>3

\* Focusing a panel, or a view of the dialog itself.
LEMMA FocusDrawn ==
  ASSUME NEW g \in Gui, GuiInv(g), NEW v \in Places,
         v \in Panels \cup {"main", "tool-popup"} \/ (g.kind # "none" /\ v \in Own(g.kind))
  PROVE  Drawn(g, Focused(g, v))
  <1> DEFINE h == Focused(g, v)
  <1>1. /\ h \in Gui /\ h.kind = g.kind /\ h.field = g.field /\ h.renaming = g.renaming /\ h.views = g.views
        /\ h.current = IF v \in g.views THEN v ELSE g.current
    BY FocusedFacts
  <1> HIDE DEF h
  <1>2. \A k \in Kinds \ {g.kind} : v \notin Own(k)
    BY OwnFacts DEF Gui
  <1>3. GuiInv(h)
    BY <1>1, <1>2 DEF GuiInv
  <1>4. QED BY <1>1, <1>3 DEF Drawn, h

\* layoutMain keeps the dialog and puts the focus on it, or on the panel.
LEMMA SplitFacts ==
  ASSUME NEW g \in Gui, GuiInv(g), panel \in Panels
  PROVE  /\ Drawn(g, Split(g))
         /\ popup # "shown" /\ g.kind # "none" => Split(g).current \in Own(g.kind) \cap Split(g).views
         /\ popup # "shown" /\ g.kind = "none" => Split(g).current = panel
  <1> DEFINE overlays == {"help", "search"}
             old == UNION {Own(k) : k \in overlays}
             new == UNION {Own(k) : k \in overlays \cap {g.kind}}
             vs == (g.views \ old) \cup Panels \cup {"main"} \cup new
             made == [g EXCEPT !.views = (@ \ old) \cup Panels \cup {"main"} \cup new]
  <1>1. overlays \subseteq Kinds
    BY KindsAre
  <1>2. /\ old = Own("help") \cup Own("search")
        /\ \A v : v \in new <=> g.kind \in overlays /\ v \in Own(g.kind)
    OBVIOUS
  <1>3. old \subseteq Places /\ new \subseteq Places /\ Panels \cup {"main"} \subseteq Places
    BY <1>1, OwnFacts DEF Places
  <1>4. vs \in SUBSET Places
    BY <1>3 DEF Gui
  <1>5. Split(g) = CASE popup = "shown" -> made
                     [] popup # "shown" /\ g.kind # "none" -> Focused(made, FocusView(made))
                     [] OTHER -> Focused(made, panel)
    BY Zenon DEF Split
  <1>6. /\ made \in Gui /\ made.kind = g.kind /\ made.field = g.field /\ made.renaming = g.renaming
        /\ made.views = vs /\ made.current = g.current
    BY <1>4 DEF Gui
  <1>7. /\ Panels \cup {"main"} \subseteq vs
        /\ g.kind \in overlays => Own(g.kind) \subseteq vs
        /\ \A k \in Kinds \ overlays : \A v \in Own(k) : v \in vs <=> v \in g.views
    <2>1. \A k \in Kinds \ overlays : Own(k) \cap (Panels \cup {"main"}) = {} /\ Own(k) \cap old = {} /\ Own(k) \cap new = {}
      BY <1>1, <1>2, OwnFacts
    <2>2. QED BY <1>2, <2>1
  <1> HIDE DEF made, vs, old, new
  <1>8. GuiInv(made)
    <2>1. g.kind \notin Overlays \cup {"none"} => g.kind \in Kinds \ overlays
      BY DEF Gui, Overlays
    <2>2. g.kind \in Fielded => g.kind \in Kinds \ overlays
      BY FieldedAre, KindsAre
    <2>3. QED BY <1>6, <1>7, <2>1, <2>2 DEF GuiInv
  <1>9. "rename-input" \in vs <=> "rename-input" \in g.views
    BY <1>7, KindsAre, ViewsAre
  <1>10. Drawn(g, made)
    BY <1>6, <1>8, <1>9 DEF Drawn
  <1>11. CASE popup = "shown"
    BY <1>5, <1>10, <1>11
  <1>12. CASE popup # "shown" /\ g.kind # "none"
    <2>1. FocusView(made) \in Own(g.kind) \cap vs
      BY <1>6, <1>7, <1>8, <1>12, FocusViewFacts DEF Overlays
    <2>2. FocusView(made) \in Places
      BY <1>4, <2>1
    <2>3. Split(g) = Focused(made, FocusView(made))
      BY <1>5, <1>12
    <2>4. Drawn(made, Split(g))
      BY <1>6, <1>8, <1>12, <2>1, <2>2, <2>3, FocusDrawn
    <2>5. Split(g).current = FocusView(made) /\ Split(g).views = vs
      BY <1>6, <2>1, <2>2, <2>3, FocusedFacts
    <2>6. Drawn(g, Split(g))
      BY <1>6, <1>9, <2>1, <2>4, <2>5 DEF Drawn
    <2>7. QED BY <1>12, <2>1, <2>5, <2>6
  <1>13. CASE popup # "shown" /\ g.kind = "none"
    <2>1. panel \in Places /\ panel \in vs
      BY <1>3, <1>7
    <2>2. Split(g) = Focused(made, panel)
      BY <1>5, <1>13
    <2>3. Drawn(made, Split(g))
      BY <1>6, <1>8, <2>1, <2>2, FocusDrawn
    <2>4. Split(g).current = panel /\ Split(g).views = vs
      BY <1>6, <2>1, <2>2, FocusedFacts
    <2>5. Drawn(g, Split(g))
      BY <1>6, <1>9, <2>1, <2>3, <2>4 DEF Drawn
    <2>6. QED BY <1>13, <2>4, <2>5
  <1>14. QED BY <1>11, <1>12, <1>13

\* layoutFullScreen keeps the dialog and puts the focus on the main view.
LEMMA WholeFacts ==
  ASSUME NEW g \in Gui, GuiInv(g)
  PROVE  Drawn(g, Whole(g)) /\ (full \in alive => Whole(g).current = "main")
  <1> DEFINE made == [g EXCEPT !.views = @ \ {"sessions", "logs"}]
  <1>1. /\ made \in Gui /\ made.kind = g.kind /\ made.field = g.field /\ made.renaming = g.renaming
        /\ made.views = g.views \ {"sessions", "logs"} /\ made.current = g.current
    BY DEF Gui
  <1>2. Whole(g) = IF full \in alive THEN Focused(made, "main") ELSE made
    BY DEF Whole
  <1> HIDE DEF made
  <1>3. \A k \in Kinds : Own(k) \cap {"sessions", "logs"} = {}
    BY OwnFacts DEF Panels
  <1>4. g.kind \in Fielded => g.kind \in Kinds
    BY FieldedAre, KindsAre
  <1>5. GuiInv(made)
    <2>1. g.kind \notin Overlays \cup {"none"} => g.kind \in Kinds
      BY DEF Gui
    <2>2. QED BY <1>1, <1>3, <1>4, <2>1 DEF GuiInv
  <1>6. Drawn(g, made)
    BY <1>1, <1>5 DEF Drawn
  <1>7. "main" \in made.views /\ "main" \in Places
    BY <1>1 DEF GuiInv, Places
  <1>8. CASE full \in alive
    <2>1. Drawn(made, Whole(g)) /\ Whole(g).current = "main" /\ Whole(g).views = made.views
      BY <1>1, <1>2, <1>5, <1>7, <1>8, FocusDrawn, FocusedFacts
    <2>2. QED BY <1>1, <1>7, <2>1 DEF Drawn
  <1>9. QED BY <1>2, <1>6, <1>8

\* After a layout the focus is where the screen says.
LEMMA LayoutKeeps ==
  ASSUME IInv, Layout
  PROVE  IInv'
  <1> DEFINE drawn == IF full = NoSession THEN Split(gui) ELSE Whole(gui)
             gone == full \notin alive \cup {NoSession}
  <1>1. /\ Running /\ gui' = IF popup = "shown" THEN [drawn EXCEPT !.current = "tool-popup"] ELSE drawn
        /\ mainEdits' = (full # NoSession /\ (gone \/ ~scroll))
        /\ full' = IF gone THEN NoSession ELSE full
        /\ laid' = ~gone
        /\ UNCHANGED <<alive, panel, popup, scroll, updates, named, askVars, ssh, calls, popped>>
    BY Zenon DEF Layout
  <1>2. gui \in Gui /\ GuiInv(gui) /\ panel \in Panels
    BY DEF IInv, TypeInv, GuiTypes, ScreenTypes, FocusInv
  <1>3. Drawn(gui, drawn)
    BY <1>2, SplitFacts, WholeFacts
  <1>4. /\ full # NoSession /\ ~gone => drawn.current = "main"
        /\ popup # "shown" /\ full = NoSession /\ gui.kind # "none" => drawn.current \in Own(gui.kind) \cap drawn.views
        /\ popup # "shown" /\ full = NoSession /\ gui.kind = "none" => drawn.current = panel
    BY <1>2, SplitFacts, WholeFacts
  <1> HIDE DEF drawn
  <1>5. /\ gui' \in Gui /\ gui'.kind = gui.kind /\ gui'.renaming = gui.renaming
        /\ gui'.views = drawn.views /\ gui'.field = drawn.field
        /\ gui'.current = IF popup = "shown" THEN "tool-popup" ELSE drawn.current
    BY <1>1, <1>3 DEF Drawn, Gui, Places
  <1>6. GuiInv(gui')
    <2>1. \A k \in Kinds : "tool-popup" \notin Own(k)
      BY OwnFacts
    <2>2. QED BY <1>3, <1>5, <2>1 DEF Drawn, GuiInv
  <1>7. RenameInv'
    <2>1. /\ "rename-input" \in gui'.views <=> "rename-input" \in gui.views
          /\ gui'.current = "rename-input" => gui.current = "rename-input" \/ "rename-input" \in gui.views
      BY <1>3, <1>5 DEF Drawn
    <2>2. QED BY <1>1, <1>5, <2>1, RenameFrame DEF IInv
  <1>8. TypeInv'
    <2>1. ScreenTypes'
      BY <1>1 DEF IInv, TypeInv, ScreenTypes
    <2>2. GuiTypes' /\ UpdateTypes' /\ CallTypes'
      BY <1>1, <1>5 DEF IInv, TypeInv, GuiTypes, UpdateTypes, CallTypes
    <2>3. AskTypes'
      BY <1>1, AskTypesFrame DEF IInv, TypeInv
    <2>4. QED BY <2>1, <2>2, <2>3 DEF TypeInv
  <1>9. FocusInv'
    <2>1. Running'
      BY <1>1 DEF Running, askVars
    <2>2. ASSUME laid' PROVE DialogHasFocus'
      <3>1. ~gone /\ full' = full /\ popup' = popup /\ panel' = panel
        BY <1>1, <2>2
      <3>2. QED BY <1>4, <1>5, <3>1 DEF DialogHasFocus
    <2>3. DialogHasFocus'
      BY <2>2 DEF DialogHasFocus
    <2>4. QED BY <1>6, <2>1, <2>3 DEF FocusInv
  <1>10. AskInv'
    BY <1>1, AskFrame DEF IInv
  <1>11. QED BY <1>7, <1>8, <1>9, <1>10 DEF IInv

-----------------------------------------------------------------------------
(* Popups, sessions and ssh                                                *)

\* Popups and sessions that go: the screen has to be laid out again.
LEMMA PopupOrVanishKeeps ==
  ASSUME IInv, NewPopup \/ \E s \in Sessions : Vanish(s)
  PROVE  IInv'
  <1>1. /\ laid' = FALSE /\ UNCHANGED <<panel, full, scroll, gui, mainEdits, updates, named, askVars, ssh>>
        /\ popup' \in {popup, "shown"} /\ alive' \subseteq alive
        /\ calls' = calls \/ (calls < MaxCalls /\ calls' = calls + 1)
        /\ popped' = popped \/ (popped < MaxPopups /\ popped' = popped + 1)
    BY DEF NewPopup, Vanish, screen
  <1>2. ScreenTypes' /\ GuiTypes' /\ UpdateTypes'
    BY <1>1 DEF IInv, TypeInv, ScreenTypes, GuiTypes, UpdateTypes
  <1>3. AskTypes' /\ CallTypes'
    BY <1>1, AskTypesFrame, ConstantsAssumption DEF IInv, TypeInv, CallTypes
  <1>4. QED BY <1>1, <1>2, <1>3, ScreenKeeps DEF TypeInv

\* Steps of ssh processes and of a stopped loop leave the screen as it is.
LEMMA SshKeeps ==
  ASSUME IInv, UNCHANGED <<alive, screen, gui, laidOut, named>>, UpdateTypes', RenameInv', AskTypes', AskInv', CallTypes',
         laid => Running'
  PROVE  IInv'
  <1>1. UNCHANGED <<alive, panel, popup, full, scroll, gui, mainEdits, laid, named>>
    BY DEF screen, laidOut
  <1>2. ScreenTypes' /\ GuiTypes'
    BY <1>1 DEF IInv, TypeInv, ScreenTypes, GuiTypes
  <1>3. FocusInv'
    BY <1>1 DEF IInv, FocusInv, DialogHasFocus
  <1>4. QED BY <1>2, <1>3 DEF IInv, TypeInv

\* Password prompts: asked, taken, answered, timed out.
LEMMA ProcessKeeps ==
  ASSUME IInv, NEW p \in Prompts, AskProcess(p) \/ Ssh(p)
  PROVE  IInv'
  <1>1. CASE AskProcess(p) \/ Timeout(p)
    <2>1. /\ UNCHANGED <<alive, screen, gui, laidOut, updates, named, askVars, popped>>
          /\ ssh' \in {[ssh EXCEPT ![p] = "waiting"], [ssh EXCEPT ![p] = "done"]}
          /\ calls' = calls \/ (calls < MaxCalls /\ calls' = calls + 1)
      BY <1>1 DEF AskProcess, Timeout
    <2>2. CallTypes'
      BY <2>1, ConstantsAssumption DEF IInv, TypeInv, CallTypes
    <2>3. UpdateTypes' /\ RenameInv'
      BY <2>1, RenameFrame DEF IInv, TypeInv, UpdateTypes
    <2>4. AskTypes' /\ AskInv'
      BY <2>1, AskFrame, AskTypesFrame DEF IInv, TypeInv
    <2>5. laid => Running'
      BY <2>1 DEF IInv, FocusInv, Running, askVars
    <2>6. QED BY <2>1, <2>2, <2>3, <2>4, <2>5, SshKeeps
  <1>2. CASE TakeHandler(p)
    <2> DEFINE x == [show |-> "askpass", of |-> p]
    <2>1. /\ UNCHANGED <<alive, screen, gui, laidOut, named, askVars, calls, popped>>
          /\ ssh' = [ssh EXCEPT ![p] = "asked"] /\ updates' = updates (+) SetToBag({x})
      BY <1>2 DEF TakeHandler, Post
    <2>2. x \in Posted /\ x.show # "rename"
      BY DEF Posted
    <2> HIDE DEF x
    <2>3. /\ IsABag(updates') /\ DOMAIN updates' = DOMAIN updates \cup {x}
          /\ \A y \in DOMAIN updates : y # x => updates'[y] = updates[y]
      <3>1. IsABag(updates)
        BY DEF IInv, TypeInv, UpdateTypes
      <3>2. QED BY <2>1, <3>1, PostFacts
    <2>4. CallTypes' /\ UpdateTypes'
      BY <2>1, <2>2, <2>3 DEF IInv, TypeInv, CallTypes, UpdateTypes
    <2>5. RenameInv'
      BY <2>1, <2>2, <2>3 DEF IInv, RenameInv, BagToSet
    <2>6. AskTypes' /\ AskInv'
      BY <2>1, AskFrame, AskTypesFrame DEF IInv, TypeInv
    <2>7. laid => Running'
      BY <2>1 DEF IInv, FocusInv, Running, askVars
    <2>8. QED BY <2>1, <2>4, <2>5, <2>6, <2>7, SshKeeps
  <1>3. CASE Receive(p)
    <2>1. /\ UNCHANGED <<alive, screen, gui, laidOut, updates, named, titled, typed, askpassCh, stuck, calls, popped>>
          /\ ssh' = [ssh EXCEPT ![p] = "done"] /\ channel' = [channel EXCEPT ![p] = Free]
      BY <1>3 DEF Receive
    <2>2. CallTypes' /\ UpdateTypes' /\ RenameInv'
      BY <2>1, RenameFrame DEF IInv, TypeInv, CallTypes, UpdateTypes
    <2>3. AskTypes' /\ AskInv'
      BY <2>1 DEF IInv, TypeInv, AskTypes, AskInv
    <2>4. laid => Running'
      BY <2>1 DEF IInv, FocusInv, Running
    <2>5. QED BY <2>1, <2>2, <2>3, <2>4, SshKeeps
  <1>4. QED BY <1>1, <1>2, <1>3 DEF Ssh

\* The send of a stopped event loop completes.
LEMMA UnstickKeeps ==
  ASSUME IInv, Unstick
  PROVE  IInv'
  <1>1. /\ UNCHANGED <<alive, screen, gui, laidOut, updates, named, titled, typed, askpassCh, ssh, calls, popped>>
        /\ stuck # Free /\ channel' = [channel EXCEPT ![askpassCh] = stuck] /\ stuck' = Free
    BY DEF Unstick, Running
  <1>2. CallTypes' /\ UpdateTypes' /\ RenameInv'
    BY <1>1, RenameFrame DEF IInv, TypeInv, CallTypes, UpdateTypes
  <1>3. AskTypes' /\ AskInv'
    BY <1>1 DEF IInv, TypeInv, AskTypes, AskInv
  <1>4. laid => Running'
    BY <1>1 DEF Running
  <1>5. QED BY <1>1, <1>2, <1>3, <1>4, SshKeeps

-----------------------------------------------------------------------------
(* The theorems                                                            *)

\* The first screen.
LEMMA InitIInv == Init => IInv
  <1> SUFFICES ASSUME Init PROVE IInv
    OBVIOUS
  <1>1. ScreenTypes /\ CallTypes /\ AskTypes
    <2>1. ScreenTypes
      BY DEF Init, ScreenTypes, Panels
    <2>2. CallTypes
      <3>1. calls \in 0 .. MaxCalls /\ popped \in 0 .. MaxPopups
        <4>1. calls = 0 /\ popped = 0
          BY DEF Init
        <4>2. QED BY <4>1, ConstantsAssumption
      <3>2. ssh \in [Prompts -> {"off", "waiting", "asked", "done"}]
        BY DEF Init
      <3>3. QED BY <3>1, <3>2 DEF CallTypes
    <2>3. AskTypes
      BY DEF Init, AskTypes
    <2>4. QED BY <2>1, <2>2, <2>3
  <1>2. UpdateTypes /\ DOMAIN updates = {}
    BY DEF Init, UpdateTypes, EmptyBag, SetToBag, IsABag
  <1>3. GuiTypes
    BY DEF Init, GuiTypes, Gui, Places, Panels
  <1>4. FocusInv
    BY FieldedAre DEF Init, FocusInv, GuiInv, DialogHasFocus, Running, Overlays
  <1>5. AskInv
    BY DEF Init, AskInv
  <1>6. RenameInv
    BY <1>2 DEF Init, RenameInv, BagToSet, Panels
  <1>7. QED BY <1>1, <1>2, <1>3, <1>4, <1>5, <1>6 DEF IInv, TypeInv

\* Every step keeps the invariant.
LEMMA NextIInv == IInv /\ [Next]_vars => IInv'
  <1> SUFFICES ASSUME IInv, [Next]_vars PROVE IInv'
    OBVIOUS
  <1>1. CASE User
    BY <1>1, PressKeyKeeps DEF User
  <1>2. CASE \E u \in BagToSet(updates) : RunUpdate(u)
    BY <1>2, RunUpdateKeeps
  <1>3. CASE Layout
    BY <1>3, LayoutKeeps
  <1>4. CASE NewPopup \/ \E s \in Sessions : Vanish(s)
    BY <1>4, PopupOrVanishKeeps
  <1>5. CASE Unstick
    BY <1>5, UnstickKeeps
  <1>6. CASE \E p \in Prompts : AskProcess(p) \/ Ssh(p)
    BY <1>6, ProcessKeeps
  <1>7. CASE UNCHANGED vars
    BY <1>7 DEF vars, screen, laidOut, askVars, IInv, TypeInv, ScreenTypes, GuiTypes, UpdateTypes, AskTypes, CallTypes,
                FocusInv, DialogHasFocus, Running, AskInv, RenameInv, BagToSet
  <1>8. QED BY <1>1, <1>2, <1>3, <1>4, <1>5, <1>6, <1>7 DEF Next

\* The invariant holds throughout.
LEMMA Invariant == Spec => []IInv
  BY InitIInv, NextIInv, PTL DEF Spec

\* For any sessions, prompts, calls and popups every variable keeps its type.
THEOREM TypeCorrect == Spec => []TypeInv
  <1>1. IInv => TypeInv
    BY DEF IInv
  <1>2. QED BY <1>1, Invariant, PTL

\* When the screen has settled, keys go where the screen says.
THEOREM FocusFollowsTheScreen == Spec => []DialogHasFocus
  <1>1. IInv => DialogHasFocus
    BY DEF IInv, FocusInv
  <1>2. QED BY <1>1, Invariant, PTL

\* What is typed goes where the title says.
THEOREM InputsReachTheirTitle == Spec => []InputsMatchTitles
  <1>1. IInv => InputsMatchTitles
    BY DEF IInv, AskInv, RenameInv, InputsMatchTitles
  <1>2. QED BY <1>1, Invariant, PTL
=============================================================================
