-------------------------------- MODULE KeyMap --------------------------------
(***************************************************************************)
(* The key bindings of gui/keymap/registry.go, the single source that the  *)
(* panels, the popups, full screen, scroll mode and the help share, and    *)
(* the chain in which gui/keydispatch offers a key to them.  A key is the   *)
(* rune it types or the name of a special key; labels and hints are left   *)
(* out.                                                                     *)
(***************************************************************************)
EXTENDS Naturals, FiniteSets

Tabs == {"MCP", "Plugins", "Marketplace"}
AllTabs == Tabs \cup {"none"}

\* An action definition, with the tabs it is active in.
Def(action, keys) == [action |-> action, keys |-> keys, tabs |-> AllTabs]
InTab(tab, action, keys) == [action |-> action, keys |-> keys, tabs |-> {tab}]

GlobalDefs ==
  {Def("quit", {"q", "CtrlC", "CtrlBackslash"}),
   Def("focusNextPanel", {"Tab"}), Def("focusPrevPanel", {"Backtab"}),
   Def("unsuspendPopups", {"p"}),
   Def("panelNextTab", {"]"}), Def("panelPrevTab", {"["}),
   Def("showKeybindHelp", {"?"})}

SessionDefs ==
  {Def("cursorDown", {"j", "Down"}), Def("cursorUp", {"k", "Up"}),
   Def("collapseProject", {"h", "Left"}), Def("expandProject", {"l", "Right"}),
   Def("newSession", {"n"}), Def("newSessionCWD", {"N"}), Def("startPMSession", {"P"}),
   Def("deleteSession", {"d"}), Def("purgeOrphans", {"D"}),
   Def("attachSession", {"a"}), Def("launchLazygit", {"g"}),
   Def("enterFull", {"Enter"}), Def("enterFullR", {"r"}),
   Def("startRename", {"R"}), Def("startWorktree", {"w"}), Def("selectWorktree", {"W"}),
   Def("sendKey", {"1", "2", "3"}), Def("connectRemote", {"c"})}

ErrorDefs == {Def("dismissError", {"Esc"}), Def("copyError", {"CtrlV"})}

McpTabDefs ==
  {InTab("MCP", "mcpCursorDown", {"j", "Down"}), InTab("MCP", "mcpCursorUp", {"k", "Up"}),
   InTab("MCP", "mcpToggleDenied", {"e"}), InTab("MCP", "mcpRefresh", {"r"})}

PluginsTabDefs ==
  {InTab("Plugins", "pluginCursorDown", {"j", "Down"}), InTab("Plugins", "pluginCursorUp", {"k", "Up"}),
   InTab("Plugins", "pluginToggleEnabled", {"e"}), InTab("Plugins", "pluginUninstall", {"d"}),
   InTab("Plugins", "pluginUpdate", {"u"}), InTab("Plugins", "pluginRefresh", {"r"})}

MarketplaceDefs ==
  {InTab("Marketplace", "pluginCursorDown", {"j", "Down"}), InTab("Marketplace", "pluginCursorUp", {"k", "Up"}),
   InTab("Marketplace", "pluginInstall", {"i"}), InTab("Marketplace", "pluginRefresh", {"r"})}

LogDefs ==
  {Def("logsCursorDown", {"j", "Down"}), Def("logsCursorUp", {"k", "Up"}),
   Def("logsCursorToEnd", {"G"}), Def("logsCursorToTop", {"g"}),
   Def("logsToggleSelect", {"v"}), Def("logsCopySelection", {"y"}), Def("logsClear", {"c"})}

SearchDefs == {Def("startSearch", {"/"})}

PopupDefs ==
  {Def("popupAccept", {"CtrlY", "1"}), Def("popupAllow", {"CtrlA", "2"}), Def("popupReject", {"CtrlN", "3"}),
   Def("popupAcceptAll", {"Y"}), Def("popupSuspend", {"Esc"}),
   Def("popupFocusNext", {"Down"}), Def("popupFocusPrev", {"Up"}),
   Def("popupScrollDown", {"j"}), Def("popupScrollUp", {"k"}), Def("popupJumpToSession", {"f"})}

FullScreenDefs ==
  {Def("exitFull", {"CtrlBackslash", "CtrlD"}), Def("forwardEnter", {"Enter"}), Def("forwardEsc", {"Esc"}),
   Def("forwardDown", {"Down"}), Def("forwardUp", {"Up"}), Def("scrollEnter", {"CtrlV"})}

ScrollDefs ==
  {Def("scrollUp", {"k", "Up"}), Def("scrollDown", {"j", "Down"}),
   Def("scrollHalfUp", {"Pgup", "K"}), Def("scrollHalfDown", {"Pgdn", "J"}),
   Def("scrollToTop", {"g"}), Def("scrollToBottom", {"G"}),
   Def("scrollToggleSelect", {"v"}), Def("scrollCopy", {"y"}), Def("scrollExit", {"Esc", "q"})}

\* Default: the definitions of each scope.
Default ==
  [global |-> GlobalDefs,
   sessions |-> SessionDefs \cup ErrorDefs \cup SearchDefs,
   plugins |-> McpTabDefs \cup PluginsTabDefs \cup MarketplaceDefs \cup SearchDefs,
   logs |-> LogDefs \cup SearchDefs,
   popup |-> PopupDefs, fullscreen |-> FullScreenDefs, scroll |-> ScrollDefs]

Scopes == DOMAIN Default

\* BindingsForScopeTab.
BindingsForScopeTab(scope, tab) == {d \in Default[scope] : tab \in d.tabs}

\* Runes and SpecialKeys of all scopes: the keys with a global binding of
\* gocui.
Keys == UNION {d.keys : d \in UNION {Default[s] : s \in Scopes}}

\* MatchTab; the code takes the first match, and there is one at most.
MatchTab(key, scope, tab) ==
  LET hits == {d \in BindingsForScopeTab(scope, tab) : key \in d.keys}
  IN IF hits = {} THEN "unbound" ELSE (CHOOSE d \in hits : TRUE).action

Match(key, scope) == MatchTab(key, scope, "none")

\* No key stands for two actions of one scope and tab: which action a key
\* is does not depend on the order of registration.
ASSUME KeysAreUnambiguous ==
  \A s \in Scopes, t \in AllTabs : \A c, d \in BindingsForScopeTab(s, t) : c.keys \cap d.keys # {} => c = d

\* Dispatch: popups consume every key, scroll mode too; full screen hands the
\* keys it does not bind to the global scope, past the panel.
Dispatch(key, popup, full, scroll, panel, tab) ==
  LET global == Match(key, "global")
      own == MatchTab(key, panel, tab)
      screen == Match(key, "fullscreen")
  IN CASE popup -> Match(key, "popup")
       [] ~popup /\ full /\ scroll -> Match(key, "scroll")
       [] ~popup /\ full /\ ~scroll -> IF screen # "unbound" THEN screen ELSE global
       [] OTHER -> IF own # "unbound" THEN own ELSE global
=============================================================================
