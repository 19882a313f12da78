-------------------------------- MODULE Screen --------------------------------
(***************************************************************************)
(* The screen of the TUI (gui/app.go, layout.go, state.go, keydispatch):   *)
(* the session tree with its cursor, full screen, and the order in which a *)
(* key is offered to popups, scroll mode and the forwarder.  Composes      *)
(* PopupStack, KeyForwarder and Scrollback; each key is one event of the   *)
(* main loop, which lays the screen out between events.                    *)
(*                                                                         *)
(* The tree is one project: row 0 is its header, the sessions follow when  *)
(* it is expanded.  A session stands for its id, its window and its target.*)
(***************************************************************************)
EXTENDS PopupStack, KeyForwarder, Scrollback, FiniteSets

CONSTANTS
  Sessions,    (* naturals, in the order of the tree                       *)
  Visits,      (* what an execution is about: "popups", "keys", "scroll",
                  "changes"                                                 *)
  MaxKeys,     (* bound: keys offered to the forwarder                     *)
  MaxChanges,  (* bound: changes of the sessions and the history           *)
  MaxGen       (* bound: generations of the scroll mode                    *)

ASSUME ScreenAssumption ==
  /\ Sessions \subseteq Nat \ {0} /\ Sessions = Targets
  /\ Visits \subseteq {"popups", "keys", "scroll", "changes"}
  /\ MaxKeys \in Nat /\ MaxChanges \in Nat /\ MaxGen \in Nat

VARIABLES
  sessions,  (* the sessions the provider has                              *)
  expanded,  (* the project shows its sessions                             *)
  rows,      (* cachedNodes: the sessions in the tree at the last refresh  *)
  items,     (* cachedSessionItems: refreshed by a goroutine               *)
  cursor,    (* a.cursor                                                   *)
  full,      (* fullscreen.target, 0 when it is not active                 *)
  home,      (* the session of each popup that arrived                     *)
  visit, keys, changes  (* the kind of execution and its counters          *)

treeVars == <<sessions, expanded, rows, items, cursor, full, home>>
screenVars == <<vars, forwarderVars, scrollVars, treeVars, visit, keys, changes>>

Ascending(S) == SetToSortSeq(S, LAMBDA a, b : a < b)

\* BuildTreeNodes, without the header.
TreeOf(shown) == IF shown THEN Ascending(sessions) ELSE <<>>

\* currentSession: 0 on the header or below the last row.
AtCursor == IF cursor \in DOMAIN rows THEN rows[cursor] ELSE 0

ScreenTypeOK ==
  /\ TypeOK /\ ForwarderTypeOK /\ ScrollTypeOK
  /\ sessions \subseteq Sessions /\ expanded \in BOOLEAN
  /\ rows \in Seq(Sessions) /\ items \subseteq Sessions
  /\ cursor \in Nat
  /\ full \in Sessions \cup {0}
  /\ home \in [Popups -> Sessions \cup {0}]
  /\ visit \in Visits /\ keys \in 0 .. MaxKeys /\ changes \in 0 .. MaxChanges

ScreenInit ==
  /\ Init /\ ForwarderInit /\ ScrollInit
  /\ sessions = Sessions /\ expanded = TRUE /\ rows = TreeOf(TRUE) /\ items = Sessions
  /\ cursor = 0 /\ full = 0
  /\ home = [p \in Popups |-> 0]
  /\ visit \in Visits /\ keys = 0 /\ changes = 0
  /\ visit # "scroll" => history = 0

\* The bounds of a visit: an execution goes deep in one direction, or a
\* little way in all of them ("changes").
PopupBound == IF visit = "popups" THEN Cardinality(Popups) ELSE IF visit = "changes" THEN 1 ELSE 0
KeyBound == IF visit = "keys" THEN MaxKeys ELSE IF visit = "changes" THEN 1 ELSE 0
ChangeBound == IF visit = "changes" THEN MaxChanges ELSE 0
GenBound == IF visit = "scroll" THEN MaxGen ELSE IF visit = "changes" THEN 1 ELSE 0

InPopup == HasVisible(stack)
InFullScreen == full # 0
Counters == <<visit, keys, changes>>

-----------------------------------------------------------------------------
(* Full screen, the tree and the layout.                                   *)

\* Where enterFullScreen and PopupJumpToSession put the cursor: the row of
\* the session in the tree t, if it has one.
CursorAt(t, s) == IF s \in ToSet(t) THEN CHOOSE i \in DOMAIN t : t[i] = s ELSE cursor

EnterFullScreen ==
  /\ ~InPopup /\ ~InFullScreen /\ AtCursor \in Sessions
  /\ full' = AtCursor
  /\ rows' = TreeOf(expanded)
  /\ cursor' = CursorAt(rows', AtCursor)
  /\ UNCHANGED <<vars, forwarderVars, scrollVars, sessions, expanded, items, home, Counters>>

ExitFullScreen ==
  /\ ~InPopup /\ InFullScreen /\ ~scrolling
  /\ full' = 0
  /\ UNCHANGED <<vars, forwarderVars, scrollVars, sessions, expanded, rows, items, cursor, home, Counters>>

MoveCursor ==
  /\ ~InPopup /\ ~InFullScreen
  /\ \/ cursor < Len(rows) /\ cursor' = cursor + 1
     \/ cursor > 0 /\ cursor' = cursor - 1
  /\ UNCHANGED <<vars, forwarderVars, scrollVars, sessions, expanded, rows, items, full, home, Counters>>

ToggleProject ==
  /\ ~InPopup /\ ~InFullScreen /\ cursor = 0 /\ visit \in {"popups", "changes"}
  /\ expanded' = ~expanded
  /\ rows' = TreeOf(~expanded)
  /\ UNCHANGED <<vars, forwarderVars, scrollVars, sessions, items, cursor, full, home, Counters>>

\* Sessions come and go under the screen: the collector, the mirrors of a
\* remote host, another instance, an operation that has just finished.
SessionsChange ==
  /\ changes < ChangeBound /\ changes' = changes + 1
  /\ \E s \in Sessions : sessions' = IF s \in sessions THEN sessions \ {s} ELSE sessions \cup {s}
  /\ UNCHANGED <<vars, forwarderVars, scrollVars, expanded, rows, items, cursor, full, home, visit, keys>>

\* refreshSessionsAsync.
RefreshItems ==
  /\ items # sessions /\ items' = sessions
  /\ UNCHANGED <<vars, forwarderVars, scrollVars, sessions, expanded, rows, cursor, full, home, Counters>>

\* layout: rebuilds the tree; full screen ends when its session is not in
\* the item cache, the split view pulls the cursor back into the tree.
DoLayout ==
  /\ rows' = TreeOf(expanded)
  /\ full' = IF full \in items THEN full ELSE 0
  /\ cursor' = IF ~InFullScreen THEN Least(cursor, Len(rows')) ELSE cursor
  /\ <<rows', full', cursor'>> # <<rows, full, cursor>>
  /\ UNCHANGED <<vars, forwarderVars, scrollVars, sessions, expanded, items, home, Counters>>

-----------------------------------------------------------------------------
(* Popups                                                                  *)

Undisturbed == UNCHANGED <<forwarderVars, scrollVars, treeVars, Counters>>

\* showToolPopup, unless the session is the one on full screen.
ShowToolPopup ==
  /\ Cardinality(InStack \cup answered) < PopupBound
  /\ \E p \in Popups, s \in Sessions :
       /\ ~(full = s /\ s \in ToSet(rows))
       /\ PushPopup(p)
       /\ home' = [home EXCEPT ![p] = s]
  /\ UNCHANGED <<forwarderVars, scrollVars, sessions, expanded, rows, items, cursor, full, Counters>>

\* Keys of a visible popup; none of them reaches what is below.
PopupKey == (DismissActive \/ DismissAll \/ SuspendAll \/ FocusNext \/ FocusPrev) /\ Undisturbed

\* p in the split view.
UnsuspendKey == ~InFullScreen /\ UnsuspendAll /\ Undisturbed

\* PopupJumpToSession: also in full screen, which it does not leave.
PopupJumpToSession ==
  /\ InPopup
  /\ LET s == home[stack[focusIdx + 1].popup]
         expands == s \in sessions /\ ~expanded
         shown == IF expands THEN TreeOf(TRUE) ELSE rows
     IN /\ expanded' = (expanded \/ expands)
        /\ rows' = shown
        /\ IF s \in ToSet(shown)
           THEN cursor' = CursorAt(shown, s) /\ SuspendAll
           ELSE UNCHANGED <<cursor, vars>>
  /\ UNCHANGED <<forwarderVars, scrollVars, sessions, items, full, home, Counters>>

-----------------------------------------------------------------------------
(* Keys for the session, and scroll mode                                   *)

\* forwardKey, forwardSpecialKey: the target is the session at the cursor.
ForwardKey ==
  /\ ~InPopup /\ InFullScreen /\ ~scrolling /\ AtCursor \in Sessions
  /\ keys < KeyBound /\ keys' = keys + 1
  /\ \E literal \in BOOLEAN : Enqueue(AtCursor, literal)
  /\ UNCHANGED <<vars, scrollVars, treeVars, visit, changes>>

RunKeyForwarder == ForwarderStep /\ UNCHANGED <<vars, scrollVars, treeVars, Counters>>

Quit == visit = "keys" /\ CloseDone /\ UNCHANGED <<vars, scrollVars, treeVars, Counters>>

\* Keys wait for the popups to go, the wheel does not.
ScrollInput ==
  /\ InFullScreen /\ generation < GenBound
  /\ \/ ~InPopup /\ ScrollKey
     \/ Wheel
  /\ UNCHANGED <<vars, forwarderVars, treeVars, Counters>>

RunCapture == CaptureStep /\ UNCHANGED <<vars, forwarderVars, treeVars, Counters>>

PaneChanges ==
  /\ visit = "scroll" /\ changes < MaxChanges /\ changes' = changes + 1
  /\ HistoryChanges
  /\ UNCHANGED <<vars, forwarderVars, treeVars, visit, keys>>

\* Once Run has returned only the forwarder goes on.
MainLoop ==
  \/ EnterFullScreen \/ ExitFullScreen \/ MoveCursor \/ ToggleProject
  \/ SessionsChange \/ RefreshItems \/ DoLayout
  \/ ShowToolPopup \/ PopupKey \/ UnsuspendKey \/ PopupJumpToSession
  \/ ForwardKey \/ ScrollInput \/ RunCapture \/ PaneChanges \/ Quit

ScreenNext == (~done /\ MainLoop) \/ RunKeyForwarder

ScreenSpec == ScreenInit /\ [][ScreenNext]_screenVars

\* Goroutines that were started go on.  Nobody has to press a key.
ScreenFairSpec ==
  /\ ScreenSpec
  /\ WF_screenVars(RunKeyForwarder)
  /\ WF_screenVars(~done /\ RunCapture)

-----------------------------------------------------------------------------
(* Properties                                                              *)

\* What the goroutines behind full screen were started for is done: accepted
\* keys are sent, and scroll mode gets lines to show.
BackgroundWorkEnds == KeysAreSent /\ ScrollLoads
=============================================================================
