------------------------------ MODULE PopupStack ------------------------------
(***************************************************************************)
(* The stack of permission popups of the TUI (gui/popup_controller.go) and *)
(* the keys that work on it (keyhandler/popup.go, global.go, the popup     *)
(* section of app_actions.go).  Popups are hidden with Esc and brought     *)
(* back with p; new ones arrive at any time.  Everything runs on the event *)
(* loop.  focusIdx keeps the 0-based index of the source.                  *)
(***************************************************************************)
EXTENDS Integers, Sequences, SequencesExt

CONSTANT Popups   (* the popups that may arrive, each of them once *)

VARIABLES
  stack,      (* PopupController.stack                          *)
  focusIdx,   (* PopupController.focusIdx                       *)
  answered    (* the popups whose choice was sent to the window *)

vars == <<stack, focusIdx, answered>>

Entry == [popup : Popups, suspended : BOOLEAN]

TypeOK == stack \in Seq(Entry) /\ focusIdx \in -1 .. Len(stack) /\ answered \in SUBSET Popups

Init == stack = <<>> /\ focusIdx = 0 /\ answered = {}

Indices(s) == 0 .. Len(s) - 1
Visible(s, i) == ~s[i + 1].suspended
HasVisible(s) == \E i \in Indices(s) : Visible(s, i)
InStack == {stack[i].popup : i \in DOMAIN stack}

\* The focus g after f: the first visible entry at +1, +2, ... around the
\* stack, or f itself when every entry is suspended.
FocusNextIs(s, f, g) ==
  \/ \E i \in Indices(s) :
       /\ g = (f + 1 + i) % Len(s) /\ Visible(s, g)
       /\ \A j \in 0 .. i - 1 : ~Visible(s, (f + 1 + j) % Len(s))
  \/ ~HasVisible(s) /\ g = f

FocusPrevIs(s, f, g) ==
  \/ \E i \in Indices(s) :
       /\ g = (f - 1 - i + Len(s)) % Len(s) /\ Visible(s, g)
       /\ \A j \in 0 .. i - 1 : ~Visible(s, (f - 1 - j + Len(s)) % Len(s))
  \/ ~HasVisible(s) /\ g = f

\* showToolPopup: a new popup is visible and takes the focus.
PushPopup(p) ==
  /\ p \notin InStack \cup answered
  /\ stack' = Append(stack, [popup |-> p, suspended |-> FALSE])
  /\ focusIdx' = Len(stack)
  /\ UNCHANGED answered

Clamp(f, n) == IF f >= n THEN n - 1 ELSE f

\* Mutants of DismissActive: the focus is not pulled back into the stack; the
\* popup stays on the stack.
DismissUnclamped ==
  /\ HasVisible(stack) /\ focusIdx \in Indices(stack)
  /\ stack' = RemoveAt(stack, focusIdx + 1)
  /\ UNCHANGED focusIdx
  /\ answered' = answered \cup {stack[focusIdx + 1].popup}

DismissKeeps ==
  /\ HasVisible(stack) /\ focusIdx \in Indices(stack)
  /\ answered' = answered \cup {stack[focusIdx + 1].popup}
  /\ UNCHANGED <<stack, focusIdx>>

\* A choice for the focused popup; focus moves on when it falls on a
\* suspended one.
DismissActive ==
  /\ HasVisible(stack) /\ focusIdx \in Indices(stack)
  /\ stack' = RemoveAt(stack, focusIdx + 1)
  /\ LET f == Clamp(focusIdx, Len(stack) - 1)
     IN IF f \in Indices(stack') /\ ~Visible(stack', f)
        THEN FocusNextIs(stack', f, focusIdx')
        ELSE focusIdx' = f
  /\ answered' = answered \cup {stack[focusIdx + 1].popup}

\* Mutant of DismissAll: focusIdx is not reset.
DismissAllFocused ==
  /\ HasVisible(stack)
  /\ stack' = <<>> /\ UNCHANGED focusIdx
  /\ answered' = answered \cup InStack

\* Accept all pending: the suspended ones too.
DismissAll ==
  /\ HasVisible(stack)
  /\ stack' = <<>> /\ focusIdx' = 0
  /\ answered' = answered \cup InStack

SetSuspended(b) == stack' = [i \in DOMAIN stack |-> [stack[i] EXCEPT !.suspended = b]]

\* Mutant of SuspendAll: Esc discards.
DiscardAll == HasVisible(stack) /\ stack' = <<>> /\ focusIdx' = 0 /\ UNCHANGED answered

\* Esc, and the jump to the session of the focused popup.
SuspendAll ==
  /\ HasVisible(stack)
  /\ SetSuspended(TRUE)
  /\ UNCHANGED <<focusIdx, answered>>

\* p reaches the global keys only when no popup is visible.
UnsuspendAll ==
  /\ stack # <<>> /\ ~HasVisible(stack)
  /\ SetSuspended(FALSE)
  /\ focusIdx' = Len(stack) - 1
  /\ UNCHANGED answered

\* Mutant of FocusNext: suspended popups are not skipped.
FocusNextAny ==
  /\ HasVisible(stack) /\ focusIdx' = (focusIdx + 1) % Len(stack)
  /\ UNCHANGED <<stack, answered>>

FocusNext == HasVisible(stack) /\ FocusNextIs(stack, focusIdx, focusIdx') /\ UNCHANGED <<stack, answered>>
FocusPrev == HasVisible(stack) /\ FocusPrevIs(stack, focusIdx, focusIdx') /\ UNCHANGED <<stack, answered>>

Next ==
  \/ \E p \in Popups : PushPopup(p)
  \/ DismissActive \/ DismissAll
  \/ SuspendAll \/ UnsuspendAll
  \/ FocusNext \/ FocusPrev

Spec == Init /\ [][Next]_vars

-----------------------------------------------------------------------------
(* Properties                                                              *)

\* While a popup is on the screen the focus is on one: layoutToolPopup gives
\* it the keyboard and dismissPopup answers it (ActiveEntry, popup.go).
FocusIsVisible == HasVisible(stack) => focusIdx \in Indices(stack) /\ Visible(stack, focusIdx)

\* A popup is in the stack once and is gone once it was answered, so that no
\* key answers a prompt twice (DismissActive, DismissAll).
AnsweredOnce ==
  /\ \A i, j \in DOMAIN stack : stack[i].popup = stack[j].popup => i = j
  /\ \A i \in DOMAIN stack : stack[i].popup \notin answered

\* keybinds.md:22 "When a tool notification is dismissed with Esc, it is
\* suspended rather than discarded": a popup leaves the stack with an answer
\* only, however it was hidden, focused or shifted before.
NoPopupLost == [][\A p \in InStack : p \in InStack' \cup answered']_vars

\* The answer to one popup goes to one that is on the screen.
OnlyVisibleAnswered ==
  [][DismissActive => \E i \in Indices(stack) : Visible(stack, i) /\ answered' \ answered = {stack[i + 1].popup}]_vars
=============================================================================
