------------------------------ MODULE Scrollback ------------------------------
(***************************************************************************)
(* Scroll mode in full screen (gui/scroll_state.go, app_actions.go): the   *)
(* event loop moves an offset and a cursor, goroutines capture the lines   *)
(* at the offset they were started with, and a generation number tells     *)
(* late captures from the current one.  A capture holds `at` and `lines`   *)
(* counts; the text itself is left out, and so is the selection.           *)
(***************************************************************************)
EXTENDS Integers, Sequences

CONSTANTS
  ViewHeight,       (* inner height of the view, fixed while scrolling     *)
  MouseScrollLines, (* mouseScrollLines                                    *)
  MaxHistory        (* bound: lines above the pane's screen                *)

ASSUME ScrollAssumption ==
  ViewHeight \in Nat \ {0} /\ MouseScrollLines \in Nat \ {0} /\ MaxHistory \in Nat

VARIABLES
  scrolling,    (* s.active                                                *)
  scrollOffset, (* lines above the bottom; 0 is live                       *)
  maxOffset,    (* 0: unknown                                              *)
  cursorY,
  lines,        (* what is shown: where it was captured and how many       *)
  generation,
  captures,     (* the capture goroutines                                  *)
  history,      (* the history size of the pane                            *)
  stale         (* the capture of this generation failed, or went to the
                   top without a history size                              *)

scrollVars == <<scrolling, scrollOffset, maxOffset, cursorY, lines, generation, captures, history, stale>>

Failed == -1
NoLines == [at |-> 0, count |-> 0]
ScreenLines == [at : Nat, count : 0 .. ViewHeight]

Kinds == {"enter", "top", "lines"}
Steps == {"history", "capture", "update"}

\* size: what HistorySize returned; count: what CaptureScrollback returned.
Capture ==
  [gen : Nat, kind : Kinds, step : Steps, at : Nat,
   size : Nat \cup {Failed}, count : 0 .. ViewHeight \cup {Failed}]

ScrollTypeOK ==
  /\ scrolling \in BOOLEAN
  /\ scrollOffset \in Nat /\ maxOffset \in Nat
  /\ cursorY \in 0 .. ViewHeight - 1
  /\ lines \in ScreenLines
  /\ generation \in Nat
  /\ captures \in SUBSET Capture
  /\ history \in 0 .. MaxHistory
  /\ stale \in BOOLEAN

ScrollInit ==
  /\ scrolling = FALSE /\ scrollOffset = 0 /\ maxOffset = 0 /\ cursorY = 0
  /\ lines = NoLines /\ generation = 0 /\ captures = {} /\ stale = FALSE
  /\ history \in 0 .. MaxHistory

Least(a, b) == IF a < b THEN a ELSE b
Bounded(offset, max) == IF max > 0 THEN Least(offset, max) ELSE offset
Reduced(a, b) == IF a > b THEN a - b ELSE 0

\* BumpGeneration and one of the captureScrollback functions.
Bump(kind, at) ==
  /\ generation' = generation + 1
  /\ captures' = captures \cup
       {[gen |-> generation + 1, kind |-> kind, step |-> IF kind = "lines" THEN "capture" ELSE "history",
         at |-> at, size |-> Failed, count |-> Failed]}
  /\ stale' = FALSE

\* ScrollModeEnter: ScrollState.Enter, then lines and history size.
ScrollModeEnter ==
  /\ ~scrolling
  /\ scrolling' = TRUE /\ scrollOffset' = 0 /\ maxOffset' = 0 /\ cursorY' = ViewHeight - 1
  /\ lines' = NoLines
  /\ Bump("enter", 0)
  /\ UNCHANGED history

\* Mutant of ScrollModeExit: captures on their way stay current.
ExitUnbumped ==
  /\ scrolling
  /\ scrolling' = FALSE /\ scrollOffset' = 0 /\ maxOffset' = 0 /\ cursorY' = 0
  /\ lines' = NoLines /\ stale' = FALSE
  /\ UNCHANGED <<generation, captures, history>>

\* ScrollModeExit, ScrollModeCopy.
ScrollModeExit ==
  /\ scrolling
  /\ scrolling' = FALSE /\ scrollOffset' = 0 /\ maxOffset' = 0 /\ cursorY' = 0
  /\ lines' = NoLines /\ stale' = FALSE
  /\ generation' = generation + 1
  /\ UNCHANGED <<captures, history>>

MoveTo(offset) ==
  /\ scrollOffset' = offset
  /\ Bump("lines", offset)
  /\ UNCHANGED <<scrolling, maxOffset, lines, history>>

LastLine == IF lines.count > 0 THEN lines.count - 1 ELSE ViewHeight - 1

ScrollModeUp ==
  /\ scrolling
  /\ \/ /\ cursorY > 0 /\ cursorY' = cursorY - 1
        /\ UNCHANGED <<scrolling, scrollOffset, maxOffset, lines, generation, captures, history, stale>>
     \/ cursorY = 0 /\ MoveTo(Bounded(scrollOffset + 1, maxOffset)) /\ UNCHANGED cursorY

ScrollModeDown ==
  /\ scrolling
  /\ \/ /\ cursorY < LastLine /\ cursorY' = cursorY + 1
        /\ UNCHANGED <<scrolling, scrollOffset, maxOffset, lines, generation, captures, history, stale>>
     \/ /\ cursorY >= LastLine /\ scrollOffset > 0
        /\ MoveTo(scrollOffset - 1) /\ UNCHANGED cursorY

ScrollModeHalfUp ==
  scrolling /\ MoveTo(Bounded(scrollOffset + ViewHeight \div 2, maxOffset)) /\ UNCHANGED cursorY

ScrollModeHalfDown ==
  scrolling /\ MoveTo(Reduced(scrollOffset, ViewHeight \div 2)) /\ UNCHANGED cursorY

TopOffset == IF maxOffset > 0 THEN maxOffset ELSE scrollOffset

\* g: ToTop, then lines and history size; the top is captured once the size
\* is known.
ScrollModeToTop ==
  /\ scrolling
  /\ scrollOffset' = TopOffset /\ cursorY' = 0
  /\ Bump("top", 0)
  /\ UNCHANGED <<scrolling, maxOffset, lines, history>>

ScrollModeToBottom == scrolling /\ cursorY' = ViewHeight - 1 /\ MoveTo(0)

\* Mutant of ScrollModeMouseUp: enters as Ctrl+V does and bumps once more,
\* after its capture was started.
MouseUpBumpsTwice ==
  /\ IF scrolling
     THEN scrollOffset' = Bounded(scrollOffset + MouseScrollLines, maxOffset) /\ UNCHANGED <<maxOffset, cursorY, lines>>
     ELSE scrollOffset' = MouseScrollLines /\ maxOffset' = 0 /\ cursorY' = ViewHeight - 1 /\ lines' = NoLines
  /\ scrolling' = TRUE
  /\ generation' = generation + 2
  /\ captures' = captures \cup
       {[gen |-> generation + 1, kind |-> "lines", step |-> "capture", at |-> scrollOffset',
         size |-> Failed, count |-> Failed]}
  /\ stale' = FALSE
  /\ UNCHANGED history

\* The wheel enters scroll mode by itself, without asking for the history.
ScrollModeMouseUp ==
  /\ IF scrolling
     THEN scrollOffset' = Bounded(scrollOffset + MouseScrollLines, maxOffset) /\ UNCHANGED <<maxOffset, cursorY, lines>>
     ELSE scrollOffset' = MouseScrollLines /\ maxOffset' = 0 /\ cursorY' = ViewHeight - 1 /\ lines' = NoLines
  /\ scrolling' = TRUE
  /\ Bump("lines", scrollOffset')
  /\ UNCHANGED history

\* The wheel leaves scroll mode at the live end.
ScrollModeMouseDown ==
  /\ scrolling
  /\ LET offset == Reduced(scrollOffset, MouseScrollLines)
     IN IF offset = 0 THEN ScrollModeExit ELSE MoveTo(offset) /\ UNCHANGED cursorY

-----------------------------------------------------------------------------
(* The goroutines of the captures, and their callbacks on the event loop.  *)

Advanced(c, d) == captures' = (captures \ {c}) \cup {d}
NothingShown == UNCHANGED <<scrolling, scrollOffset, maxOffset, cursorY, lines, generation, history, stale>>

\* HistorySize; the top is captured at the size found, the live end without.
ReadHistory(c) ==
  /\ c \in captures /\ c.step = "history"
  /\ \E size \in {history, Failed} :
       Advanced(c, [c EXCEPT !.step = "capture", !.size = size,
                             !.at = IF c.kind = "top" /\ size > 0 THEN size ELSE c.at])
  /\ NothingShown

\* tmux clips a range above the history: at least the oldest line is left.
Captured(at) ==
  IF at <= history THEN ViewHeight
  ELSE IF at - history < ViewHeight THEN ViewHeight - (at - history) ELSE 1

CaptureScrollback(c) ==
  /\ c \in captures /\ c.step = "capture"
  /\ \E count \in {Captured(c.at), Failed} : Advanced(c, [c EXCEPT !.step = "update", !.count = count])
  /\ NothingShown

\* SetLines at an offset, with the cursor and the upper bound before it.
SetLines(c, offset, max, cursor) ==
  IF c.count = Failed
  THEN UNCHANGED lines /\ maxOffset' = max /\ cursorY' = cursor
  ELSE /\ lines' = [at |-> c.at, count |-> c.count]
       /\ maxOffset' = IF c.count > 0 /\ c.count < ViewHeight /\ max = 0 THEN offset ELSE max
       /\ cursorY' = IF c.count > 0 THEN Least(cursor, c.count - 1) ELSE cursor

KnownMax(c) == IF c.kind # "lines" /\ c.size > 0 THEN c.size ELSE maxOffset

\* Mutant of Update: ToTop with the bound it had before.
UpdateTopFirst(c) ==
  /\ c \in captures /\ c.step = "update"
  /\ captures' = captures \ {c}
  /\ IF c.gen # generation
     THEN UNCHANGED <<scrollOffset, maxOffset, cursorY, lines, stale>>
     ELSE LET offset == IF c.kind = "top" /\ maxOffset > 0 THEN maxOffset ELSE scrollOffset
          IN /\ scrollOffset' = offset
             /\ SetLines(c, offset, KnownMax(c), IF c.kind = "top" THEN 0 ELSE cursorY)
             /\ stale' = (c.count = Failed \/ (c.kind = "top" /\ c.size <= 0))
  /\ UNCHANGED <<scrolling, generation, history>>

\* Mutant of Update: any capture that returns is shown.
UpdateAny(c) ==
  /\ c \in captures /\ c.step = "update"
  /\ captures' = captures \ {c}
  /\ LET max == KnownMax(c)
         offset == IF c.kind = "top" /\ max > 0 THEN max ELSE scrollOffset
     IN /\ scrollOffset' = offset
        /\ SetLines(c, offset, max, IF c.kind = "top" THEN 0 ELSE cursorY)
        /\ stale' = (c.count = Failed \/ (c.kind = "top" /\ c.size <= 0))
  /\ UNCHANGED <<scrolling, generation, history>>

\* gui.Update: results of an older generation are discarded; the history
\* size is stored before ToTop uses it.
Update(c) ==
  /\ c \in captures /\ c.step = "update"
  /\ captures' = captures \ {c}
  /\ IF c.gen # generation
     THEN UNCHANGED <<scrollOffset, maxOffset, cursorY, lines, stale>>
     ELSE LET max == KnownMax(c)
              offset == IF c.kind = "top" /\ max > 0 THEN max ELSE scrollOffset
          IN /\ scrollOffset' = offset
             /\ SetLines(c, offset, max, IF c.kind = "top" THEN 0 ELSE cursorY)
             /\ stale' = (c.count = Failed \/ (c.kind = "top" /\ c.size <= 0))
  /\ UNCHANGED <<scrolling, generation, history>>

\* The pane prints, or its history is cleared.
HistoryChanges ==
  /\ history' \in 0 .. MaxHistory /\ history' # history
  /\ UNCHANGED <<scrolling, scrollOffset, maxOffset, cursorY, lines, generation, captures, stale>>

ScrollKey ==
  \/ ScrollModeEnter \/ ScrollModeExit
  \/ ScrollModeUp \/ ScrollModeDown \/ ScrollModeHalfUp \/ ScrollModeHalfDown
  \/ ScrollModeToTop \/ ScrollModeToBottom

Wheel == ScrollModeMouseUp \/ ScrollModeMouseDown

CaptureStep == \E c \in captures : ReadHistory(c) \/ CaptureScrollback(c) \/ Update(c)

ScrollNext == ScrollKey \/ Wheel \/ CaptureStep \/ HistoryChanges

ScrollSpec == ScrollInit /\ [][ScrollNext]_scrollVars

-----------------------------------------------------------------------------
(* Properties                                                              *)

\* app_actions.go:1287 "they cannot call SetLines after scroll mode is
\* deactivated": out of scroll mode no lines are held, however late a capture
\* of any earlier visit returns.
NoLinesAfterExit == ~scrolling => lines = NoLines

\* When the last capture has been applied, what is shown was captured at the
\* offset the status bar shows and the cursor is on one of its lines: no
\* older capture, clamp or late history size separates them (captureScrollback
\* functions, SetLines, ToTop).
SettledView ==
  (lines # NoLines /\ ~stale /\ \A c \in captures : c.gen # generation) =>
    lines.at = scrollOffset /\ cursorY < lines.count

\* A known upper bound is never passed, although it is learnt late, shrinks
\* and is guessed from short captures (SetMaxOffset, SetLines, ScrollUp).
OffsetInHistory == maxOffset > 0 => scrollOffset <= maxOffset

\* The state of scroll mode at any moment, whatever captures are on their way.
ScrollStateIsSound == NoLinesAfterExit /\ OffsetInHistory

\* app_actions.go:1376 "SetLines is never called and the view stays stuck":
\* scroll mode always gets lines to show, unless tmux fails.
ScrollLoads == (scrolling /\ lines = NoLines) ~> (lines # NoLines \/ ~scrolling \/ stale)
=============================================================================
