------------------------------ MODULE Splitter ------------------------------
(***************************************************************************)
(* A splitter window (SplitterWindow.c): a bar between two panes that the  *)
(* user drags.  Only the dimension the bar moves in is modelled: x for the *)
(* vertical splitter, y for the horizontal one.  The context keeps the     *)
(* position the user chose, which the size may not allow at the moment;    *)
(* what the parent is told (WM_NOTIFY) is that position brought into the   *)
(* range the size allows.  The main window (MainWindow.c), which sizes the *)
(* splitter and moves the two panes when it is told, is modelled with it;  *)
(* BeginDeferWindowPos is taken not to fail.                               *)
(***************************************************************************)
EXTENDS Integers

CONSTANTS
  Min,         \* ctx->minSpace
  Half,        \* nm.barHalfThickness
  Start,       \* the position the window is created with
  Clients,     \* sizes of the client area; 0 while the program is minimized
  StatusBar,   \* what the status bar takes of it; 0 for the vertical splitter
  Cursors      \* where the mouse may be, outside the window too

\* MainWmGetMinMaxInfo: the main window is never smaller than leaves both panes
\* their minimum, unless it is minimized.
ASSUME SplitterAssumption ==
  /\ Min \in Nat /\ Half \in Nat /\ Half <= Min /\ StatusBar \in Nat
  /\ Start \in Int /\ Cursors \subseteq Int
  /\ Clients \subseteq Nat
  /\ \A c \in Clients : c = 0 \/ c >= 2 * Min + StatusBar

VARIABLES
  size,          \* ctx->nm.width or ctx->nm.height
  position,      \* ctx->nm.position
  isDragMode,    \* ctx->isDragMode
  cursorOffset,  \* ctx->cursorOffset
  shown,         \* the position last sent to the parent: where the bar is seen
  panes,         \* the size of the near pane, the place and size of the far one
  captured,      \* the window has the mouse capture
  button,        \* the left button is down
  cursor         \* the mouse, in the window's coordinates

vars == <<size, position, isDragMode, cursorOffset, shown, panes,
          captured, button, cursor>>
mouse == <<captured, button, cursor>>

\* What the status bar leaves of a client area; no window has a negative size.
LeftBy(c) == IF c < StatusBar THEN 0 ELSE c - StatusBar

TypeOK ==
  /\ size \in Nat /\ size \in {0} \cup {LeftBy(c) : c \in Clients}
  /\ panes \in [near : Int, far : Int, rest : Int]
  /\ {position, cursorOffset, shown} \subseteq Int
  /\ {isDragMode, captured, button} \subseteq BOOLEAN
  /\ cursor \in Cursors

-----------------------------------------------------------------------------
\* The range check that three functions make.
Clamp(pos) == IF pos < Min THEN Min
              ELSE IF pos > size - Min THEN size - Min ELSE pos

\* SplitterIsOnDivider: the bar runs over [pos - Half, pos + Half).
\* Mutant: the stored position is taken as it is.
SplitterIsOnDivider_Unclamped(pt) ==
  position - Half <= pt /\ pt < position + Half

SplitterIsOnDivider(pt) ==
  Clamp(position) - Half <= pt /\ pt < Clamp(position) + Half

\* SplitterPositionFromLParam.
SplitterPositionFromLParam(pt, offset) == Clamp(pt + offset)

\* MainWmNotifySplitter: where the parent puts the panes.
MainWmNotifySplitter(pos, s) ==
  [near |-> pos - Half, far |-> pos + Half, rest |-> s - pos - Half]

Abs(x) == IF x < 0 THEN -x ELSE x

-----------------------------------------------------------------------------
\* WM_WINDOWPOSCHANGED with a new size: a copy of the context with the position
\* in range goes to the parent; the context keeps its own.
SplitterWmWindowPosChanged(s) ==
  /\ size' = s
  /\ shown' = IF position < Min THEN Min
              ELSE IF position > s - Min THEN s - Min ELSE position
  /\ panes' = MainWmNotifySplitter(shown', s)
  /\ UNCHANGED <<position, isDragMode, cursorOffset, mouse>>

\* MainWmWindowPosChanged: the splitter gets what the status bar leaves.
MainWmWindowPosChanged(c) == SplitterWmWindowPosChanged(LeftBy(c))

\* WM_LBUTTONDOWN.  A bar that is seen away from the position the context keeps
\* makes the position the one seen.
SplitterWmLButtonDown ==
  /\ ~button /\ cursor >= 0 /\ cursor < size
  /\ button' = TRUE
  /\ IF SplitterIsOnDivider(cursor)
     THEN /\ captured' = TRUE /\ isDragMode' = TRUE
          /\ LET offset == position - SplitterPositionFromLParam(cursor, 0) IN
             IF Abs(offset) > Half
             THEN /\ position' = SplitterPositionFromLParam(0, position)
                  /\ cursorOffset' = position' - cursor
             ELSE cursorOffset' = offset /\ UNCHANGED position
     ELSE UNCHANGED <<captured, isDragMode, cursorOffset, position>>
  /\ UNCHANGED <<size, shown, panes, cursor>>

\* WM_MOUSEMOVE, which the window gets while it has the capture, or the mouse
\* is over it; only with the button down is it looked at.
SplitterWmMouseMove(pt) ==
  /\ pt # cursor /\ cursor' = pt
  /\ IF button /\ isDragMode
     THEN LET pos == SplitterPositionFromLParam(pt, cursorOffset) IN
          /\ position' = pos
          /\ IF pos # position
             THEN shown' = pos /\ panes' = MainWmNotifySplitter(pos, size)
             ELSE UNCHANGED <<shown, panes>>
     ELSE UNCHANGED <<position, shown, panes>>
  /\ UNCHANGED <<size, isDragMode, cursorOffset, captured, button>>

\* The button goes up; WM_LBUTTONUP, ReleaseCapture and the WM_CAPTURECHANGED
\* it sends.
SplitterWmLButtonUp ==
  /\ button /\ button' = FALSE
  /\ captured' = FALSE
  /\ isDragMode' = FALSE
  /\ UNCHANGED <<size, position, cursorOffset, shown, panes, cursor>>

\* Another window takes the capture.
SplitterWmCaptureChanged ==
  /\ captured /\ captured' = FALSE
  /\ isDragMode' = FALSE
  /\ UNCHANGED <<size, position, cursorOffset, shown, panes, button, cursor>>

\* SplitterWmCreate.
Init ==
  /\ size = 0 /\ position = Start /\ shown = 0
  /\ panes = [near |-> 0, far |-> 0, rest |-> 0]
  /\ isDragMode = FALSE /\ cursorOffset = 0
  /\ captured = FALSE /\ button = FALSE /\ cursor \in Cursors

Next ==
  \/ \E c \in Clients : MainWmWindowPosChanged(c)
  \/ SplitterWmLButtonDown \/ SplitterWmLButtonUp \/ SplitterWmCaptureChanged
  \/ \E pt \in Cursors : SplitterWmMouseMove(pt)

Spec == Init /\ [][Next]_vars

-----------------------------------------------------------------------------
Roomy == size >= 2 * Min /\ size > 0

\* Where the bar is seen is a function of the position kept and the size: a
\* window made smaller and larger again shows the bar where it was.  It relies
\* on the range check of one handler undoing what another left.
ShownIsClamped == Roomy => shown = Clamp(position)

\* The panes and the bar fill the window without overlap, and neither pane is
\* less than its minimum, less half the bar: the parent, the size and the
\* position in use agree after every order of resizes, drags and restores.
PanesTile ==
  Roomy =>
    /\ panes.near = shown - Half /\ panes.far = panes.near + 2 * Half
    /\ panes.far + panes.rest = size
    /\ panes.near >= Min - Half /\ panes.rest >= Min - Half

\* The bar stays under the mouse: a drag never holds it further from the cursor
\* than half its thickness (SplitterWmLButtonDown), also when the position kept
\* was out of range at the press.
Grip == isDragMode => Abs(cursorOffset) <= Half

\* The window drags only while it has the capture and the button is down: a
\* capture taken away ends the drag (SplitterWmCaptureChanged).
DragHasCapture == isDragMode => captured /\ button

\* A press takes hold of the bar exactly where the bar is seen.
GrabsWhatIsShown ==
  [][~button /\ button' =>
       (isDragMode' <=> shown - Half <= cursor /\ cursor < shown + Half)]_vars

\* The bar is seen where it can be and taken hold of where it is seen, the panes
\* fill the window around it, and a drag holds it with the mouse captured, after
\* every order of resizes, drags, restores and captures taken away.
SplitterRight ==
  [](TypeOK /\ ShownIsClamped /\ PanesTile /\ Grip /\ DragHasCapture) /\ GrabsWhatIsShown
=============================================================================
