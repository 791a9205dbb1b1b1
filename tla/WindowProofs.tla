---------------------------- MODULE WindowProofs ----------------------------
(***************************************************************************)
(* Proofs about the parts of the main window that Window puts side by side,*)
(* for every value of the constants:                                       *)
(*   - the splitter, for every thickness, minimum, set of sizes and set of *)
(*     mouse positions: the arithmetic of the range check, and the         *)
(*     invariants that rest on it;                                         *)
(*   - the list and the notes are those of the selected record, for every  *)
(*     number of records, as long as no read fails;                        *)
(*   - the drop target is called while it exists and inserts what it may,  *)
(*     for every limit of the control;                                     *)
(*   - the menus keep what MenusProofs proves of them;                     *)
(*   - the message loop serves the active window in every order of messages;*)
(*   - and Window, the composition, keeps all of it.                       *)
(***************************************************************************)
EXTENDS Window, Sequences, SequenceTheorems, FiniteSetTheorems, WellFoundedInduction, TLAPS

-----------------------------------------------------------------------------
(* The splitter bar *)

\* The panes are where the parent was last told to put them.
PanesFollow == Roomy => panes = MainWmNotifySplitter(shown, size)

\* What is kept by every handler: types, that the bar is seen where the range
\* check puts the position kept, and that a drag has the capture and a grip.
SplitterInv == TypeOK /\ ShownIsClamped /\ PanesFollow /\ Grip /\ DragHasCapture

-----------------------------------------------------------------------------
(* The range check *)

\* The range check gives a whole number.
LEMMA ClampInt ==
  ASSUME size \in Nat, NEW p \in Int
  PROVE  Clamp(p) \in Int
BY SplitterAssumption, SMT DEF Clamp

\* Where both panes have room, the range check ends inside the range.
LEMMA ClampInRange ==
  ASSUME size \in Nat, Roomy, NEW p \in Int
  PROVE  Min <= Clamp(p) /\ Clamp(p) <= size - Min
BY SplitterAssumption, SMT DEF Clamp, Roomy

\* ... and a second check changes nothing.
LEMMA ClampTwice ==
  ASSUME size \in Nat, Roomy, NEW p \in Int
  PROVE  Clamp(Clamp(p)) = Clamp(p)
BY SplitterAssumption, SMT DEF Clamp, Roomy

\* A mouse on the divider is within half the bar's thickness of it.
LEMMA OnDividerIsNear ==
  ASSUME size \in Nat, position \in Int, NEW pt \in Int,
         SplitterIsOnDivider(pt)
  PROVE  Abs(Clamp(position) - pt) <= Half
<1>1. Clamp(position) \in Int
  BY ClampInt
<1>2. QED
  BY <1>1, SplitterAssumption, SMT DEF SplitterIsOnDivider, Abs

\* No size is negative, and one that is not 0 leaves room for both panes.
LEMMA SizeIsNat ==
  ASSUME TypeOK
  PROVE  size \in Nat /\ (size > 0 => Roomy)
BY SplitterAssumption DEF TypeOK, LeftBy, Roomy

-----------------------------------------------------------------------------
(* Every step keeps the invariant *)

\* A change of size: the bar is shown anew.
LEMMA SizeKeeps ==
  ASSUME SplitterInv, NEW c \in Clients, MainWmWindowPosChanged(c)
  PROVE  SplitterInv'
<1> DEFINE s == LeftBy(c)
<1>1. s \in {0} \cup {LeftBy(d) : d \in Clients}
  OBVIOUS
<1>2. s \in Nat
  BY SplitterAssumption DEF LeftBy
<1>3. /\ size' = s /\ position' = position /\ panes' = MainWmNotifySplitter(shown', s)
      /\ UNCHANGED <<isDragMode, cursorOffset, captured, button, cursor>>
      /\ shown' = IF position < Min THEN Min
                  ELSE IF position > s - Min THEN s - Min ELSE position
  BY DEF MainWmWindowPosChanged, SplitterWmWindowPosChanged, mouse
<1> HIDE DEF s
<1>4. shown' = Clamp(position)'
  BY <1>3 DEF Clamp
<1>5. shown' \in Int
  BY <1>2, <1>3, SplitterAssumption DEF SplitterInv, TypeOK
<1>6. panes' \in [near : Int, far : Int, rest : Int]
  BY <1>2, <1>3, <1>5, SplitterAssumption DEF MainWmNotifySplitter
<1>7. TypeOK'
  BY <1>1, <1>2, <1>3, <1>5, <1>6 DEF SplitterInv, TypeOK
<1>8. PanesFollow'
  BY <1>3 DEF PanesFollow, MainWmNotifySplitter
<1>9. QED
  BY <1>3, <1>4, <1>7, <1>8 DEF SplitterInv, ShownIsClamped, Grip, DragHasCapture, Abs

\* The press: in both branches the offset is small, and where the bar is seen
\* does not change.
LEMMA PressKeeps ==
  ASSUME SplitterInv, SplitterWmLButtonDown
  PROVE  SplitterInv'
<1>1. /\ size \in Nat /\ size' = size /\ shown' = shown /\ cursor' = cursor
      /\ button' = TRUE /\ shown \in Int /\ cursor \in Int /\ position \in Int
      /\ cursorOffset \in Int /\ panes' = panes
  BY SizeIsNat, SplitterAssumption DEF SplitterInv, TypeOK, SplitterWmLButtonDown
<1>2. CASE SplitterIsOnDivider(cursor)
  <2> DEFINE offset == position - Clamp(cursor)
  <2>1. /\ captured' = TRUE /\ isDragMode' = TRUE
        /\ IF Abs(offset) > Half
           THEN position' = Clamp(position) /\ cursorOffset' = Clamp(position) - cursor
           ELSE cursorOffset' = offset /\ position' = position
    <3>1. SplitterPositionFromLParam(cursor, 0) = Clamp(cursor)
      BY <1>1, SMT DEF SplitterPositionFromLParam
    <3>2. SplitterPositionFromLParam(0, position) = Clamp(position)
      BY <1>1, SMT DEF SplitterPositionFromLParam
    <3>3. QED
      BY <1>2, <3>1, <3>2 DEF SplitterWmLButtonDown
  <2>2. Clamp(position) \in Int /\ Clamp(cursor) \in Int /\ offset \in Int
    BY <1>1, ClampInt
  <2> HIDE DEF offset
  <2>3. position' \in Int /\ cursorOffset' \in Int
    BY <1>1, <2>1, <2>2
  <2>4. TypeOK'
    BY <1>1, <2>1, <2>3 DEF SplitterInv, TypeOK
  <2>5. Grip'
    <3>1. Abs(Clamp(position) - cursor) <= Half
      BY <1>1, <1>2, OnDividerIsNear
    <3>2. CASE Abs(offset) > Half
      BY <2>1, <3>1, <3>2 DEF Grip, Abs
    <3>3. CASE ~(Abs(offset) > Half)
      <4>1. Abs(cursorOffset') = Abs(offset)
        BY <2>1, <3>3 DEF Abs
      <4>2. Abs(offset) \in Int
        BY <2>2 DEF Abs
      <4>3. QED
        BY <4>1, <4>2, <3>3, SplitterAssumption DEF Grip, Abs
    <3>4. QED
      BY <3>2, <3>3
  <2>6. ShownIsClamped'
    <3>1. CASE position' = position
      BY <1>1, <3>1 DEF SplitterInv, ShownIsClamped, Roomy, Clamp
    <3>2. CASE position' = Clamp(position)
      <4>1. SUFFICES ASSUME Roomy PROVE shown = Clamp(Clamp(position))
        BY <1>1, <3>2 DEF ShownIsClamped, Roomy, Clamp
      <4>2. QED
        BY <1>1, <4>1, ClampTwice DEF SplitterInv, ShownIsClamped
    <3>3. QED
      BY <2>1, <3>1, <3>2
  <2>7. QED
    BY <1>1, <2>1, <2>4, <2>5, <2>6
    DEF SplitterInv, DragHasCapture, PanesFollow, Roomy, MainWmNotifySplitter
<1>3. CASE ~SplitterIsOnDivider(cursor)
  <2>1. UNCHANGED <<captured, isDragMode, cursorOffset, position>>
    BY <1>3 DEF SplitterWmLButtonDown
  <2>2. QED
    BY <1>1, <2>1
    DEF SplitterInv, TypeOK, ShownIsClamped, Roomy, Clamp, PanesFollow,
        MainWmNotifySplitter, Grip, Abs, DragHasCapture
<1>4. QED
  BY <1>2, <1>3

\* A move of the mouse: a drag puts the position in range and shows it.
LEMMA MoveKeeps ==
  ASSUME SplitterInv, NEW pt \in Cursors, SplitterWmMouseMove(pt)
  PROVE  SplitterInv'
<1>1. /\ size \in Nat /\ pt \in Int /\ shown \in Int /\ position \in Int
      /\ cursorOffset \in Int /\ cursor' = pt
      /\ UNCHANGED <<size, isDragMode, cursorOffset, captured, button>>
  BY SizeIsNat, SplitterAssumption DEF SplitterInv, TypeOK, SplitterWmMouseMove
<1>2. CASE button /\ isDragMode
  <2> DEFINE pos == Clamp(pt + cursorOffset)
  <2>1. /\ position' = pos
        /\ shown' = IF pos # position THEN pos ELSE shown
        /\ panes' = IF pos # position THEN MainWmNotifySplitter(pos, size) ELSE panes
    BY <1>2 DEF SplitterWmMouseMove, SplitterPositionFromLParam
  <2>2. pos \in Int
    BY <1>1, ClampInt
  <2>3. Roomy => Clamp(pos) = pos
    BY <1>1, ClampTwice
  <2>4. Roomy => shown' = Clamp(pos)
    BY <2>1, <2>3 DEF SplitterInv, ShownIsClamped
  <2>5. Roomy' <=> Roomy
    BY <1>1 DEF Roomy
  <2>6. Clamp(position)' = Clamp(pos)
    BY <1>1, <2>1 DEF Clamp
  <2>7. ShownIsClamped'
    BY <2>4, <2>5, <2>6 DEF ShownIsClamped
  <2> HIDE DEF pos
  <2>8. panes' \in [near : Int, far : Int, rest : Int]
    BY <1>1, <2>1, <2>2, SplitterAssumption DEF SplitterInv, TypeOK, MainWmNotifySplitter
  <2>9. PanesFollow'
    BY <1>1, <2>1 DEF SplitterInv, PanesFollow, MainWmNotifySplitter, Roomy
  <2>10. TypeOK'
    <3>1. shown' \in Int /\ position' \in Int
      BY <1>1, <2>1, <2>2
    <3>2. QED
      BY <1>1, <2>8, <3>1 DEF SplitterInv, TypeOK
  <2>11. Grip' /\ DragHasCapture'
    BY <1>1 DEF SplitterInv, Grip, Abs, DragHasCapture
  <2>12. QED
    BY <2>7, <2>9, <2>10, <2>11 DEF SplitterInv
<1>3. CASE ~(button /\ isDragMode)
  <2>1. UNCHANGED <<position, shown, panes>>
    BY <1>3 DEF SplitterWmMouseMove
  <2>2. QED
    BY <1>1, <2>1
    DEF SplitterInv, TypeOK, ShownIsClamped, Roomy, Clamp, PanesFollow,
        MainWmNotifySplitter, Grip, Abs, DragHasCapture
<1>4. QED
  BY <1>2, <1>3

\* The end of a drag, by the button or by the loss of the capture.
LEMMA EndKeeps ==
  ASSUME SplitterInv, SplitterWmLButtonUp \/ SplitterWmCaptureChanged
  PROVE  SplitterInv'
<1>1. /\ UNCHANGED <<size, position, cursorOffset, shown, panes, cursor>>
      /\ isDragMode' = FALSE /\ captured' = FALSE /\ button' \in BOOLEAN
  BY Zenon DEF SplitterInv, TypeOK, SplitterWmLButtonUp, SplitterWmCaptureChanged
<1>2. TypeOK'
  <2>1. {isDragMode', captured', button'} \subseteq BOOLEAN
    BY <1>1, Zenon
  <2>2. QED
    BY <1>1, <2>1 DEF SplitterInv, TypeOK
<1>3. QED
  BY <1>1, <1>2 DEF SplitterInv, ShownIsClamped, Roomy, Clamp, PanesFollow,
     MainWmNotifySplitter, Grip, DragHasCapture

\* SplitterInv is inductive.
LEMMA NextSplitterInv == SplitterInv /\ [Next]_vars => SplitterInv'
<1> SUFFICES ASSUME SplitterInv, [Next]_vars PROVE SplitterInv'
  OBVIOUS
<1>1. CASE \E c \in Clients : MainWmWindowPosChanged(c)
  BY <1>1, SizeKeeps
<1>2. CASE SplitterWmLButtonDown
  BY <1>2, PressKeeps
<1>3. CASE SplitterWmLButtonUp \/ SplitterWmCaptureChanged
  BY <1>3, EndKeeps
<1>4. CASE \E pt \in Cursors : SplitterWmMouseMove(pt)
  BY <1>4, MoveKeeps
<1>5. CASE UNCHANGED vars
  BY <1>5 DEF SplitterInv, TypeOK, ShownIsClamped, Roomy, Clamp, PanesFollow,
     MainWmNotifySplitter, Grip, Abs, DragHasCapture, vars, mouse
<1>6. QED
  BY <1>1, <1>2, <1>3, <1>4, <1>5 DEF Next

\* SplitterInv holds initially: no size yet, no drag.
LEMMA InitSplitterInv == Init => SplitterInv
<1> SUFFICES ASSUME Init PROVE SplitterInv
  OBVIOUS
<1>1. TypeOK
  <2>1. {position, cursorOffset, shown} \subseteq Int
    BY SplitterAssumption, SMT DEF Init
  <2>3. panes \in [near : Int, far : Int, rest : Int]
    BY SMT DEF Init
  <2>2. {isDragMode, captured, button} \subseteq BOOLEAN
    BY Zenon DEF Init
  <2>4. QED
    BY <2>1, <2>2, <2>3, SMT DEF Init, TypeOK
<1>2. ~Roomy
  BY SMT DEF Init, Roomy
<1>3. QED
  BY <1>1, <1>2 DEF Init, SplitterInv, ShownIsClamped, PanesFollow, Grip, DragHasCapture

-----------------------------------------------------------------------------
(* The theorems *)

\* The inductive invariant is one of the specification.
THEOREM SpecSplitterInv == Spec => []SplitterInv
BY InitSplitterInv, NextSplitterInv, PTL DEF Spec

\* In every state where there is room, the bar is seen at the position kept,
\* brought into range (SplitterWmWindowPosChanged, SplitterWmMouseMove,
\* SplitterWmLButtonDown).
THEOREM BarShownInRange == Spec => []ShownIsClamped
<1>1. SplitterInv => ShownIsClamped
  BY DEF SplitterInv
<1>2. QED
  BY <1>1, SpecSplitterInv, PTL

\* The panes and the bar fill the window, and both panes keep their minimum.
THEOREM PanesTileWindow == Spec => []PanesTile
<1>1. ASSUME SplitterInv, Roomy PROVE Min <= shown /\ shown <= size - Min
  <2>1. size \in Nat /\ position \in Int
    BY <1>1, SizeIsNat DEF SplitterInv, TypeOK
  <2>2. QED
    BY <1>1, <2>1, ClampInRange DEF SplitterInv, ShownIsClamped
<1>2. SplitterInv => PanesTile
  BY <1>1, SplitterAssumption
  DEF SplitterInv, TypeOK, PanesFollow, PanesTile, MainWmNotifySplitter
<1>3. QED
  BY <1>2, SpecSplitterInv, PTL

\* A drag holds the bar within half its thickness of where it was taken.
THEOREM DragKeepsGrip == Spec => []Grip
<1>1. SplitterInv => Grip
  BY DEF SplitterInv
<1>2. QED
  BY <1>1, SpecSplitterInv, PTL

\* A press takes hold of the bar exactly where it is seen.
THEOREM PressGrabsBar == Spec => GrabsWhatIsShown
<1>1. ASSUME SplitterInv, [Next]_vars, ~button, button'
      PROVE  isDragMode' <=> shown - Half <= cursor /\ cursor < shown + Half
  <2>1. SplitterWmLButtonDown
    BY <1>1 DEF Next, vars, mouse, MainWmWindowPosChanged, SplitterWmWindowPosChanged,
         SplitterWmLButtonUp,
                SplitterWmCaptureChanged, SplitterWmMouseMove
  <2>2. shown = Clamp(position)
    <3>1. size \in Nat /\ cursor \in Int /\ (size > 0 => Roomy)
      BY <1>1, SizeIsNat, SplitterAssumption DEF SplitterInv, TypeOK
    <3>2. size > 0
      BY <2>1, <3>1 DEF SplitterWmLButtonDown
    <3>3. QED
      BY <1>1, <3>1, <3>2 DEF SplitterInv, ShownIsClamped
  <2>3. isDragMode = FALSE
    BY <1>1 DEF SplitterInv, DragHasCapture, TypeOK
  <2>4. QED
    BY <2>1, <2>2, <2>3 DEF SplitterWmLButtonDown, SplitterIsOnDivider
<1>2. QED
  BY <1>1, SpecSplitterInv, PTL DEF Spec, GrabsWhatIsShown

\* All the splitter promises, for every minimum, thickness and set of sizes.
THEOREM SplitterIsRight == Spec => SplitterRight
<1>1. SplitterInv => TypeOK /\ ShownIsClamped /\ Grip /\ DragHasCapture
  BY DEF SplitterInv
<1>2. QED
  BY <1>1, SpecSplitterInv, PanesTileWindow, PressGrabsBar, PTL DEF SplitterRight
-----------------------------------------------------------------------------
(* The details of the selected record, while writes fail and reads do not  *)

\* Each record of the table has its own notes.
Good(t) ==
    /\ DOMAIN t \subseteq Detail!Ids
    /\ \A n \in DOMAIN t : t[n] \in Detail!Stored /\ t[n].notes.of = n

\* What the list shows of the records, but for their times.
SameRows(t, u) ==
    /\ DOMAIN u = DOMAIN t
    /\ \A n \in DOMAIN t : u[n].title = t[n].title /\ u[n].readonly = t[n].readonly

\* The notes shown are those of the selected record, which has an item, and
\* every item has its record.
DetailInv ==
    /\ Detail!TypeOK /\ Good(table) /\ Detail!RowsRight
    /\ caret # Detail!NoItem => edit.text.of = caret /\ edit.text \in Detail!Texts
    /\ tree \subseteq DOMAIN table \/ file = "none"
    /\ file = "none" => tree = {}

\* What a step promises: it shows what it writes, and keeps items and records
\* together.
Follows ==
    /\ Detail!RowsShowItem /\ ~Detail!RowsShowItem' => last'.op = "save" /\ edit.modified
    /\ tree \subseteq DOMAIN table => tree' \subseteq DOMAIN table'
    /\ file # "none" /\ file' # "none" /\ ~last'.failed
         => DOMAIN table' \ tree' \subseteq DOMAIN table \ tree

\* The fields of a record.
LEMMA StoredFields ==
  ASSUME NEW r \in Detail!Stored
  PROVE  /\ r.title \in Titles /\ r.notes \in Detail!Texts
         /\ r.changed \in 0 .. 2 /\ r.readonly \in BOOLEAN
BY DEF Detail!Stored

\* A later time is a time.
LEMMA NextTime ==
  ASSUME NEW time \in 0 .. 2
  PROVE  Detail!GetDateTimeNow(time) \in 0 .. 2
BY DEF Detail!GetDateTimeNow

\* Writing the notes of a record.
LEMMA NotesWritten ==
  ASSUME NEW t, Good(t), NEW id \in DOMAIN t, NEW text \in Detail!Texts, text.of = id,
         NEW u, u = Detail!DbUpdateItemNotes(t, id, text)
  PROVE  /\ Good(u) /\ SameRows(t, u)
         /\ \A n \in DOMAIN t \ {id} : u[n] = t[n]
  <1>1. CASE t[id].notes # text
    <2>1. u = [n \in DOMAIN t |->
                 IF n = id THEN [t[id] EXCEPT !.notes = text, !.changed = Detail!GetDateTimeNow(@)]
                 ELSE t[n]]
      BY <1>1 DEF Detail!DbUpdateItemNotes, Detail!DbItemExists
    <2>2. t[id] \in Detail!Stored
      BY DEF Good
    <2>3. Detail!GetDateTimeNow(t[id].changed) \in 0 .. 2
      BY <2>2, StoredFields, NextTime
    <2>4. /\ u[id] \in Detail!Stored /\ u[id].notes = text
          /\ u[id].title = t[id].title /\ u[id].readonly = t[id].readonly
      BY <2>1, <2>2, <2>3 DEF Detail!Stored
    <2>5. \A n \in DOMAIN t \ {id} : u[n] = t[n]
      BY <2>1
    <2>6. DOMAIN u = DOMAIN t
      BY <2>1
    <2> QED BY <2>4, <2>5, <2>6 DEF Good, SameRows
  <1>2. CASE ~(t[id].notes # text)
    BY <1>2 DEF Detail!DbUpdateItemNotes, Detail!DbItemExists, SameRows
  <1> QED BY <1>1, <1>2

\* SaveNotesChanges writes the notes of the selected record to that record, or
\* nothing.
LEMMA NotesSaved ==
  ASSUME NEW t, Good(t), NEW id, NEW b,
         id \in DOMAIN t => edit.text \in Detail!Texts /\ edit.text.of = id,
         NEW u, u = Detail!SaveNotesChanges(t, id, b)
  PROVE  /\ Good(u) /\ SameRows(t, u)
         /\ \A n \in DOMAIN t \ {id} : u[n] = t[n]
  <1>1. u = t \/ u = Detail!DbUpdateItemNotes(t, id, edit.text)
    BY DEF Detail!SaveNotesChanges
  <1>2. CASE u = t
    BY <1>2 DEF SameRows
  <1>3. CASE u # t
    <2>1. id \in DOMAIN t /\ u = Detail!DbUpdateItemNotes(t, id, edit.text)
      BY <1>1, <1>3 DEF Detail!DbUpdateItemNotes, Detail!DbItemExists
    <2>2. edit.text \in Detail!Texts /\ edit.text.of = id
      BY <2>1
    <2> QED BY <2>1, <2>2, NotesWritten
  <1> QED BY <1>2, <1>3

\* Rows and notes of a record are shown together.
LEMMA RecordShown ==
  ASSUME NEW t, Good(t), NEW id \in DOMAIN t, Detail!RecordCallbackProc(t[id])
  PROVE  /\ rows' = Detail!Rows(t[id])
         /\ rows' \in [title : Titles \cup {""}, changed : 0..2, readonly : {"yes", "no", ""}]
         /\ edit'.text.of = id /\ edit'.text \in Detail!Texts
         /\ edit' \in [text : Detail!Texts \cup {Detail!EmptyText}, modified : BOOLEAN,
                       readonly : BOOLEAN]
  <1>1. t[id] \in Detail!Stored /\ t[id].notes.of = id
    BY DEF Good
  <1>2. /\ t[id].title \in Titles /\ t[id].notes \in Detail!Texts
        /\ t[id].changed \in 0 .. 2 /\ t[id].readonly \in BOOLEAN
    BY <1>1, StoredFields
  <1>3. rows' = Detail!Rows(t[id])
        /\ edit' = [text |-> t[id].notes, modified |-> FALSE,
                    readonly |-> t[id].readonly \/ file = "read"]
    BY DEF Detail!RecordCallbackProc
  <1>4. rows' \in [title : Titles \cup {""}, changed : 0..2, readonly : {"yes", "no", ""}]
    BY <1>2, <1>3 DEF Detail!Rows, Detail!GetReadOnlyValue
  <1>5. (t[id].readonly \/ file = "read") \in BOOLEAN
    OBVIOUS
  <1> QED BY <1>1, <1>2, <1>3, <1>4, <1>5

\* Selecting another record of the table.
LEMMA Selected ==
  ASSUME DetailInv, NEW t, Good(t), caret \in DOMAIN t => caret # Detail!NoItem,
         NEW new \in DOMAIN t, NEW b, Detail!SelChanged(t, new, b, TRUE)
  PROVE  /\ Good(table') /\ SameRows(t, table') /\ caret' = new
         /\ rows' = Detail!Rows(table'[new])
         /\ rows' \in [title : Titles \cup {""}, changed : 0..2, readonly : {"yes", "no", ""}]
         /\ edit'.text.of = new /\ edit'.text \in Detail!Texts
         /\ edit' \in [text : Detail!Texts \cup {Detail!EmptyText}, modified : BOOLEAN,
                       readonly : BOOLEAN]
  <1>1. /\ caret' = new
        /\ table' = t \/ table' = Detail!SaveNotesChanges(t, caret, b)
        /\ new \in DOMAIN table' => Detail!RecordCallbackProc(table'[new])
    BY DEF Detail!SelChanged
  <1>2. caret \in DOMAIN t => edit.text \in Detail!Texts /\ edit.text.of = caret
    BY DEF DetailInv
  <1>3. Good(table') /\ SameRows(t, table')
    BY <1>1, <1>2, NotesSaved DEF SameRows
  <1>4. new \in DOMAIN table'
    BY <1>3 DEF SameRows
  <1> QED BY <1>1, <1>3, <1>4, RecordShown

\* No record has the id that stands for no selection.
LEMMA NoItemIsNoId == Detail!NoItem \notin Detail!Ids
BY DetailAssumption DEF Detail!NoItem, Detail!Ids

\* With the list right but for the time, showing a record's rows makes it right.
LEMMA RowsOfShown ==
  ASSUME rows' = Detail!Rows(table'[caret']), caret' \in DOMAIN table'
  PROVE  Detail!RowsRight' /\ Detail!RowsShowItem'
BY DEF Detail!RowsRight, Detail!RowsShowItem, Detail!Rows

\* The emptied views.
LEMMA EmptyTypes ==
  /\ Detail!BlankRows \in [title : Titles \cup {""}, changed : 0..2, readonly : {"yes", "no", ""}]
  /\ Detail!ClearedEdit \in [text : Detail!Texts \cup {Detail!EmptyText}, modified : BOOLEAN,
                             readonly : BOOLEAN]
BY DEF Detail!BlankRows, Detail!ClearedEdit

\* Without a selection the emptied list is right.
LEMMA NothingSelected ==
  ASSUME rows' = Detail!BlankRows, caret' = Detail!NoItem, Good(table)'
  PROVE  Detail!RowsRight' /\ Detail!RowsShowItem'
  <1>1. caret' \notin DOMAIN table'
    BY NoItemIsNoId DEF Good
  <1> QED BY <1>1 DEF Detail!RowsRight, Detail!RowsShowItem, Detail!BlankRows

\* Selecting saves the notes of the record left and shows the record entered.
LEMMA SelectKeeps ==
  ASSUME DetailInv, ~ReadsFail, Detail!Select
  PROVE  DetailInv' /\ Follows
  <1>1. PICK new \in tree \ {caret}, b \in Detail!Write :
          Detail!SelChanged(table, new, b, TRUE)
    BY DEF Detail!Select, Detail!Read
  <1>2. file # "none" /\ last'.op = "select" /\ last' \in [op : {"select"}, failed : BOOLEAN]
        /\ UNCHANGED <<file, tree>>
    BY DEF Detail!Select, Detail!Step
  <1>3. Good(table) /\ tree \subseteq DOMAIN table /\ Detail!TypeOK
    BY <1>2 DEF DetailInv
  <1>4. caret \in DOMAIN table => caret # Detail!NoItem
    BY <1>3, NoItemIsNoId DEF Good
  <1>5. /\ Good(table') /\ SameRows(table, table') /\ caret' = new
        /\ rows' = Detail!Rows(table'[new])
        /\ rows' \in [title : Titles \cup {""}, changed : 0..2, readonly : {"yes", "no", ""}]
        /\ edit'.text.of = new /\ edit'.text \in Detail!Texts
        /\ edit' \in [text : Detail!Texts \cup {Detail!EmptyText}, modified : BOOLEAN,
                      readonly : BOOLEAN]
    BY <1>1, <1>3, <1>4, Selected
  <1>6. tree' \subseteq DOMAIN table' /\ caret' \in DOMAIN table' /\ DOMAIN table' = DOMAIN table
    BY <1>2, <1>3, <1>5 DEF SameRows
  <1>7. Detail!RowsRight' /\ Detail!RowsShowItem'
    BY <1>5, <1>6, RowsOfShown
  <1>8. Detail!TypeOK'
    BY <1>2, <1>3, <1>5 DEF Detail!TypeOK, Good
  <1>9. DetailInv'
    BY <1>2, <1>5, <1>6, <1>7, <1>8 DEF DetailInv, Good
  <1> QED BY <1>2, <1>6, <1>7, <1>9 DEF Follows

\* A record that was added is shown with its own notes, one that was not changes
\* nothing.
LEMMA AddKeeps ==
  ASSUME DetailInv, ~ReadsFail, Detail!AppTreeViewNewItem
  PROVE  DetailInv' /\ Follows
  <1>0. file = "write" /\ file' = file /\ Detail!TypeOK /\ Good(table) /\ tree \subseteq DOMAIN table
    BY DEF Detail!AppTreeViewNewItem, DetailInv
  <1>1. PICK id \in Detail!Ids \ DOMAIN table, added \in Detail!Write, b \in Detail!Write :
          /\ Detail!Step("add", added /\ b /\ TRUE)
          /\ IF added
             THEN tree' = tree \cup {id} /\ Detail!SelChanged(Detail!DbAddNewItem(id), id, b, TRUE)
             ELSE UNCHANGED <<tree, table, caret, edit, rows>>
    BY DEF Detail!AppTreeViewNewItem, Detail!Read
  <1>2. last' \in [op : {"add"}, failed : BOOLEAN] /\ last'.op = "add"
    BY <1>1 DEF Detail!Step
  <1>3. CASE ~added
    <2>1. UNCHANGED <<tree, table, caret, edit, rows>>
      BY <1>1, <1>3
    <2> QED BY <1>0, <1>2, <2>1 DEF DetailInv, Follows, Detail!TypeOK, Detail!RowsRight,
                  Detail!RowsShowItem, Good
  <1>4. CASE added
    <2> DEFINE t == Detail!DbAddNewItem(id)
    <2>1. tree' = tree \cup {id} /\ Detail!SelChanged(t, id, b, TRUE)
      BY <1>1, <1>4
    <2>2. /\ DOMAIN t = DOMAIN table \cup {id}
          /\ \A n \in DOMAIN table : t[n] = table[n]
          /\ t[id] = [title |-> NewItemTitle, notes |-> [of |-> id, version |-> 0],
                      changed |-> 0, readonly |-> FALSE]
      BY <1>1 DEF Detail!DbAddNewItem
    <2>3. t[id] \in Detail!Stored /\ t[id].notes.of = id
      BY <2>2, DetailAssumption DEF Detail!Stored, Detail!Texts
    <2>4. Good(t)
      BY <1>0, <1>1, <2>2, <2>3 DEF Good
    <2> HIDE DEF t
    <2>5. caret \in DOMAIN t => caret # Detail!NoItem
      BY <2>4, NoItemIsNoId DEF Good
    <2>6. /\ Good(table') /\ SameRows(t, table') /\ caret' = id
          /\ rows' = Detail!Rows(table'[id])
          /\ rows' \in [title : Titles \cup {""}, changed : 0..2, readonly : {"yes", "no", ""}]
          /\ edit'.text.of = id /\ edit'.text \in Detail!Texts
          /\ edit' \in [text : Detail!Texts \cup {Detail!EmptyText}, modified : BOOLEAN,
                        readonly : BOOLEAN]
      BY <2>1, <2>2, <2>4, <2>5, Selected
    <2>7. tree' \subseteq DOMAIN table' /\ caret' \in DOMAIN table'
          /\ DOMAIN table' = DOMAIN table \cup {id}
      BY <1>0, <2>1, <2>2, <2>6 DEF SameRows
    <2>8. Detail!RowsRight' /\ Detail!RowsShowItem'
      BY <2>6, <2>7, RowsOfShown
    <2>9. Detail!TypeOK'
      BY <1>0, <1>2, <2>1, <2>6, <2>7 DEF Detail!TypeOK, Good
    <2>10. DetailInv'
      BY <1>0, <2>6, <2>7, <2>8, <2>9 DEF DetailInv, Good
    <2> QED BY <1>2, <2>1, <2>7, <2>8, <2>10 DEF Follows
  <1> QED BY <1>3, <1>4

\* The item goes before its record: the notes are saved to it, the next one is
\* shown, and the record may stay without an item.
LEMMA DeleteKeeps ==
  ASSUME DetailInv, ~ReadsFail, Detail!AppTreeViewDeleteItem
  PROVE  DetailInv' /\ Follows
  <1>0. /\ file = "write" /\ file' = file /\ caret # Detail!NoItem /\ tree' = tree \ {caret}
        /\ Detail!TypeOK /\ Good(table) /\ tree \subseteq DOMAIN table /\ caret \in tree
        /\ edit.text \in Detail!Texts /\ edit.text.of = caret
    BY DEF Detail!AppTreeViewDeleteItem, DetailInv, Detail!TypeOK
  <1> DEFINE Remove(b, t) == IF b THEN Detail!DbRemoveItem(t, caret) ELSE t
  <1>1. PICK written \in Detail!Write, removed \in Detail!Write :
          /\ Detail!Step("delete", written /\ removed /\ TRUE)
          /\ table' = Remove(removed, Detail!SaveNotesChanges(table, caret, written))
          /\ IF tree' = {} THEN Detail!EmptyViews
             ELSE /\ caret' \in tree'
                  /\ Detail!RecordCallbackProc(Detail!SaveNotesChanges(table, caret, written)[caret'])
    BY DEF Detail!AppTreeViewDeleteItem, Detail!Read
  <1> DEFINE kept == Detail!SaveNotesChanges(table, caret, written)
  <1>2. last' \in [op : {"delete"}, failed : BOOLEAN] /\ last'.op = "delete"
        /\ (~last'.failed => removed)
    BY <1>1 DEF Detail!Step
  <1>3. Good(kept) /\ SameRows(table, kept)
    BY <1>0, NotesSaved
  <1> HIDE DEF kept
  <1>4. /\ \A n \in DOMAIN kept \ {caret} : n \in DOMAIN table' /\ table'[n] = kept[n]
        /\ DOMAIN table' \subseteq DOMAIN kept /\ (removed => caret \notin DOMAIN table')
        /\ \A n \in DOMAIN table' : table'[n] = kept[n]
    BY <1>1 DEF kept, Detail!DbRemoveItem
  <1>5. Good(table')
    BY <1>3, <1>4 DEF Good
  <1>6. tree' \subseteq DOMAIN table'
    BY <1>0, <1>3, <1>4 DEF SameRows
  <1>7. ~last'.failed => DOMAIN table' \ tree' \subseteq DOMAIN table \ tree
    BY <1>0, <1>2, <1>3, <1>4 DEF SameRows
  <1>8. /\ Detail!RowsRight' /\ Detail!RowsShowItem' /\ Detail!TypeOK'
        /\ caret' # Detail!NoItem => edit'.text.of = caret' /\ edit'.text \in Detail!Texts
    <2>1. CASE tree' = {}
      <3>1. rows' = Detail!BlankRows /\ edit' = Detail!ClearedEdit /\ caret' = Detail!NoItem
        BY <1>1, <2>1 DEF Detail!EmptyViews
      <3>2. Detail!RowsRight' /\ Detail!RowsShowItem'
        BY <3>1, <1>5, NothingSelected DEF Good
      <3> QED BY <1>0, <1>2, <1>5, <2>1, <3>1, <3>2, EmptyTypes DEF Detail!TypeOK, Good
    <2>2. CASE tree' # {}
      <3>1. caret' \in tree' /\ Detail!RecordCallbackProc(kept[caret'])
        BY <1>1, <2>2 DEF kept
      <3>2. caret' \in DOMAIN kept /\ caret' \in DOMAIN table' /\ table'[caret'] = kept[caret']
        BY <1>0, <1>3, <1>4, <3>1 DEF SameRows
      <3>3. /\ rows' = Detail!Rows(kept[caret'])
            /\ rows' \in [title : Titles \cup {""}, changed : 0..2, readonly : {"yes", "no", ""}]
            /\ edit'.text.of = caret' /\ edit'.text \in Detail!Texts
            /\ edit' \in [text : Detail!Texts \cup {Detail!EmptyText}, modified : BOOLEAN,
                          readonly : BOOLEAN]
        BY <1>3, <3>1, <3>2, RecordShown
      <3>4. Detail!RowsRight' /\ Detail!RowsShowItem'
        BY <3>2, <3>3, RowsOfShown
      <3> QED BY <1>0, <1>2, <1>5, <3>1, <3>3, <3>4 DEF Detail!TypeOK, Good
    <2> QED BY <2>1, <2>2
  <1>9. DetailInv'
    BY <1>0, <1>5, <1>6, <1>8 DEF DetailInv, Good
  <1> QED BY <1>6, <1>7, <1>8, <1>9 DEF Follows

\* Writing another field of a record and its time.
LEMMA RecordWritten ==
  ASSUME Good(table), NEW id \in DOMAIN table, NEW new \in Detail!Stored,
         new.notes = table[id].notes,
         table' = [n \in DOMAIN table |-> IF n = id THEN new ELSE table[n]]
  PROVE  Good(table)' /\ DOMAIN table' = DOMAIN table /\ table'[id] = new
BY DEF Good

\* The fields of the rows shown.
LEMMA RowsFields ==
  ASSUME Detail!TypeOK
  PROVE  /\ rows = [title |-> rows.title, changed |-> rows.changed, readonly |-> rows.readonly]
         /\ rows.title \in Titles \cup {""} /\ rows.changed \in 0 .. 2
         /\ rows.readonly \in {"yes", "no", ""}
BY DEF Detail!TypeOK

\* The row shows the title only when the table got it.
LEMMA RenameKeeps ==
  ASSUME DetailInv, Detail!Rename
  PROVE  DetailInv' /\ Follows
  <1>0. /\ file = "write" /\ caret \in DOMAIN table /\ Detail!TypeOK /\ Good(table)
        /\ tree \subseteq DOMAIN table /\ Detail!RowsRight
        /\ UNCHANGED <<file, tree, caret, edit>>
    BY DEF Detail!Rename, DetailInv
  <1>1. last' \in [op : {"rename"}, failed : BOOLEAN] /\ last'.op = "rename"
    BY DEF Detail!Rename, Detail!Step
  <1>2. PICK title \in Titles : Detail!MainWmNotifyTvnEndLabelEdit(title)
    BY DEF Detail!Rename
  <1>3. CASE UNCHANGED <<table, rows>>
    BY <1>0, <1>1, <1>3 DEF DetailInv, Follows, Detail!TypeOK, Detail!RowsRight,
                  Detail!RowsShowItem, Good
  <1>4. CASE /\ table' = Detail!DbUpdateItemTitle(caret, title)
             /\ rows' = [rows EXCEPT !.title = title, !.changed = table'[caret].changed]
    <2> DEFINE new == [table[caret] EXCEPT !.title = title, !.changed = Detail!GetDateTimeNow(@)]
    <2>1. table[caret] \in Detail!Stored /\ Detail!GetDateTimeNow(table[caret].changed) \in 0 .. 2
      BY <1>0, StoredFields, NextTime DEF Good
    <2>2. table' = [n \in DOMAIN table |-> IF n = caret THEN new ELSE table[n]]
      BY <1>0, <1>4 DEF Detail!DbUpdateItemTitle
    <2>3. new \in Detail!Stored /\ new.title = title /\ new.readonly = table[caret].readonly
          /\ new.notes = table[caret].notes /\ new.changed \in 0 .. 2
      BY <2>1 DEF Detail!Stored
    <2> HIDE DEF new
    <2>4. Good(table)' /\ DOMAIN table' = DOMAIN table /\ table'[caret] = new
      BY <1>0, <2>2, <2>3, RecordWritten
    <2>5. rows' = [title |-> title, changed |-> new.changed, readonly |-> rows.readonly]
          /\ rows.readonly \in {"yes", "no", ""}
      BY <1>0, <1>4, <2>4, RowsFields
    <2>6. rows' \in [title : Titles \cup {""}, changed : 0..2, readonly : {"yes", "no", ""}]
      BY <2>3, <2>5
    <2>7. rows' = Detail!Rows(table'[caret'])
      BY <1>0, <2>3, <2>4, <2>5 DEF Detail!Rows, Detail!RowsRight
    <2>8. Detail!RowsRight' /\ Detail!RowsShowItem'
      BY <1>0, <2>4, <2>7, RowsOfShown
    <2>9. Detail!TypeOK'
      BY <1>0, <1>1, <2>4, <2>6 DEF Detail!TypeOK, Good
    <2>10. DetailInv'
      BY <1>0, <2>4, <2>8, <2>9 DEF DetailInv
    <2> QED BY <1>0, <1>1, <2>4, <2>8, <2>10 DEF Follows
  <1> QED BY <1>2, <1>3, <1>4 DEF Detail!MainWmNotifyTvnEndLabelEdit

\* Rows and notes follow only when the table did.
LEMMA ReadOnlyKeeps ==
  ASSUME DetailInv, Detail!AppTreeViewSetReadOnlyItem
  PROVE  DetailInv' /\ Follows
  <1>0. /\ file = "write" /\ caret \in DOMAIN table /\ Detail!TypeOK /\ Good(table)
        /\ tree \subseteq DOMAIN table /\ Detail!RowsRight
        /\ UNCHANGED <<file, tree, caret>>
    BY DEF Detail!AppTreeViewSetReadOnlyItem, DetailInv
  <1>1. last' \in [op : {"readonly"}, failed : BOOLEAN] /\ last'.op = "readonly"
    BY DEF Detail!AppTreeViewSetReadOnlyItem, Detail!Step
  <1> DEFINE flag == ~table[caret].readonly
  <1>2. \/ UNCHANGED <<table, rows, edit>>
        \/ /\ table' = Detail!DbSetReadOnlyItem(caret, flag)
           /\ rows' = [rows EXCEPT !.changed = table'[caret].changed,
                                   !.readonly = Detail!GetReadOnlyValue(flag)]
           /\ edit' = [edit EXCEPT !.readonly = flag]
    BY DEF Detail!AppTreeViewSetReadOnlyItem
  <1>r. flag \in BOOLEAN
    OBVIOUS
  <1> HIDE DEF flag
  <1>3. CASE UNCHANGED <<table, rows, edit>>
    BY <1>0, <1>1, <1>3 DEF DetailInv, Follows, Detail!TypeOK, Detail!RowsRight,
                  Detail!RowsShowItem, Good
  <1>4. CASE /\ table' = Detail!DbSetReadOnlyItem(caret, flag)
             /\ rows' = [rows EXCEPT !.changed = table'[caret].changed,
                                     !.readonly = Detail!GetReadOnlyValue(flag)]
             /\ edit' = [edit EXCEPT !.readonly = flag]
    <2> DEFINE new == [table[caret] EXCEPT !.readonly = flag, !.changed = Detail!GetDateTimeNow(@)]
    <2>1. table[caret] \in Detail!Stored /\ Detail!GetDateTimeNow(table[caret].changed) \in 0 .. 2
      BY <1>0, StoredFields, NextTime DEF Good
    <2>2. table' = [n \in DOMAIN table |-> IF n = caret THEN new ELSE table[n]]
      BY <1>0, <1>4 DEF Detail!DbSetReadOnlyItem
    <2>3. new \in Detail!Stored /\ new.title = table[caret].title /\ new.readonly = flag
          /\ new.notes = table[caret].notes /\ new.changed \in 0 .. 2
      BY <2>1, <1>r DEF Detail!Stored
    <2> HIDE DEF new
    <2>4. Good(table)' /\ DOMAIN table' = DOMAIN table /\ table'[caret] = new
      BY <1>0, <2>2, <2>3, RecordWritten
    <2>5. rows' = [title |-> rows.title, changed |-> new.changed,
                   readonly |-> Detail!GetReadOnlyValue(flag)]
          /\ rows.title \in Titles \cup {""}
      BY <1>0, <1>4, <2>4, RowsFields
    <2>6. rows' \in [title : Titles \cup {""}, changed : 0..2, readonly : {"yes", "no", ""}]
      BY <2>3, <2>5 DEF Detail!GetReadOnlyValue
    <2>7. rows' = Detail!Rows(table'[caret'])
      BY <1>0, <2>3, <2>4, <2>5 DEF Detail!Rows, Detail!RowsRight
    <2>8. Detail!RowsRight' /\ Detail!RowsShowItem'
      BY <1>0, <2>4, <2>7, RowsOfShown
    <2>e. edit' \in [text : Detail!Texts \cup {Detail!EmptyText}, modified : BOOLEAN, readonly : BOOLEAN]
          /\ edit'.text = edit.text
      BY <1>0, <1>4, <1>r DEF Detail!TypeOK
    <2>9. Detail!TypeOK'
      BY <1>0, <1>1, <2>4, <2>6, <2>e DEF Detail!TypeOK, Good
    <2>10. DetailInv'
      BY <1>0, <2>4, <2>8, <2>9, <2>e DEF DetailInv
    <2> QED BY <1>0, <1>1, <2>4, <2>8, <2>10 DEF Follows
  <1> QED BY <1>2, <1>3, <1>4

\* What is typed remains the selected record's.
LEMMA TypeKeeps ==
  ASSUME DetailInv, Detail!Type
  PROVE  DetailInv' /\ Follows
  <1>0. /\ UNCHANGED <<file, table, tree, caret, rows>> /\ caret # Detail!NoItem
        /\ edit' = [edit EXCEPT !.text.version = 1 - @, !.modified = TRUE]
        /\ edit.text.of = caret /\ edit.text \in Detail!Texts /\ Detail!TypeOK
    BY DEF Detail!Type, DetailInv
  <1>1. last' \in [op : {"type"}, failed : BOOLEAN] /\ last'.op = "type"
    BY DEF Detail!Type, Detail!Step
  <1>2. edit'.text = [edit.text EXCEPT !.version = 1 - @] /\ edit' =
          [edit EXCEPT !.text = edit'.text, !.modified = TRUE]
    BY <1>0 DEF Detail!TypeOK
  <1>3. edit'.text.of = caret /\ edit'.text \in Detail!Texts
    BY <1>0, <1>2 DEF Detail!Texts
  <1>4. edit' \in [text : Detail!Texts \cup {Detail!EmptyText}, modified : BOOLEAN, readonly : BOOLEAN]
    BY <1>0, <1>2, <1>3 DEF Detail!TypeOK
  <1>5. Detail!TypeOK'
    BY <1>0, <1>1, <1>4 DEF Detail!TypeOK
  <1> QED BY <1>0, <1>1, <1>3, <1>5 DEF DetailInv, Follows, Good, Detail!RowsRight,
       Detail!RowsShowItem

\* Saving writes a time that the rows do not get: the one step that may part
\* them.
LEMMA SaveKeeps ==
  ASSUME DetailInv, Detail!AppSaveFile
  PROVE  DetailInv' /\ Follows
  <1>0. /\ file = "write" /\ UNCHANGED <<file, tree, caret, rows>>
        /\ edit' = [edit EXCEPT !.modified = @ /\ caret = Detail!NoItem]
        /\ Detail!TypeOK /\ Good(table) /\ tree \subseteq DOMAIN table
    BY DEF Detail!AppSaveFile, DetailInv
  <1>1. PICK b \in Detail!Write : 
          table' = IF caret = Detail!NoItem THEN table ELSE Detail!SaveNotesChanges(table, caret, b)
    BY DEF Detail!AppSaveFile
  <1>2. last' \in [op : {"save"}, failed : BOOLEAN] /\ last'.op = "save"
    BY DEF Detail!AppSaveFile, Detail!Step
  <1>3. Good(table)' /\ SameRows(table, table')
    BY <1>0, <1>1, NotesSaved DEF DetailInv, SameRows, Good
  <1>4. edit' \in [text : Detail!Texts \cup {Detail!EmptyText}, modified : BOOLEAN, readonly : BOOLEAN]
        /\ edit'.text = edit.text
    BY <1>0 DEF Detail!TypeOK
  <1>5. Detail!TypeOK'
    BY <1>0, <1>2, <1>3, <1>4 DEF Detail!TypeOK, Good
  <1>6. Detail!RowsRight'
    BY <1>0, <1>3 DEF DetailInv, Detail!RowsRight, SameRows
  <1>7. ~edit.modified => table' = table
    BY <1>1 DEF Detail!SaveNotesChanges
  <1>8. DetailInv'
    BY <1>0, <1>3, <1>4, <1>5, <1>6 DEF DetailInv, SameRows
  <1>9. Detail!RowsShowItem /\ ~Detail!RowsShowItem' => edit.modified
    BY <1>0, <1>7 DEF Detail!RowsShowItem
  <1> QED BY <1>0, <1>2, <1>3, <1>8, <1>9 DEF Follows, SameRows

\* Every set of ids that is not empty has a first one.
LEMMA FirstId ==
  ASSUME NEW S, S \subseteq Detail!Ids, S # {}
  PROVE  \E n \in S : \A m \in S : n <= m
  <1>1. S \subseteq Nat
    BY DEF Detail!Ids
  <1> DEFINE R == OpToRel(<, Nat)
  <1>2. IsWellFoundedOn(R, Nat)
    BY NatLessThanWellFounded
  <1>3. \A x, y \in Nat : x < y => <<x, y>> \in R
    BY DEF OpToRel
  <1> HIDE DEF R
  <1>4. PICK n \in S : \A m \in S : ~(<<m, n>> \in R)
    BY <1>1, <1>2, WFMin
  <1>5. ASSUME NEW m \in S PROVE n <= m
    <2>1. ~(m < n)
      BY <1>1, <1>3, <1>4
    <2> QED BY <1>1, <2>1
  <1> QED BY <1>5

\* Opening shows the first record.
LEMMA OpenKeeps ==
  ASSUME DetailInv, ~ReadsFail, Detail!OpenFileInternal
  PROVE  DetailInv' /\ Follows
  <1>0. /\ file = "none" /\ file' \in {"read", "write"} /\ tree' = DOMAIN table
        /\ UNCHANGED table /\ Detail!TypeOK /\ Good(table) /\ tree = {} /\ Detail!RowsRight
        /\ caret = Detail!NoItem
    BY DEF Detail!OpenFileInternal, DetailInv, Detail!TypeOK
  <1>1. last' \in [op : {"open"}, failed : BOOLEAN]
    BY DEF Detail!OpenFileInternal, Detail!Step
  <1>2. CASE tree' = {}
    <2>1. caret' = Detail!NoItem /\ UNCHANGED <<edit, rows>>
      BY <1>2 DEF Detail!OpenFileInternal
    <2>2. Detail!RowsRight' /\ Detail!TypeOK' /\ (Detail!RowsShowItem => Detail!RowsShowItem')
      BY <1>0, <1>1, <2>1 DEF Detail!RowsRight, Detail!RowsShowItem, Detail!TypeOK
    <2> QED BY <1>0, <2>1, <2>2 DEF DetailInv, Follows, Good
  <1>3. CASE tree' # {}
    <2> DEFINE first == CHOOSE n \in tree' : \A m \in tree' : n <= m
    <2>1. /\ caret' = first
          /\ rows' = Detail!Rows(table[caret'])
          /\ edit' = [text |-> table[caret'].notes, modified |-> FALSE,
                      readonly |-> table[caret'].readonly \/ file' = "read"]
      BY <1>3 DEF Detail!OpenFileInternal, Detail!Read
    <2>2. caret' \in tree' /\ caret' \in DOMAIN table'
      <3>1. tree' \subseteq Detail!Ids
        BY <1>0 DEF Good
      <3>2. \E n \in tree' : \A m \in tree' : n <= m
        BY <1>3, <3>1, FirstId
      <3>3. first \in tree'
        BY <3>2
      <3> QED BY <2>1, <3>3, <1>0
    <2> HIDE DEF first
    <2>3. table[caret'] \in Detail!Stored /\ table[caret'].notes.of = caret'
      BY <1>0, <2>2 DEF Good
    <2>4. /\ table[caret'].title \in Titles /\ table[caret'].notes \in Detail!Texts
          /\ table[caret'].changed \in 0 .. 2 /\ table[caret'].readonly \in BOOLEAN
      BY <2>3, StoredFields
    <2>5. rows' \in [title : Titles \cup {""}, changed : 0..2, readonly : {"yes", "no", ""}]
      BY <2>1, <2>4 DEF Detail!Rows, Detail!GetReadOnlyValue
    <2>6. (table[caret'].readonly \/ file' = "read") \in BOOLEAN
      OBVIOUS
    <2>7. edit' \in [text : Detail!Texts \cup {Detail!EmptyText}, modified : BOOLEAN,
                     readonly : BOOLEAN] /\ edit'.text = table[caret'].notes
      BY <2>1, <2>4, <2>6
    <2>8. Detail!RowsRight' /\ Detail!RowsShowItem'
      BY <1>0, <2>1, <2>2, RowsOfShown
    <2>9. Detail!TypeOK'
      BY <1>0, <1>1, <2>2, <2>5, <2>7 DEF Detail!TypeOK, Good
    <2> QED BY <1>0, <2>2, <2>3, <2>4, <2>7, <2>8, <2>9 DEF DetailInv, Follows, Good
  <1> QED BY <1>2, <1>3

\* Closing saves the notes and empties the views.
LEMMA CloseKeeps ==
  ASSUME DetailInv, Detail!AppCloseFile
  PROVE  DetailInv' /\ Follows
  <1>0. /\ tree' = {} /\ rows' = Detail!BlankRows /\ caret' = Detail!NoItem /\ file' = "none"
        /\ Detail!TypeOK /\ Good(table)
    BY DEF Detail!AppCloseFile, Detail!ClearWorkspace, DetailInv
  <1>1. last' \in [op : {"close"}, failed : BOOLEAN]
    BY DEF Detail!AppCloseFile, Detail!Step
  <1>2. PICK b \in Detail!Write, yes \in BOOLEAN :
          table' = IF ~yes THEN Detail!NewFile
                   ELSE IF caret # Detail!NoItem THEN Detail!SaveNotesChanges(table, caret, b)
                   ELSE table
    BY DEF Detail!AppCloseFile
  <1>3. Good(table)'
    <2>1. CASE table' = Detail!NewFile
      BY <2>1 DEF Good, Detail!NewFile
    <2>2. CASE table' = table
      BY <1>0, <2>2 DEF Good
    <2>3. CASE caret # Detail!NoItem /\ table' = Detail!SaveNotesChanges(table, caret, b)
      BY <1>0, <2>3, NotesSaved DEF DetailInv, Good
    <2> QED BY <1>2, <2>1, <2>2, <2>3
  <1>4. edit' \in [text : Detail!Texts \cup {Detail!EmptyText}, modified : BOOLEAN, readonly : BOOLEAN]
        /\ edit'.text = Detail!EmptyText /\ ~edit'.modified
    <2>1. PICK r \in BOOLEAN : edit' = [text |-> Detail!EmptyText, modified |-> FALSE, readonly |-> r]
      <3>1. edit.readonly \in BOOLEAN
        BY <1>0 DEF Detail!TypeOK
      <3>2. PICK r \in {edit.readonly} \cup IF caret = Detail!NoItem THEN {} ELSE {file = "read"} :
              edit' = [text |-> Detail!EmptyText, modified |-> FALSE, readonly |-> r]
        BY DEF Detail!AppCloseFile, Detail!ClearWorkspace
      <3>3. r = edit.readonly \/ r = (file = "read")
        BY <3>2
      <3> QED BY <3>1, <3>2, <3>3
    <2> QED BY <2>1
  <1>5. Detail!RowsRight' /\ Detail!RowsShowItem'
    BY <1>0, <1>3, NothingSelected
  <1>6. Detail!TypeOK'
    BY <1>0, <1>1, <1>3, <1>4, EmptyTypes DEF Detail!TypeOK, Good
  <1> QED BY <1>0, <1>3, <1>5, <1>6 DEF DetailInv, Follows

\* At first there is no file.
LEMMA InitDetailInv == Detail!Init => DetailInv
  <1> SUFFICES ASSUME Detail!Init PROVE DetailInv
    OBVIOUS
  <1>1. Good(table)
    BY DEF Detail!Init, Good, Detail!NewFile
  <1>2. Detail!RowsRight
    BY DEF Detail!Init, Detail!RowsRight, Detail!NewFile, Detail!BlankRows
  <1>3. Detail!TypeOK
    BY <1>1, EmptyTypes DEF Detail!Init, Detail!TypeOK, Good
  <1> QED BY <1>1, <1>2, <1>3 DEF Detail!Init, DetailInv

\* If no read fails, every step keeps the invariant and its promise.
LEMMA NextDetailInv ==
  ASSUME ~ReadsFail
  PROVE  DetailInv /\ [Detail!Next]_(Detail!vars) =>
           DetailInv' /\ (Detail!Next => Follows)
  <1> SUFFICES ASSUME DetailInv, [Detail!Next]_(Detail!vars)
               PROVE  DetailInv' /\ (Detail!Next => Follows)
    OBVIOUS
  <1>1. CASE Detail!Next
    BY <1>1, OpenKeeps, CloseKeeps, SaveKeeps, SelectKeeps, AddKeeps, DeleteKeeps, RenameKeeps,
       ReadOnlyKeeps, TypeKeeps DEF Detail!Next
  <1>2. CASE UNCHANGED Detail!vars /\ ~Detail!Next
    <2>1. UNCHANGED <<file, table, tree, caret, edit, rows, last>>
      BY <1>2 DEF Detail!vars
    <2>2. Detail!TypeOK'
      BY <2>1, ZenonT(40) DEF DetailInv, Detail!TypeOK
    <2>3. Good(table)' /\ Detail!RowsRight'
      BY <2>1 DEF DetailInv, Detail!RowsRight, Good
    <2> QED BY <1>2, <2>1, <2>2, <2>3 DEF DetailInv
  <1> QED BY <1>1, <1>2

\* If no read of a record fails, the list and the notes are those of the selected
\* record whatever writes fail, for every number of records and every set of
\* titles.  (With a read that fails they are not: the run Details_load.)
THEOREM DetailsAreRight ==
  ASSUME ~ReadsFail
  PROVE  Detail!Spec => []DetailsRight
  <1>1. DetailInv /\ [Detail!Next]_(Detail!vars) => DetailInv'
    BY NextDetailInv
  <1>2. DetailInv => DetailsRight
    BY DEF DetailInv, DetailsRight, Good, Detail!NotesOfOwnRecord
  <1> QED BY <1>1, <1>2, InitDetailInv, PTL DEF Detail!Spec

\* ... only saving notes makes the list fall behind, and items and records stay
\* together.
THEOREM DetailsFollowRecords ==
  ASSUME ~ReadsFail
  PROVE  Detail!Spec => DetailsFollow
  <1>1. DetailInv /\ [Detail!Next]_(Detail!vars) => DetailInv'
    BY NextDetailInv
  <1>2. ASSUME DetailInv, Detail!Next PROVE Follows
    BY <1>2, NextDetailInv
  <1>3. DetailInv /\ [Detail!Next]_(Detail!vars) =>
          [Detail!RowsShowItem /\ ~Detail!RowsShowItem' => last'.op = "save" /\ edit.modified]_(Detail!vars)
    BY <1>2 DEF Follows
  <1>4. DetailInv /\ [Detail!Next]_(Detail!vars) =>
          [/\ tree \subseteq DOMAIN table => tree' \subseteq DOMAIN table'
           /\ file # "none" /\ file' # "none" /\ ~last'.failed
                => DOMAIN table' \ tree' \subseteq DOMAIN table \ tree]_(Detail!vars)
    BY <1>2 DEF Follows
  <1> QED
    BY <1>1, <1>3, <1>4, InitDetailInv, PTL
       DEF Detail!Spec, DetailsFollow, Detail!RowsFollowRecord, Detail!TreeWithinTable

-----------------------------------------------------------------------------
(* The drop target *)

\* Who holds references, and how many there are.
Counted ==
    \/ holders = {} /\ refCount = 0 /\ object \in {"none", "freed"}
    \/ holders = {"app", "ole"} /\ refCount = 2 /\ object = "alive"
    \/ holders = {"app", "ole", "drag"} /\ refCount = 3 /\ object = "alive"
    \/ holders = {"drag"} /\ refCount = 1 /\ object = "alive" /\ window = "gone"

\* A drag in progress holds a reference, and its effect is what the last call
\* made of it.
DropInv ==
    /\ Drop!TypeOK /\ Counted /\ Drop!BestFormatOffered
    /\ drag # NULL <=> "drag" \in holders
    /\ window = "writable" => object # "none"
    /\ drag # NULL => effect = IF allowDrop THEN Drop!EditWndUpdateDropEffect(drag) ELSE {}

\* The sizes of the sets of holders.
LEMMA HolderCounts ==
  /\ Drop!Cardinality({"drag"}) = 1
  /\ Drop!Cardinality({"ole", "app"}) = 2 /\ Drop!Cardinality({"app", "ole"}) = 2
  /\ Drop!Cardinality({"app", "ole", "drag"}) = 3
  <1>1. \A S : Drop!Cardinality(S) = Cardinality(S)
    BY DEF Drop!Cardinality, Cardinality
  <1>2. Cardinality({"drag"}) = 1 /\ Cardinality({"app"}) = 1 /\ IsFiniteSet({"app"})
    BY FS_Singleton
  <1> DEFINE P == {"app"} \cup {"ole"}
  <1>3. Cardinality(P) = 2 /\ IsFiniteSet(P)
    BY <1>2, FS_AddElement
  <1>4. {"ole", "app"} = P /\ {"app", "ole"} = P /\ {"app", "ole", "drag"} = P \cup {"drag"}
        /\ "drag" \notin P
    OBVIOUS
  <1> HIDE DEF P
  <1>5. Cardinality(P \cup {"drag"}) = 3
    BY <1>3, <1>4, FS_AddElement
  <1> QED BY <1>1, <1>2, <1>3, <1>4, <1>5

\* The formats in our order of preference.
LEMMA FormatIndexes ==
  /\ DOMAIN Drop!SupportedFormats = {1, 2}
  /\ Drop!SupportedFormats[1] = "unicode" /\ Drop!SupportedFormats[2] = "text"
BY DEF Drop!SupportedFormats

\* The best format of those that can be used.
LEMMA BestFormat ==
  ASSUME NEW formats \in SUBSET {"unicode", "text"},
         Drop!SetSupportedDropFormat(formats) # {}
  PROVE  LET best == Drop!Min(Drop!SetSupportedDropFormat(formats)) IN
         /\ best \in DOMAIN Drop!SupportedFormats
         /\ Drop!SupportedFormats[best] \in formats
         /\ \A i \in 1 .. (best - 1) : Drop!SupportedFormats[i] \notin formats
  <1> DEFINE F == Drop!SupportedFormats
             usable == Drop!SetSupportedDropFormat(formats)
             best == Drop!Min(usable)
  <1>1. DOMAIN F = {1, 2} /\ F[1] = "unicode" /\ F[2] = "text"
    BY FormatIndexes
  <1>2. usable = {n \in DOMAIN F : F[n] \in formats}
    BY DEF Drop!SetSupportedDropFormat
  <1> HIDE DEF F, usable
  <1>3. \E n \in usable : \A m \in usable : n <= m
    BY <1>1, <1>2 DEF usable
  <1>4. best \in usable /\ \A m \in usable : best <= m
    BY <1>3 DEF Drop!Min
  <1>5. best \in {1, 2}
    BY <1>1, <1>2, <1>4
  <1> HIDE DEF best
  <1>6. \A i \in 1 .. (best - 1) : F[i] \notin formats
    <2> SUFFICES ASSUME NEW i \in 1 .. (best - 1) PROVE F[i] \notin formats
      OBVIOUS
    <2>1. i \in DOMAIN F /\ ~(best <= i)
      BY <1>1, <1>5
    <2> QED BY <2>1, <1>2, <1>4
  <1> QED BY <1>1, <1>2, <1>4, <1>6 DEF F, usable, best

\* The effect reported is one that the source allows.
LEMMA EffectAllowed ==
  ASSUME NEW d \in Drop!Offers
  PROVE  /\ d.effects \subseteq Drop!Effects
         /\ Drop!EditWndUpdateDropEffect(d) \subseteq d.effects
BY DEF Drop!Offers, Drop!EditWndUpdateDropEffect

\* At first there is no object.
LEMMA InitDropInv == Drop!Init => DropInv
  <1> SUFFICES ASSUME Drop!Init PROVE DropInv
    OBVIOUS
  <1>1. Drop!TypeOK
    <2>1. object \in {"none", "alive", "freed"} /\ refCount \in 0 .. 3 /\ holders \subseteq {"app", "ole", "drag"}
      BY DEF Drop!Init
    <2>2. allowDrop \in BOOLEAN 
      BY DEF Drop!Init
    <2>3. formatIndex \in DOMAIN Drop!SupportedFormats
      BY FormatIndexes DEF Drop!Init
    <2>4. window \in {"writable", "readonly", "gone"} /\ length \in 0 .. Limit
      BY DropAssumption DEF Drop!Init
    <2>5. drag \in Drop!Offers \cup {NULL}  /\ effect \subseteq Drop!Effects
      BY DEF Drop!Init
    <2> QED BY <2>1, <2>2, <2>3, <2>4, <2>5 DEF Drop!TypeOK
  <1>2. Drop!BestFormatOffered
    BY DEF Drop!Init, Drop!BestFormatOffered
  <1> QED BY <1>1, <1>2 DEF Drop!Init, DropInv, Counted

\* No call of OLE or of the main window disturbs the invariant.
LEMMA NextDropInv == DropInv /\ [Drop!Next]_(Drop!vars) => DropInv'
  <1> SUFFICES ASSUME DropInv, [Drop!Next]_(Drop!vars) PROVE DropInv'
    OBVIOUS
  <1> USE HolderCounts, DropAssumption DEF Drop!com
  <1>t. /\ Drop!TypeOK /\ Counted /\ Drop!BestFormatOffered
        /\ drag # NULL <=> "drag" \in holders
        /\ window = "writable" => object # "none"
        /\ drag # NULL => effect = IF allowDrop THEN Drop!EditWndUpdateDropEffect(drag) ELSE {}
    BY DEF DropInv
  <1>1. CASE Drop!RegisterDropWindow
    <2>1. drag = NULL /\ holders = {} /\ refCount = 0
      BY <1>1, <1>t DEF Drop!RegisterDropWindow, Counted
    <2>2. Drop!TypeOK'
      <3>1. refCount' \in 0 .. 3 /\ holders' \subseteq {"app", "ole", "drag"}
        BY <1>1, <2>1 DEF Drop!RegisterDropWindow
      <3> QED BY <1>1, <1>t, <3>1, FormatIndexes DEF Drop!RegisterDropWindow, Drop!TypeOK
    <2>3. Counted'
      BY <1>1, <2>1 DEF Drop!RegisterDropWindow, Counted
    <2>4. Drop!BestFormatOffered'
      BY <1>1, <2>1 DEF Drop!RegisterDropWindow, Drop!BestFormatOffered
    <2> QED BY <1>1, <1>t, <2>1, <2>2, <2>3, <2>4 DEF Drop!RegisterDropWindow, DropInv
  <1>2. CASE Drop!UnregisterDropWindow
    <2>1. /\ Counted' /\ refCount' \in 0 .. 3 /\ object' \in {"none", "alive", "freed"}
          /\ holders' \subseteq holders /\ ("drag" \in holders' <=> "drag" \in holders)
      <3>1. CASE UNCHANGED <<object, refCount, holders>>
        BY <1>2, <1>t, <3>1 DEF Counted, Drop!TypeOK, Drop!UnregisterDropWindow
      <3>2. CASE /\ "ole" \in holders /\ refCount' = refCount - 2 /\ holders' = holders \ {"ole", "app"}
                 /\ object' = IF refCount' = 0 THEN "freed" ELSE object
        <4>1. CASE holders = {"app", "ole"} /\ refCount = 2 /\ object = "alive"
          <5>1. holders' = {} /\ refCount' = 0 /\ object' = "freed"
            BY <3>2, <4>1
          <5> QED BY <4>1, <5>1 DEF Counted
        <4>2. CASE holders = {"app", "ole", "drag"} /\ refCount = 3 /\ object = "alive"
          <5>1. holders' = {"drag"} /\ refCount' = 1 /\ object' = "alive" /\ window' = "gone"
            BY <1>2, <3>2, <4>2 DEF Drop!UnregisterDropWindow
          <5> QED BY <4>2, <5>1 DEF Counted
        <4> QED BY <1>t, <3>2, <4>1, <4>2 DEF Counted
      <3> QED BY <1>2, <3>1, <3>2 DEF Drop!UnregisterDropWindow, Drop!IEditDropTarget_Release
    <2>2. window' = "gone" /\ UNCHANGED <<allowDrop, formatIndex, length, drag, effect>>
      BY <1>2 DEF Drop!UnregisterDropWindow
    <2>3. Drop!TypeOK'
      BY <1>t, <2>1, <2>2 DEF Drop!TypeOK
    <2>4. Drop!BestFormatOffered'
      BY <1>t, <2>2 DEF Drop!BestFormatOffered
    <2> QED BY <1>t, <2>1, <2>2, <2>3, <2>4 DEF DropInv
  <1>3. ASSUME NEW d \in Drop!Offers, Drop!IEditDropTarget_DragEnter(d) PROVE DropInv'
    <2> DEFINE usable == Drop!SetSupportedDropFormat(d.formats)
    <2>1. /\ drag = NULL /\ "ole" \in holders /\ window # "gone" /\ drag' = d
          /\ allowDrop' = (window = "writable" /\ Drop!IsEditSpaceAvailable /\ usable # {})
          /\ formatIndex' = IF allowDrop' THEN Drop!Min(usable) ELSE formatIndex
          /\ effect' = IF allowDrop' THEN Drop!EditWndUpdateDropEffect(d) ELSE {}
          /\ refCount' = refCount + 1 /\ holders' = holders \cup {"drag"}
          /\ UNCHANGED <<object, window, length>>
      BY <1>3 DEF Drop!IEditDropTarget_DragEnter, Drop!IEditDropTarget_AddRef
    <2>2. d.formats \in SUBSET {"unicode", "text"} /\ drag' # NULL
      BY <2>1 DEF Drop!Offers
    <2> HIDE DEF usable
    <2>3. allowDrop' \in BOOLEAN
      BY <2>1
    <2>4. allowDrop' =>
            /\ formatIndex' \in DOMAIN Drop!SupportedFormats
            /\ Drop!SupportedFormats[formatIndex'] \in d.formats
            /\ \A i \in 1 .. (formatIndex' - 1) : Drop!SupportedFormats[i] \notin d.formats
      BY <2>1, <2>2, BestFormat DEF usable
    <2>5. effect' \subseteq d.effects /\ effect' \subseteq Drop!Effects
      BY <2>1, EffectAllowed
    <2>6. Counted'
      BY <2>1, <1>t DEF Counted
    <2>7. formatIndex' \in DOMAIN Drop!SupportedFormats
      BY <2>1, <2>4, <1>t DEF Drop!TypeOK
    <2>8. Drop!TypeOK'
      BY <2>1, <2>3, <2>5, <2>6, <2>7, <1>t DEF Drop!TypeOK, Counted
    <2>9. Drop!BestFormatOffered'
      BY <2>1, <2>4 DEF Drop!BestFormatOffered
    <2> QED BY <1>t, <2>1, <2>2, <2>5, <2>6, <2>8, <2>9 DEF DropInv
  <1>4. CASE Drop!IEditDropTarget_DragOver
    <2>1. PICK ctrl \in BOOLEAN : drag' = [drag EXCEPT !.ctrl = ctrl]
      BY <1>4 DEF Drop!IEditDropTarget_DragOver
    <2>2. /\ drag # NULL /\ drag \in Drop!Offers
          /\ effect' = IF allowDrop THEN Drop!EditWndUpdateDropEffect(drag') ELSE {}
          /\ UNCHANGED <<object, refCount, holders, allowDrop, formatIndex, window, length>>
      BY <1>4, <1>t DEF Drop!IEditDropTarget_DragOver, Drop!TypeOK
    <2>3. drag' \in Drop!Offers /\ drag'.formats = drag.formats /\ drag'.effects = drag.effects
      BY <2>1, <2>2 DEF Drop!Offers
    <2>4. effect' \subseteq drag'.effects /\ effect' \subseteq Drop!Effects
      BY <2>2, <2>3, EffectAllowed
    <2>5. Drop!TypeOK'
      BY <1>t, <2>2, <2>3, <2>4 DEF Drop!TypeOK
    <2>6. Drop!BestFormatOffered'
      BY <1>t, <2>2, <2>3 DEF Drop!BestFormatOffered
    <2> QED BY <1>t, <2>2, <2>3, <2>4, <2>5, <2>6 DEF DropInv, Counted
  <1>5. CASE Drop!IEditDropTarget_DragLeave \/ Drop!IEditDropTarget_Drop
    <2>1. /\ drag # NULL /\ drag \in Drop!Offers /\ drag' = NULL
          /\ refCount' = refCount - 1 /\ holders' = holders \ {"drag"}
          /\ object' = IF refCount' = 0 THEN "freed" ELSE object
          /\ UNCHANGED <<allowDrop, formatIndex, window>>
      <3>1. drag # NULL /\ drag' = NULL /\ UNCHANGED <<allowDrop, formatIndex, window>>
        BY <1>5 DEF Drop!IEditDropTarget_DragLeave, Drop!IEditDropTarget_Drop
      <3>2. Drop!IEditDropTarget_Release({"drag"})
        BY <1>5 DEF Drop!IEditDropTarget_DragLeave, Drop!IEditDropTarget_Drop
      <3>3. drag \in Drop!Offers
        BY <1>t, <3>1, Zenon DEF Drop!TypeOK
      <3> QED BY <3>1, <3>2, <3>3 DEF Drop!IEditDropTarget_Release
    <2>2. Counted' /\ object' # "none"
      BY <2>1, <1>t DEF Counted
    <2>3. effect' \subseteq Drop!Effects
      BY <1>5, <2>1, EffectAllowed DEF Drop!IEditDropTarget_DragLeave, Drop!IEditDropTarget_Drop
    <2>4. length' \in 0 .. Limit
      <3>1. length \in 0 .. Limit /\ drag.size \in 1 .. MaxText
        BY <1>t, <2>1 DEF Drop!TypeOK, Drop!Offers
      <3>2. Drop!Min({drag.size, Limit - length}) \in 0 .. Limit - length
        <4>1. \E n \in {drag.size, Limit - length} : \A m \in {drag.size, Limit - length} : n <= m
          BY <3>1
        <4>2. /\ Drop!Min({drag.size, Limit - length}) \in {drag.size, Limit - length}
              /\ Drop!Min({drag.size, Limit - length}) <= Limit - length
          BY <4>1 DEF Drop!Min
        <4> QED BY <3>1, <4>2
      <3>3. \A n \in Drop!DropData(drag.size) : length + n \in 0 .. Limit
        BY <3>1, <3>2 DEF Drop!DropData
      <3> QED BY <1>5, <3>1, <3>3 DEF Drop!IEditDropTarget_DragLeave, Drop!IEditDropTarget_Drop
    <2>5. Drop!TypeOK'
      BY <1>t, <2>1, <2>2, <2>3, <2>4 DEF Drop!TypeOK, Counted
    <2>6. Drop!BestFormatOffered'
      BY <2>1 DEF Drop!BestFormatOffered
    <2> QED BY <1>t, <2>1, <2>2, <2>5, <2>6 DEF DropInv
  <1>6. CASE Drop!EditChanges
    <2>1. /\ UNCHANGED <<object, refCount, holders, allowDrop, formatIndex, drag, effect>>
          /\ window' \in {"writable", "readonly"} /\ length' \in 0 .. Limit
          /\ window # "gone" /\ object # "none"
      BY <1>6 DEF Drop!EditChanges
    <2>2. Drop!TypeOK'
      BY <1>t, <2>1 DEF Drop!TypeOK
    <2>3. Counted' /\ Drop!BestFormatOffered'
      BY <1>t, <2>1 DEF Counted, Drop!BestFormatOffered
    <2> QED BY <1>t, <2>1, <2>2, <2>3 DEF DropInv
  <1>7. CASE UNCHANGED Drop!vars
    BY <1>t, <1>7 DEF Drop!vars, DropInv, Drop!TypeOK, Counted, Drop!BestFormatOffered
  <1> QED BY <1>1, <1>2, <1>3, <1>4, <1>5, <1>6, <1>7 DEF Drop!Next

\* All the drop target promises, for every limit of the control and every text.
THEOREM DropTargetIsRight == Drop!Spec => DropRight
  <1>1. DropInv => Drop!TypeOK /\ Drop!NoDanglingTarget /\ Drop!FreedAtEnd /\ Drop!BestFormatOffered
    <2> SUFFICES ASSUME DropInv
                 PROVE  Drop!TypeOK /\ Drop!NoDanglingTarget /\ Drop!FreedAtEnd /\ Drop!BestFormatOffered
      OBVIOUS
    <2>1. Drop!NoDanglingTarget
      <3>1. Counted
        BY DEF DropInv
      <3>2. CASE holders = {"app", "ole"} /\ refCount = 2 /\ object = "alive"
        BY <3>2, HolderCounts DEF Drop!NoDanglingTarget
      <3>3. CASE holders = {"app", "ole", "drag"} /\ refCount = 3 /\ object = "alive"
        BY <3>3, HolderCounts DEF Drop!NoDanglingTarget
      <3>4. CASE holders = {"drag"} /\ refCount = 1 /\ object = "alive"
        BY <3>4, HolderCounts DEF Drop!NoDanglingTarget
      <3> QED BY <3>1, <3>2, <3>3, <3>4 DEF Counted, Drop!NoDanglingTarget
    <2>2. Drop!FreedAtEnd
      BY DEF DropInv, Counted, Drop!FreedAtEnd
    <2> QED BY <2>1, <2>2 DEF DropInv
  <1>2. DropInv /\ [Drop!Next]_(Drop!vars) =>
          [drag # NULL /\ drag' = NULL /\ length' # length =>
             allowDrop /\ effect' # {} /\ effect' \subseteq drag.effects]_(Drop!vars)
    <2> SUFFICES ASSUME DropInv, Drop!Next, drag # NULL, drag' = NULL, length' # length
                 PROVE  allowDrop /\ effect' # {} /\ effect' \subseteq drag.effects
      OBVIOUS
    <2>1. Drop!IEditDropTarget_Drop
      BY DropAssumption DEF Drop!Next, Drop!RegisterDropWindow, Drop!UnregisterDropWindow,
           Drop!IEditDropTarget_DragEnter, Drop!IEditDropTarget_DragOver,
           Drop!IEditDropTarget_DragLeave, Drop!EditChanges
    <2>2. drag \in Drop!Offers
          /\ effect = IF allowDrop THEN Drop!EditWndUpdateDropEffect(drag) ELSE {}
      BY DEF DropInv, Drop!TypeOK
    <2>3. allowDrop /\ effect # {} /\ effect' = Drop!EditWndUpdateDropEffect(drag)
      BY <2>1 DEF Drop!IEditDropTarget_Drop
    <2> QED BY <2>2, <2>3, EffectAllowed
  <1> QED
    BY <1>1, <1>2, InitDropInv, NextDropInv, PTL DEF Drop!Spec, DropRight, Drop!NoTextUnasked
-----------------------------------------------------------------------------
(* The menus: the theorems of MenusProofs, for the menus of the window *)

\* MenusProofs about the menus of the window.
MenuProof == INSTANCE MenusProofs WITH
                 file <- menuFile, caret <- menuCaret, focus <- menuFocus, enabled <- offered

\* The menus of the window are those of MenusProofs.
LEMMA SameMenus ==
  /\ MenuProof!Init <=> Menu!Init
  /\ [MenuProof!Next]_(MenuProof!vars) <=> [Menu!Next]_(Menu!vars)
  /\ MenuProof!TypeOK <=> Menu!TypeOK
  /\ MenuProof!LimitsKept <=> Menu!LimitsKept
  <1> USE DEF
        MenuProof!vars, Menu!vars, MenuProof!NoItem, Menu!NoItem, MenuProof!Items,
        Menu!Items, MenuProof!Nothing, Menu!Nothing, MenuProof!FileCommands,
        Menu!FileCommands, MenuProof!TextCommands, Menu!TextCommands,
        MenuProof!TreeCommands, Menu!TreeCommands, MenuProof!Controls, Menu!Controls,
        MenuProof!Selections, Menu!Selections, MenuProof!FileMenu, Menu!FileMenu,
        MenuProof!InitMenuStateForEdit, Menu!InitMenuStateForEdit,
        MenuProof!CanAddItem, Menu!CanAddItem, MenuProof!ItemCommands,
        Menu!ItemCommands, MenuProof!TreeMenu, Menu!TreeMenu, MenuProof!EditMenu,
        Menu!EditMenu, MenuProof!Drop, Menu!Drop, MenuProof!MainWmInitMenuPopup,
        Menu!MainWmInitMenuPopup, MenuProof!MainWmContextMenuTreeView,
        Menu!MainWmContextMenuTreeView, MenuProof!Dismiss, Menu!Dismiss,
        MenuProof!MainWmNotifyTvnBeginLabelEdit, Menu!MainWmNotifyTvnBeginLabelEdit,
        MenuProof!AppTreeViewNewItem, Menu!AppTreeViewNewItem,
        MenuProof!AppTreeViewDeleteItem, Menu!AppTreeViewDeleteItem,
        MenuProof!AppTreeViewSetReadOnlyItem, Menu!AppTreeViewSetReadOnlyItem,
        MenuProof!ProcessMenuCommandForTreeView, Menu!ProcessMenuCommandForTreeView,
        MenuProof!ProcessMenuCommandForEdit, Menu!ProcessMenuCommandForEdit,
        MenuProof!Did, Menu!Did, MenuProof!AppEditCommand, Menu!AppEditCommand,
        MenuProof!ShowFile, Menu!ShowFile, MenuProof!AppCloseFile, Menu!AppCloseFile,
        MenuProof!FileCommand, Menu!FileCommand, MenuProof!MainWindowProc,
        Menu!MainWindowProc, MenuProof!Choose, Menu!Choose, MenuProof!TreeKeys,
        Menu!TreeKeys, MenuProof!SetActiveAccel, Menu!SetActiveAccel,
        MenuProof!Accelerator, Menu!Accelerator, MenuProof!Aside, Menu!Aside,
        MenuProof!SetFocus, Menu!SetFocus, MenuProof!SelectItem, Menu!SelectItem,
        MenuProof!ClickLabel, Menu!ClickLabel, MenuProof!TypeOrSelect,
        Menu!TypeOrSelect, MenuProof!Init, Menu!Init, MenuProof!Next, Menu!Next
  <1>1. MenuProof!Init <=> Menu!Init
    BY Zenon
  <1>2. MenuProof!Next <=> Menu!Next
    BY Zenon
  <1>3. MenuProof!TypeOK <=> Menu!TypeOK
    BY Zenon DEF MenuProof!TypeOK, Menu!TypeOK
  <1>4. MenuProof!LimitsKept <=> Menu!LimitsKept
    BY Zenon DEF MenuProof!LimitsKept, Menu!LimitsKept
  <1> HIDE DEF MenuProof!Next, Menu!Next
  <1> QED BY <1>1, <1>2, <1>3, <1>4, Zenon

\* What the menus and keys of the window offer is done, for every number of
\* records and every depth.
THEOREM OffersAreKept == Menu!Spec => OffersKept
  <1>1. MenuProof!Limits
    BY MenuAssumption DEF MenuProof!Limits
  <1>2. MenuProof!Spec => []MenuProof!IInv
    BY <1>1, MenuProof!MenusInductive
  <1>3. MenuProof!Spec => []MenuProof!LimitsKept
    BY <1>1, MenuProof!LimitsAreKept
  <1>4. MenuProof!Spec => /\ MenuProof!OfferedIsDone /\ MenuProof!OnlyWriteFileWritten
                         /\ MenuProof!RenameStartsEdit /\ MenuProof!ItemDeletedOnlyFromTree
    BY <1>1, MenuProof!CommandsAreRight
  <1>5. MenuProof!IInv => MenuProof!TypeOK
    BY DEF MenuProof!IInv, MenuProof!Types
  <1>6. MenuProof!vars = Menu!vars /\ MenuProof!Nothing = Menu!Nothing
    BY DEF MenuProof!vars, Menu!vars, MenuProof!Nothing, Menu!Nothing
  <1>7. MenuProof!OfferedIsDone => Menu!OfferedIsDone
    <2>1. [(did' # MenuProof!Nothing /\ did'.from # "file" /\ (did'.from = "tree" => menuFocus = "tree") =>
             /\ did'.op = did'.command
             /\ did'.on = menuFocus \/ (did'.on = "tree" /\ did'.command = "readonly"))]_(MenuProof!vars)
      => [(did' # Menu!Nothing /\ did'.from # "file" /\ (did'.from = "tree" => menuFocus = "tree") =>
             /\ did'.op = did'.command
             /\ did'.on = menuFocus \/ (did'.on = "tree" /\ did'.command = "readonly"))]_(Menu!vars)
      BY Zenon DEF MenuProof!vars, Menu!vars, MenuProof!Nothing, Menu!Nothing
    <2> QED BY <2>1, PTL DEF MenuProof!OfferedIsDone, Menu!OfferedIsDone
  <1>8. MenuProof!OnlyWriteFileWritten => Menu!OnlyWriteFileWritten
    <2>1. [(did'.on = "tree" /\ did'.op # "none" => menuFile = "write")]_(MenuProof!vars)
      => [(did'.on = "tree" /\ did'.op # "none" => menuFile = "write")]_(Menu!vars)
      BY Zenon DEF MenuProof!vars, Menu!vars, MenuProof!Nothing, Menu!Nothing
    <2> QED BY <2>1, PTL DEF MenuProof!OnlyWriteFileWritten, Menu!OnlyWriteFileWritten
  <1>9. MenuProof!RenameStartsEdit => Menu!RenameStartsEdit
    <2>1. [(did'.on = "tree" /\ did'.op = "rename" => menuFocus' = "label")]_(MenuProof!vars)
      => [(did'.on = "tree" /\ did'.op = "rename" => menuFocus' = "label")]_(Menu!vars)
      BY Zenon DEF MenuProof!vars, Menu!vars, MenuProof!Nothing, Menu!Nothing
    <2> QED BY <2>1, PTL DEF MenuProof!RenameStartsEdit, Menu!RenameStartsEdit
  <1>10. MenuProof!ItemDeletedOnlyFromTree => Menu!ItemDeletedOnlyFromTree
    <2>1. [(items' < items /\ menuFile' = menuFile /\ did'.from # "file" => menuFocus = "tree")]_(MenuProof!vars)
      => [(items' < items /\ menuFile' = menuFile /\ did'.from # "file" => menuFocus = "tree")]_(Menu!vars)
      BY Zenon DEF MenuProof!vars, Menu!vars, MenuProof!Nothing, Menu!Nothing
    <2> QED BY <2>1, PTL DEF MenuProof!ItemDeletedOnlyFromTree, Menu!ItemDeletedOnlyFromTree
  <1> QED
    BY <1>2, <1>3, <1>4, <1>5, <1>7, <1>8, <1>9, <1>10, SameMenus, PTL
       DEF OffersKept, MenuProof!Spec, Menu!Spec

-----------------------------------------------------------------------------
(* The message loop.  First, messages taken from todo and put before the   *)
(* others; then the situations the window can be in, by what is still to   *)
(* be delivered; then each handler and each step of the user.              *)

\* The first message is taken, the others stay.
LEMMA Popped ==
  /\ \A s, a : s = <<a>> => s # <<>> /\ Head(s) = a /\ Tail(s) = <<>>
  /\ \A s, a, b : s = <<a, b>> => s # <<>> /\ Head(s) = a /\ Tail(s) = <<b>>
  /\ \A s, a, b, c : s = <<a, b, c>> => s # <<>> /\ Head(s) = a /\ Tail(s) = <<b, c>>
  /\ \A s, a, b, c, d : s = <<a, b, c, d>> => s # <<>> /\ Head(s) = a /\ Tail(s) = <<b, c, d>>
  /\ \A s, a, b, c, d, e : s = <<a, b, c, d, e>> => s # <<>> /\ Head(s) = a /\ Tail(s) = <<b, c, d, e>>
  /\ \A s, a, b, c, d, e, f : s = <<a, b, c, d, e, f>> => s # <<>> /\ Head(s) = a /\ Tail(s) = <<b, c, d, e, f>>
  <1>1. \A s, a : s = <<a>> => s # <<>> /\ Head(s) = a /\ Tail(s) = <<>>
    <2> SUFFICES ASSUME NEW s, NEW a, s = <<a>>
                 PROVE  s # <<>> /\ Head(s) = a /\ Tail(s) = <<>>
      OBVIOUS
    <2>1. <<a>> # <<>> /\ Head(<<a>>) = a
      OBVIOUS
    <2>2. Tail(<<a>>) = <<>>
      OBVIOUS
    <2> QED BY <2>1, <2>2, Zenon
  <1>2. \A s, a, b : s = <<a, b>> => s # <<>> /\ Head(s) = a /\ Tail(s) = <<b>>
    <2> SUFFICES ASSUME NEW s, NEW a, NEW b, s = <<a, b>>
                 PROVE  s # <<>> /\ Head(s) = a /\ Tail(s) = <<b>>
      OBVIOUS
    <2>1. <<a, b>> # <<>> /\ Head(<<a, b>>) = a
      OBVIOUS
    <2>2. Tail(<<a, b>>) = <<b>>
      OBVIOUS
    <2> QED BY <2>1, <2>2, Zenon
  <1>3. \A s, a, b, c : s = <<a, b, c>> => s # <<>> /\ Head(s) = a /\ Tail(s) = <<b, c>>
    <2> SUFFICES ASSUME NEW s, NEW a, NEW b, NEW c, s = <<a, b, c>>
                 PROVE  s # <<>> /\ Head(s) = a /\ Tail(s) = <<b, c>>
      OBVIOUS
    <2>1. <<a, b, c>> # <<>> /\ Head(<<a, b, c>>) = a
      OBVIOUS
    <2>2. Tail(<<a, b, c>>) = <<b, c>>
      OBVIOUS
    <2> QED BY <2>1, <2>2, Zenon
  <1>4. \A s, a, b, c, d : s = <<a, b, c, d>> => s # <<>> /\ Head(s) = a /\ Tail(s) = <<b, c, d>>
    <2> SUFFICES ASSUME NEW s, NEW a, NEW b, NEW c, NEW d, s = <<a, b, c, d>>
                 PROVE  s # <<>> /\ Head(s) = a /\ Tail(s) = <<b, c, d>>
      OBVIOUS
    <2>1. <<a, b, c, d>> # <<>> /\ Head(<<a, b, c, d>>) = a
      OBVIOUS
    <2>2. Tail(<<a, b, c, d>>) = <<b, c, d>>
      OBVIOUS
    <2> QED BY <2>1, <2>2, Zenon
  <1>5. \A s, a, b, c, d, e : s = <<a, b, c, d, e>> => s # <<>> /\ Head(s) = a /\ Tail(s) = <<b, c, d, e>>
    <2> SUFFICES ASSUME NEW s, NEW a, NEW b, NEW c, NEW d, NEW e, s = <<a, b, c, d, e>>
                 PROVE  s # <<>> /\ Head(s) = a /\ Tail(s) = <<b, c, d, e>>
      OBVIOUS
    <2>1. <<a, b, c, d, e>> # <<>> /\ Head(<<a, b, c, d, e>>) = a
      OBVIOUS
    <2>2. Tail(<<a, b, c, d, e>>) = <<b, c, d, e>>
      OBVIOUS
    <2> QED BY <2>1, <2>2, Zenon
  <1>6. \A s, a, b, c, d, e, f : s = <<a, b, c, d, e, f>> => s # <<>> /\ Head(s) = a /\ Tail(s) = <<b, c, d, e, f>>
    <2> SUFFICES ASSUME NEW s, NEW a, NEW b, NEW c, NEW d, NEW e, NEW f, s = <<a, b, c, d, e, f>>
                 PROVE  s # <<>> /\ Head(s) = a /\ Tail(s) = <<b, c, d, e, f>>
      OBVIOUS
    <2>1. <<a, b, c, d, e, f>> # <<>> /\ Head(<<a, b, c, d, e, f>>) = a
      OBVIOUS
    <2>2. Tail(<<a, b, c, d, e, f>>) = <<b, c, d, e, f>>
      OBVIOUS
    <2> QED BY <2>1, <2>2, Zenon
  <1> QED BY <1>1, <1>2, <1>3, <1>4, <1>5, <1>6, Zenon

\* What a sequence put together is.
LEMMA JoinIs ==
  ASSUME NEW S, NEW s \in Seq(S), NEW t \in Seq(S), NEW u \in Seq(S),
         Len(u) = Len(s) + Len(t),
         \A i \in 1 .. Len(s) : u[i] = s[i],
         \A i \in 1 .. Len(t) : u[Len(s) + i] = t[i]
  PROVE  s \o t = u
  <1>1. \A i \in 1 .. Len(s) + Len(t) : (s \o t)[i] = u[i]
    <2> SUFFICES ASSUME NEW i \in 1 .. Len(s) + Len(t) PROVE (s \o t)[i] = u[i]
      OBVIOUS
    <2>1. CASE i <= Len(s)
      BY <2>1, ConcatProperties
    <2>2. CASE ~(i <= Len(s))
      <3>1. i - Len(s) \in 1 .. Len(t) /\ Len(s) + (i - Len(s)) = i
        BY <2>2
      <3> QED BY <2>2, <3>1, ConcatProperties
    <2> QED BY <2>1, <2>2
  <1>2. s \o t \in Seq(S) /\ Len(s \o t) = Len(u)
    BY ConcatProperties
  <1> QED BY <1>1, <1>2, SeqEqual

\* Messages put before others.
LEMMA Joined ==
  /\ \A s, u : s = <<>> /\ u = <<>> => s \o u = <<>>
  /\ \A s, u, a : s = <<>> /\ u = <<a>> => s \o u = <<a>>
  /\ \A s, u, a, b : s = <<>> /\ u = <<a, b>> => s \o u = <<a, b>>
  /\ \A s, u, a, b, c : s = <<>> /\ u = <<a, b, c>> => s \o u = <<a, b, c>>
  /\ \A s, u, a, b, c, d : s = <<>> /\ u = <<a, b, c, d>> => s \o u = <<a, b, c, d>>
  /\ \A s, u, a : s = <<a>> /\ u = <<>> => s \o u = <<a>>
  /\ \A s, u, a, b : s = <<a, b>> /\ u = <<>> => s \o u = <<a, b>>
  /\ \A s, u, a, b, c : s = <<a, b, c>> /\ u = <<>> => s \o u = <<a, b, c>>
  /\ \A s, u, a, b, c, d : s = <<a, b, c, d>> /\ u = <<>> => s \o u = <<a, b, c, d>>
  /\ \A s, u, a, b : s = <<a>> /\ u = <<b>> => s \o u = <<a, b>>
  /\ \A s, u, a, b, c : s = <<a>> /\ u = <<b, c>> => s \o u = <<a, b, c>>
  /\ \A s, u, a, b, c, d : s = <<a>> /\ u = <<b, c, d>> => s \o u = <<a, b, c, d>>
  /\ \A s, u, a, b, c, d, e : s = <<a>> /\ u = <<b, c, d, e>> => s \o u = <<a, b, c, d, e>>
  /\ \A s, u, a, b, c : s = <<a, b>> /\ u = <<c>> => s \o u = <<a, b, c>>
  /\ \A s, u, a, b, c, d : s = <<a, b>> /\ u = <<c, d>> => s \o u = <<a, b, c, d>>
  /\ \A s, u, a, b, c, d, e, f : s = <<a, b, c>> /\ u = <<d, e, f>> => s \o u = <<a, b, c, d, e, f>>
  <1>1. \A s, u : s = <<>> /\ u = <<>> => s \o u = <<>>
    <2> SUFFICES ASSUME NEW s, NEW u, s = <<>>, u = <<>>
                 PROVE  s \o u = <<>>
      OBVIOUS
    <2>1. <<>> \o <<>> = <<>>
      OBVIOUS
    <2> QED BY <2>1, Zenon
  <1>2. \A s, u, a : s = <<>> /\ u = <<a>> => s \o u = <<a>>
    <2> SUFFICES ASSUME NEW s, NEW u, NEW a, s = <<>>, u = <<a>>
                 PROVE  s \o u = <<a>>
      OBVIOUS
    <2>1. <<>> \o <<a>> = <<a>>
      OBVIOUS
    <2> QED BY <2>1, Zenon
  <1>3. \A s, u, a, b : s = <<>> /\ u = <<a, b>> => s \o u = <<a, b>>
    <2> SUFFICES ASSUME NEW s, NEW u, NEW a, NEW b, s = <<>>, u = <<a, b>>
                 PROVE  s \o u = <<a, b>>
      OBVIOUS
    <2>1. <<>> \o <<a, b>> = <<a, b>>
      OBVIOUS
    <2> QED BY <2>1, Zenon
  <1>4. \A s, u, a, b, c : s = <<>> /\ u = <<a, b, c>> => s \o u = <<a, b, c>>
    <2> SUFFICES ASSUME NEW s, NEW u, NEW a, NEW b, NEW c, s = <<>>, u = <<a, b, c>>
                 PROVE  s \o u = <<a, b, c>>
      OBVIOUS
    <2>1. <<>> \o <<a, b, c>> = <<a, b, c>>
      OBVIOUS
    <2> QED BY <2>1, Zenon
  <1>5. \A s, u, a, b, c, d : s = <<>> /\ u = <<a, b, c, d>> => s \o u = <<a, b, c, d>>
    <2> SUFFICES ASSUME NEW s, NEW u, NEW a, NEW b, NEW c, NEW d, s = <<>>, u = <<a, b, c, d>>
                 PROVE  s \o u = <<a, b, c, d>>
      OBVIOUS
    <2>1. <<>> \o <<a, b, c, d>> = <<a, b, c, d>>
      OBVIOUS
    <2> QED BY <2>1, Zenon
  <1>6. \A s, u, a : s = <<a>> /\ u = <<>> => s \o u = <<a>>
    <2> SUFFICES ASSUME NEW s, NEW u, NEW a, s = <<a>>, u = <<>>
                 PROVE  s \o u = <<a>>
      OBVIOUS
    <2>1. <<a>> \o <<>> = <<a>>
      OBVIOUS
    <2> QED BY <2>1, Zenon
  <1>7. \A s, u, a, b : s = <<a, b>> /\ u = <<>> => s \o u = <<a, b>>
    <2> SUFFICES ASSUME NEW s, NEW u, NEW a, NEW b, s = <<a, b>>, u = <<>>
                 PROVE  s \o u = <<a, b>>
      OBVIOUS
    <2>1. <<a, b>> \o <<>> = <<a, b>>
      OBVIOUS
    <2> QED BY <2>1, Zenon
  <1>8. \A s, u, a, b, c : s = <<a, b, c>> /\ u = <<>> => s \o u = <<a, b, c>>
    <2> SUFFICES ASSUME NEW s, NEW u, NEW a, NEW b, NEW c, s = <<a, b, c>>, u = <<>>
                 PROVE  s \o u = <<a, b, c>>
      OBVIOUS
    <2>1. <<a, b, c>> \o <<>> = <<a, b, c>>
      OBVIOUS
    <2> QED BY <2>1, Zenon
  <1>9. \A s, u, a, b, c, d : s = <<a, b, c, d>> /\ u = <<>> => s \o u = <<a, b, c, d>>
    <2> SUFFICES ASSUME NEW s, NEW u, NEW a, NEW b, NEW c, NEW d, s = <<a, b, c, d>>, u = <<>>
                 PROVE  s \o u = <<a, b, c, d>>
      OBVIOUS
    <2>1. <<a, b, c, d>> \o <<>> = <<a, b, c, d>>
      OBVIOUS
    <2> QED BY <2>1, Zenon
  <1>10. \A s, u, a, b : s = <<a>> /\ u = <<b>> => s \o u = <<a, b>>
    <2> SUFFICES ASSUME NEW s, NEW u, NEW a, NEW b, s = <<a>>, u = <<b>>
                 PROVE  s \o u = <<a, b>>
      OBVIOUS
    <2> DEFINE S == {a, b}
    <2>1. <<a>> \in Seq(S) /\ <<b>> \in Seq(S) /\ <<a, b>> \in Seq(S)
      OBVIOUS
    <2>2. Len(<<a, b>>) = Len(<<a>>) + Len(<<b>>)
      OBVIOUS
    <2>3. \A i \in 1 .. Len(<<a>>) : <<a, b>>[i] = <<a>>[i]
      OBVIOUS
    <2>4. \A i \in 1 .. Len(<<b>>) : <<a, b>>[Len(<<a>>) + i] = <<b>>[i]
      OBVIOUS
    <2> HIDE DEF S
    <2>5. <<a>> \o <<b>> = <<a, b>>
      BY <2>1, <2>2, <2>3, <2>4, JoinIs, Zenon
    <2> QED BY <2>5, Zenon
  <1>11. \A s, u, a, b, c : s = <<a>> /\ u = <<b, c>> => s \o u = <<a, b, c>>
    <2> SUFFICES ASSUME NEW s, NEW u, NEW a, NEW b, NEW c, s = <<a>>, u = <<b, c>>
                 PROVE  s \o u = <<a, b, c>>
      OBVIOUS
    <2> DEFINE S == {a, b, c}
    <2>1. <<a>> \in Seq(S) /\ <<b, c>> \in Seq(S) /\ <<a, b, c>> \in Seq(S)
      OBVIOUS
    <2>2. Len(<<a, b, c>>) = Len(<<a>>) + Len(<<b, c>>)
      OBVIOUS
    <2>3. \A i \in 1 .. Len(<<a>>) : <<a, b, c>>[i] = <<a>>[i]
      OBVIOUS
    <2>4. \A i \in 1 .. Len(<<b, c>>) : <<a, b, c>>[Len(<<a>>) + i] = <<b, c>>[i]
      OBVIOUS
    <2> HIDE DEF S
    <2>5. <<a>> \o <<b, c>> = <<a, b, c>>
      BY <2>1, <2>2, <2>3, <2>4, JoinIs, Zenon
    <2> QED BY <2>5, Zenon
  <1>12. \A s, u, a, b, c, d, e : s = <<a>> /\ u = <<b, c, d, e>> => s \o u = <<a, b, c, d, e>>
    <2> SUFFICES ASSUME NEW s, NEW u, NEW a, NEW b, NEW c, NEW d, NEW e, s = <<a>>, u = <<b, c, d, e>>
                 PROVE  s \o u = <<a, b, c, d, e>>
      OBVIOUS
    <2> DEFINE S == {a, b, c, d, e}
    <2>1. <<a>> \in Seq(S) /\ <<b, c, d, e>> \in Seq(S) /\ <<a, b, c, d, e>> \in Seq(S)
      OBVIOUS
    <2>2. Len(<<a, b, c, d, e>>) = Len(<<a>>) + Len(<<b, c, d, e>>)
      OBVIOUS
    <2>3. \A i \in 1 .. Len(<<a>>) : <<a, b, c, d, e>>[i] = <<a>>[i]
      OBVIOUS
    <2>4. \A i \in 1 .. Len(<<b, c, d, e>>) : <<a, b, c, d, e>>[Len(<<a>>) + i] = <<b, c, d, e>>[i]
      OBVIOUS
    <2> HIDE DEF S
    <2>5. <<a>> \o <<b, c, d, e>> = <<a, b, c, d, e>>
      BY <2>1, <2>2, <2>3, <2>4, JoinIs, Zenon
    <2> QED BY <2>5, Zenon
  <1>13. \A s, u, a, b, c : s = <<a, b>> /\ u = <<c>> => s \o u = <<a, b, c>>
    <2> SUFFICES ASSUME NEW s, NEW u, NEW a, NEW b, NEW c, s = <<a, b>>, u = <<c>>
                 PROVE  s \o u = <<a, b, c>>
      OBVIOUS
    <2> DEFINE S == {a, b, c}
    <2>1. <<a, b>> \in Seq(S) /\ <<c>> \in Seq(S) /\ <<a, b, c>> \in Seq(S)
      OBVIOUS
    <2>2. Len(<<a, b, c>>) = Len(<<a, b>>) + Len(<<c>>)
      OBVIOUS
    <2>3. \A i \in 1 .. Len(<<a, b>>) : <<a, b, c>>[i] = <<a, b>>[i]
      OBVIOUS
    <2>4. \A i \in 1 .. Len(<<c>>) : <<a, b, c>>[Len(<<a, b>>) + i] = <<c>>[i]
      OBVIOUS
    <2> HIDE DEF S
    <2>5. <<a, b>> \o <<c>> = <<a, b, c>>
      BY <2>1, <2>2, <2>3, <2>4, JoinIs, Zenon
    <2> QED BY <2>5, Zenon
  <1>14. \A s, u, a, b, c, d : s = <<a, b>> /\ u = <<c, d>> => s \o u = <<a, b, c, d>>
    <2> SUFFICES ASSUME NEW s, NEW u, NEW a, NEW b, NEW c, NEW d, s = <<a, b>>, u = <<c, d>>
                 PROVE  s \o u = <<a, b, c, d>>
      OBVIOUS
    <2> DEFINE S == {a, b, c, d}
    <2>1. <<a, b>> \in Seq(S) /\ <<c, d>> \in Seq(S) /\ <<a, b, c, d>> \in Seq(S)
      OBVIOUS
    <2>2. Len(<<a, b, c, d>>) = Len(<<a, b>>) + Len(<<c, d>>)
      OBVIOUS
    <2>3. \A i \in 1 .. Len(<<a, b>>) : <<a, b, c, d>>[i] = <<a, b>>[i]
      OBVIOUS
    <2>4. \A i \in 1 .. Len(<<c, d>>) : <<a, b, c, d>>[Len(<<a, b>>) + i] = <<c, d>>[i]
      OBVIOUS
    <2> HIDE DEF S
    <2>5. <<a, b>> \o <<c, d>> = <<a, b, c, d>>
      BY <2>1, <2>2, <2>3, <2>4, JoinIs, Zenon
    <2> QED BY <2>5, Zenon
  <1>15. \A s, u, a, b, c, d, e, f : s = <<a, b, c>> /\ u = <<d, e, f>> => s \o u = <<a, b, c, d, e, f>>
    <2> SUFFICES ASSUME NEW s, NEW u, NEW a, NEW b, NEW c, NEW d, NEW e, NEW f, s = <<a, b, c>>, u = <<d, e, f>>
                 PROVE  s \o u = <<a, b, c, d, e, f>>
      OBVIOUS
    <2> DEFINE S == {a, b, c, d, e, f}
    <2>1. <<a, b, c>> \in Seq(S) /\ <<d, e, f>> \in Seq(S) /\ <<a, b, c, d, e, f>> \in Seq(S)
      OBVIOUS
    <2>2. Len(<<a, b, c, d, e, f>>) = Len(<<a, b, c>>) + Len(<<d, e, f>>)
      OBVIOUS
    <2>3. \A i \in 1 .. Len(<<a, b, c>>) : <<a, b, c, d, e, f>>[i] = <<a, b, c>>[i]
      OBVIOUS
    <2>4. \A i \in 1 .. Len(<<d, e, f>>) : <<a, b, c, d, e, f>>[Len(<<a, b, c>>) + i] = <<d, e, f>>[i]
      OBVIOUS
    <2> HIDE DEF S
    <2>5. <<a, b, c>> \o <<d, e, f>> = <<a, b, c, d, e, f>>
      BY <2>1, <2>2, <2>3, <2>4, JoinIs, Zenon
    <2> QED BY <2>5, Zenon
  <1>16. \A s, u, a, b, c, d : s = <<a>> /\ u = <<b, c, d>> => s \o u = <<a, b, c, d>>
    <2> SUFFICES ASSUME NEW s, NEW u, NEW a, NEW b, NEW c, NEW d, s = <<a>>, u = <<b, c, d>>
                 PROVE  s \o u = <<a, b, c, d>>
      OBVIOUS
    <2> DEFINE S == {a, b, c, d}
    <2>1. <<a>> \in Seq(S) /\ <<b, c, d>> \in Seq(S) /\ <<a, b, c, d>> \in Seq(S)
      OBVIOUS
    <2>2. Len(<<a, b, c, d>>) = Len(<<a>>) + Len(<<b, c, d>>)
      OBVIOUS
    <2>3. \A i \in 1 .. Len(<<a>>) : <<a, b, c, d>>[i] = <<a>>[i]
      OBVIOUS
    <2>4. \A i \in 1 .. Len(<<b, c, d>>) : <<a, b, c, d>>[Len(<<a>>) + i] = <<b, c, d>>[i]
      OBVIOUS
    <2> HIDE DEF S
    <2>5. <<a>> \o <<b, c, d>> = <<a, b, c, d>>
      BY <2>1, <2>2, <2>3, <2>4, JoinIs, Zenon
    <2> QED BY <2>5, Zenon
  <1> QED BY <1>1, <1>2, <1>3, <1>4, <1>5, <1>6, <1>7, <1>8, <1>9, <1>10, <1>11, <1>12,
       <1>13, <1>14, <1>15, <1>16, Zenon

MainLoop(a) == [hWnd |-> "main", hAccel |-> a, hWndPrev |-> NULL, hAccelPrev |-> NULL]
AboutLoop(a) == [hWnd |-> "about", hAccel |-> NULL, hWndPrev |-> "main", hAccelPrev |-> a]

\* Whose messages the loop translates, and the accelerators of the main window.
ServesMain == loop \in {MainLoop("main"), MainLoop("tree")}
ServesAbout == loop \in {AboutLoop("main"), AboutLoop("tree")}
MainAccel == IF loop.hWnd = "about" THEN loop.hAccelPrev ELSE loop.hAccel

\* While the main window has the focus, ...
InMainWindow ==
    /\ ServesMain /\ hWndFocus = NULL /\ focus # "about"
    /\ MainAccel = "tree" <=> focus = "tree"

\* ... and after it has been left: RestoreFocus will put the focus where it was
\* and, to the tree, with the accelerators of the tree.
Saved ==
    /\ left \in Loop!Children => hWndFocus = left
    /\ MainAccel = "tree" => hWndFocus = "tree"

Back == left \in Loop!Children \cap windows => focus = left

\* The last messages of the main window, without a dialog and with one.
Leave == <<"mainOff", "focusElsewhere", "mainDestroy">>
DestroyAndLeave == <<"aboutDestroy", "mainOff", "focusElsewhere", "mainDestroy">>
OnDestroyAndLeave ==
    <<"mainOn", "aboutDestroy", "mainOff", "focusElsewhere", "mainDestroy">>
SetDestroyAndLeave ==
    <<"treeSet", "aboutDestroy", "mainOff", "focusElsewhere", "mainDestroy">>
OffOnDestroyAndLeave ==
    <<"aboutOff", "mainOn", "aboutDestroy", "mainOff", "focusElsewhere", "mainDestroy">>
WithDialog == {DestroyAndLeave, OnDestroyAndLeave, SetDestroyAndLeave, OffOnDestroyAndLeave}
ToDialog ==
    {<<"aboutInit", "mainOff", "aboutOn", "focusAbout">>,
     <<"aboutOff", "focusElsewhere", "aboutDestroy">>,
     <<"focusElsewhere", "aboutDestroy">>, <<"aboutDestroy">>, <<"mainOn", "aboutDestroy">>,
     <<"aboutOff", "mainOn", "aboutDestroy">>, <<"treeSet", "aboutDestroy">>}
WithoutDialog ==
    {Leave, <<"focusElsewhere", "mainDestroy">>, <<"treeKill", "mainDestroy">>,
     <<"labelKill", "mainDestroy">>, <<"mainDestroy">>}

\* The user goes to the About dialog, or is there; ...
AtAbout ==
    /\ active = "about" /\ "about" \in windows /\ ~minimized
    /\ \/ /\ todo \in {<<"aboutInit", "mainOff", "aboutOn", "focusAbout">>,
                       <<"mainOff", "aboutOn", "focusAbout">>}
          /\ InMainWindow /\ left = focus
       \/ todo = <<"aboutOn", "focusAbout">> /\ ServesMain /\ Saved /\ focus # "about"
       \/ todo = <<"focusAbout">> /\ ServesAbout /\ Saved /\ focus # "about"
       \/ /\ todo \in {<<"treeKill">>, <<"labelKill">>, <<>>}
          /\ ServesAbout /\ Saved /\ focus = "about"

\* ... to a box or another program, for good or not; ...
AtOther ==
    /\ active \in {"box", "other"} /\ (minimized => active = "other")
    /\ todo \in WithoutDialog => active = "other" /\ ~minimized
    /\ \/ todo = <<"mainOff", "focusElsewhere">> /\ InMainWindow /\ left = focus
       \/ todo = Leave /\ InMainWindow /\ left = NULL
       \/ /\ todo \in {<<"aboutOff", "focusElsewhere">>,
                       <<"aboutOff", "focusElsewhere", "aboutDestroy">>}
          /\ ServesAbout /\ Saved /\ focus = "about"
       \/ /\ todo \in {<<"focusElsewhere">>, <<"focusElsewhere", "mainDestroy">>,
                       <<"focusElsewhere", "mainOffMinimized">>}
          /\ ServesMain /\ Saved
       \/ todo = <<"focusElsewhere", "aboutDestroy">> /\ ServesMain /\ Saved /\ focus = "about"
       \/ /\ todo \in {<<"treeKill">>, <<"labelKill">>, <<"treeKill", "mainOffMinimized">>,
                       <<"labelKill", "mainOffMinimized">>, <<"treeKill", "mainDestroy">>,
                       <<"labelKill", "mainDestroy">>, <<"mainOffMinimized">>,
                       <<"mainDestroy">>, <<"aboutDestroy">>, <<>>}
          /\ ServesMain /\ Saved /\ focus = "elsewhere"

\* ... back to the main window, to stay or to close it.
AtMain ==
    /\ ~minimized
    /\ IF todo \in WithDialog THEN active = "other" /\ left = NULL ELSE active = "main"
    /\ \/ /\ todo \in {<<"aboutOff", "mainOn">>, <<"aboutOff", "mainOn", "aboutDestroy">>,
                       OffOnDestroyAndLeave}
          /\ ServesAbout /\ Saved /\ focus = "about"
       \/ /\ todo \in {<<"mainOn">>, <<"mainOnMinimized", "mainOn">>,
                       <<"mainOn", "aboutDestroy">>, OnDestroyAndLeave}
          /\ ServesMain /\ Saved /\ focus \in {"about", "elsewhere"}
       \/ /\ todo \in {<<"treeSet">>, <<"treeSet", "aboutDestroy">>,
                       <<"labelKill", "treeSet">>, SetDestroyAndLeave}
          /\ ServesMain /\ hWndFocus = NULL /\ focus = "tree" /\ Back
       \/ /\ todo = <<"treeKill">>
          /\ ServesMain /\ hWndFocus = NULL /\ focus \notin {"tree", "about"} /\ left = NULL
       \/ todo = <<"labelKill">> /\ InMainWindow /\ focus # "label" /\ left = NULL
       \/ todo \in {<<"aboutDestroy">>, DestroyAndLeave, <<>>} /\ InMainWindow /\ Back

\* The handle to the dialog is there as soon as the dialog knows, and as long as
\* messages for the dialog are to come.
DialogKnown ==
    /\ "about" \in windows => hWndAbout = IF Loop!Deliver("aboutInit") THEN NULL ELSE "about"
    /\ "about" \notin windows => hWndAbout = NULL /\ ServesMain
    /\ todo \in WithDialog \cup ToDialog => "about" \in windows
    /\ todo \in WithoutDialog => "about" \notin windows

\* A label is edited while it has the focus.
LabelKnown ==
    /\ "label" \in windows => focus = "label" \/ Loop!Deliver("labelKill")
    /\ focus = "label" => "label" \in windows

Destroyed ==
    windows = {} /\ todo = <<>> /\ ServesMain /\ hWndAbout = NULL /\ ~minimized /\ active = "other"

LoopTypes ==
    /\ active \in {"main", "about", "box", "other"}
    /\ windows \subseteq Loop!Children \cup {"main", "about"}
    /\ focus \in Loop!Children \cup {"main", "about", "elsewhere"}
    /\ enabled \in BOOLEAN /\ minimized \in BOOLEAN /\ box \in BOOLEAN
    /\ hWndFocus \in Loop!Children \cup {NULL}
    /\ hWndAbout \in {"about", NULL}
    /\ left \in Loop!Children \cup {"main", "about", "elsewhere", NULL}

LoopInv ==
    /\ LoopTypes
    /\ \/ Destroyed
       \/ /\ {"main", "tree", "edit"} \subseteq windows
          /\ DialogKnown /\ LabelKnown
          /\ AtAbout \/ AtOther \/ AtMain


\* The last messages of the main window, one after the other.
LEMMA LastMessages ==
  /\ Head(OffOnDestroyAndLeave) = "aboutOff" /\ Tail(OffOnDestroyAndLeave) = OnDestroyAndLeave
  /\ Head(OnDestroyAndLeave) = "mainOn" /\ Tail(OnDestroyAndLeave) = DestroyAndLeave
  /\ Head(SetDestroyAndLeave) = "treeSet" /\ Tail(SetDestroyAndLeave) = DestroyAndLeave
  /\ Head(DestroyAndLeave) = "aboutDestroy" /\ Tail(DestroyAndLeave) = Leave
  /\ Head(Leave) = "mainOff" /\ Tail(Leave) = <<"focusElsewhere", "mainDestroy">>
  /\ \A s, u : s = <<"treeSet">> /\ u = DestroyAndLeave => s \o u = SetDestroyAndLeave
  /\ \A s, u : s = <<>> /\ u = DestroyAndLeave => s \o u = DestroyAndLeave
  <1>1. Head(OffOnDestroyAndLeave) = "aboutOff" /\ Tail(OffOnDestroyAndLeave) = OnDestroyAndLeave
    BY DEF OffOnDestroyAndLeave, OnDestroyAndLeave
  <1>2. Head(OnDestroyAndLeave) = "mainOn" /\ Tail(OnDestroyAndLeave) = DestroyAndLeave
    BY DEF OnDestroyAndLeave, DestroyAndLeave
  <1>3. Head(SetDestroyAndLeave) = "treeSet" /\ Tail(SetDestroyAndLeave) = DestroyAndLeave
    BY DEF SetDestroyAndLeave, DestroyAndLeave
  <1>4. Head(DestroyAndLeave) = "aboutDestroy" /\ Tail(DestroyAndLeave) = Leave
    BY DEF DestroyAndLeave, Leave
  <1>5. Head(Leave) = "mainOff" /\ Tail(Leave) = <<"focusElsewhere", "mainDestroy">>
    BY DEF Leave
  <1>6. \A s, u : s = <<"treeSet">> /\ u = DestroyAndLeave => s \o u = SetDestroyAndLeave
    BY Joined DEF DestroyAndLeave, SetDestroyAndLeave
  <1>7. \A s, u : s = <<>> /\ u = DestroyAndLeave => s \o u = DestroyAndLeave
    BY Joined DEF DestroyAndLeave
  <1> QED BY <1>1, <1>2, <1>3, <1>4, <1>5, <1>6, <1>7

\* Which messages are the last ones.
LEMMA Apart ==
  /\ {DestroyAndLeave, OnDestroyAndLeave, SetDestroyAndLeave, OffOnDestroyAndLeave} = WithDialog
  /\ <<>> \notin WithDialog \cup WithoutDialog \cup ToDialog
  /\ \A a : <<a>> \notin WithDialog
  /\ \A a : <<a>> \in WithoutDialog <=> a = "mainDestroy"
  /\ \A a : <<a>> \in ToDialog <=> a = "aboutDestroy"
  /\ \A a, b : <<a, b>> \notin WithDialog
  /\ \A a, b : <<a, b>> \in WithoutDialog
                 <=> a \in {"focusElsewhere", "treeKill", "labelKill"} /\ b = "mainDestroy"
  /\ \A a, b : <<a, b>> \in ToDialog
                 <=> a \in {"focusElsewhere", "mainOn", "treeSet"} /\ b = "aboutDestroy"
  /\ \A a, b, c : <<a, b, c>> \notin WithDialog
  /\ WithDialog \cap (WithoutDialog \cup ToDialog) = {}
  <1> USE DEF WithDialog, WithoutDialog, ToDialog, DestroyAndLeave, OnDestroyAndLeave,
       SetDestroyAndLeave, OffOnDestroyAndLeave, Leave
  <1>1. {DestroyAndLeave, OnDestroyAndLeave, SetDestroyAndLeave, OffOnDestroyAndLeave} = WithDialog
    OBVIOUS
  <1>2. <<>> \notin WithDialog \cup WithoutDialog \cup ToDialog
    OBVIOUS
  <1>3. \A a : <<a>> \notin WithDialog
    OBVIOUS
  <1>4. \A a : <<a>> \in WithoutDialog <=> a = "mainDestroy"
    OBVIOUS
  <1>5. \A a : <<a>> \in ToDialog <=> a = "aboutDestroy"
    OBVIOUS
  <1>6. \A a, b : <<a, b>> \notin WithDialog
    OBVIOUS
  <1>7. \A a, b : <<a, b>> \in WithoutDialog <=> a \in {"focusElsewhere", "treeKill", "labelKill"} /\ b = "mainDestroy"
    OBVIOUS
  <1>8. \A a, b : <<a, b>> \in ToDialog <=> a \in {"focusElsewhere", "mainOn", "treeSet"} /\ b = "aboutDestroy"
    OBVIOUS
  <1>9. \A a, b, c : <<a, b, c>> \notin WithDialog
    OBVIOUS
  <1>10. WithDialog \cap (WithoutDialog \cup ToDialog) = {}
    OBVIOUS
  <1> HIDE DEF WithDialog, WithoutDialog, ToDialog
  <1> QED BY <1>1, <1>2, <1>3, <1>4, <1>5, <1>6, <1>7, <1>8, <1>9, <1>10, Zenon

\* The dialog is not about to be initialized.
InitNotFirst(s) == s = <<>> \/ Head(s) # "aboutInit"

\* ... in any of these.
LEMMA NotInit ==
  /\ InitNotFirst(<<>>)
  /\ \A m : m # "aboutInit" => InitNotFirst(<<m>>)
  /\ \A m, n : m # "aboutInit" => InitNotFirst(<<m, n>>)
  /\ \A m, n, p : m # "aboutInit" => InitNotFirst(<<m, n, p>>)
  /\ InitNotFirst(DestroyAndLeave) /\ InitNotFirst(OnDestroyAndLeave)
  /\ InitNotFirst(SetDestroyAndLeave) /\ InitNotFirst(OffOnDestroyAndLeave) /\ InitNotFirst(Leave)
  <1>1. InitNotFirst(<<>>)
    BY DEF InitNotFirst
  <1>2. \A m : m # "aboutInit" => InitNotFirst(<<m>>)
    BY DEF InitNotFirst
  <1>3. \A m, n : m # "aboutInit" => InitNotFirst(<<m, n>>)
    BY DEF InitNotFirst
  <1>4. \A m, n, p : m # "aboutInit" => InitNotFirst(<<m, n, p>>)
    BY DEF InitNotFirst
  <1>5. /\ InitNotFirst(DestroyAndLeave) /\ InitNotFirst(OnDestroyAndLeave)
        /\ InitNotFirst(SetDestroyAndLeave) /\ InitNotFirst(OffOnDestroyAndLeave) /\ InitNotFirst(Leave)
    BY LastMessages DEF InitNotFirst
  <1> QED BY <1>1, <1>2, <1>3, <1>4, <1>5

\* The dialog stays what it is while no message about it is handled.
LEMMA DialogStays ==
  ASSUME DialogKnown, UNCHANGED <<windows, hWndAbout>>,
         InitNotFirst(todo), InitNotFirst(todo'),
         ServesMain' \/ "about" \in windows,
         todo' \in WithDialog \cup ToDialog => todo \in WithDialog \cup ToDialog,
         todo' \in WithoutDialog => todo \in WithoutDialog
  PROVE  DialogKnown'
  BY DEF DialogKnown, InitNotFirst, Loop!Deliver, Loop!Quiet

\* Who is told that the focus moves to x.
LEMMA ToldWhom ==
  ASSUME NEW x
  PROVE  /\ focus \notin {"tree", "label"} /\ x # "tree" => Loop!Told(x) = <<>>
         /\ focus \notin {"tree", "label"} /\ x = "tree" => Loop!Told(x) = <<"treeSet">>
         /\ focus = "tree" /\ x # "tree" => Loop!Told(x) = <<"treeKill">>
         /\ focus = "label" /\ x # "tree" => Loop!Told(x) = <<"labelKill">>
         /\ focus = "label" /\ x = "tree" => Loop!Told(x) = <<"labelKill", "treeSet">>
  <1>1. CASE focus \notin {"tree", "label"} /\ x # "tree"
    BY <1>1, Joined DEF Loop!Told
  <1>2. CASE focus \notin {"tree", "label"} /\ x = "tree"
    BY <1>2, Joined DEF Loop!Told
  <1>3. CASE focus = "tree" /\ x # "tree"
    BY <1>3, Joined DEF Loop!Told
  <1>4. CASE focus = "label" /\ x # "tree"
    BY <1>4, Joined DEF Loop!Told
  <1>5. CASE focus = "label" /\ x = "tree"
    BY <1>5, Joined DEF Loop!Told
  <1> QED BY <1>1, <1>2, <1>3, <1>4, <1>5

\* Where the main window is when it is told that it has been activated.
LEMMA OnFirst ==
  ASSUME LoopInv, Loop!Deliver("mainOn")
  PROVE  /\ AtMain /\ ~Destroyed
         /\ todo \in {<<"mainOn">>, <<"mainOn", "aboutDestroy">>, OnDestroyAndLeave}
         /\ ServesMain /\ Saved /\ focus \in {"about", "elsewhere"}
  <1>1. todo # <<>> /\ Head(todo) = "mainOn"
    BY DEF Loop!Deliver, Loop!Quiet
  <1>2. ~Destroyed
    BY <1>1 DEF Destroyed
  <1>3. ~AtAbout
    BY <1>1, Popped DEF AtAbout
  <1>4. ~AtOther
    BY <1>1, Popped DEF AtOther, Leave
  <1>5. AtMain
    BY <1>2, <1>3, <1>4 DEF LoopInv
  <1> QED BY <1>1, <1>2, <1>5, Popped DEF AtMain, OffOnDestroyAndLeave, OnDestroyAndLeave,
       SetDestroyAndLeave, DestroyAndLeave

\* RestoreFocus puts the focus where it was, with the accelerators of the control
\* that gets it.
LEMMA MainOnKeeps ==
  ASSUME LoopInv, Loop!Deliver("mainOn"), Loop!RestoreFocus,
         UNCHANGED <<active, windows, enabled, minimized, box, hWndAbout, loop, left>>
  PROVE  LoopInv'
  <1>1. /\ AtMain /\ ~Destroyed
        /\ todo \in {<<"mainOn">>, <<"mainOn", "aboutDestroy">>, OnDestroyAndLeave}
        /\ ServesMain /\ Saved /\ focus \in {"about", "elsewhere"}
    BY OnFirst
  <1>2. LoopTypes /\ {"main", "tree", "edit"} \subseteq windows /\ DialogKnown /\ LabelKnown
    BY <1>1 DEF LoopInv
  <1>3. "label" \notin windows
    BY <1>1, <1>2, Popped DEF LabelKnown, Loop!Deliver
  <1>4. PICK x \in IF hWndFocus \in windows THEN {hWndFocus} ELSE Loop!TabItems :
          Loop!MoveFocus(x, Tail(todo))
    BY DEF Loop!RestoreFocus
  <1>5. hWndFocus' = NULL
    BY DEF Loop!RestoreFocus
  <1>6. x \in {"tree", "edit", "main"} /\ (hWndFocus \in windows => x = hWndFocus)
    <2>1. CASE hWndFocus \in windows
      BY <1>2, <1>3, <1>4, <2>1, LoopAssumption DEF LoopTypes, Loop!Children
    <2>2. CASE hWndFocus \notin windows
      BY <1>4, <2>2 DEF Loop!TabItems
    <2> QED BY <2>1, <2>2
  <1>7. /\ todo = <<"mainOn">> => Tail(todo) = <<>>
        /\ todo = <<"mainOn", "aboutDestroy">> => Tail(todo) = <<"aboutDestroy">>
        /\ todo = OnDestroyAndLeave => Tail(todo) = DestroyAndLeave
    BY Popped, LastMessages
  <1>8. todo' = Loop!Told(x) \o Tail(todo) /\ focus' = x
    BY <1>1, <1>4, <1>6 DEF Loop!MoveFocus
  <1>9. CASE x = "tree"
    <2>1. Loop!Told(x) = <<"treeSet">>
      BY <1>1, <1>9, ToldWhom
    <2>2. todo = <<"mainOn">> => todo' = <<"treeSet">>
      BY <1>7, <1>8, <2>1, Joined
    <2>3. todo = <<"mainOn", "aboutDestroy">> => todo' = <<"treeSet", "aboutDestroy">>
      BY <1>7, <1>8, <2>1, Joined
    <2>4. todo = OnDestroyAndLeave => todo' = SetDestroyAndLeave
      BY <1>7, <1>8, <2>1, LastMessages
    <2>w. todo' \in WithDialog <=> todo \in WithDialog
      BY <1>1, <2>2, <2>3, <2>4, Apart
    <2>5. AtMain'
      <3>1. IF todo' \in WithDialog THEN active' = "other" /\ left' = NULL ELSE active' = "main"
        BY <1>1, <2>w DEF AtMain
      <3>2. Back'
        BY <1>1, <1>2, <1>6, <1>8 DEF Back, Saved, LoopTypes
      <3>3. /\ todo' \in {<<"treeSet">>, <<"treeSet", "aboutDestroy">>, SetDestroyAndLeave}
            /\ ServesMain' /\ hWndFocus' = NULL /\ focus' = "tree" /\ ~minimized'
        BY <1>1, <1>5, <1>8, <1>9, <2>2, <2>3, <2>4 DEF AtMain, ServesMain, MainLoop
      <3> QED BY <3>1, <3>2, <3>3 DEF AtMain
    <2>6. DialogKnown'
      <3>1. InitNotFirst(todo) /\ InitNotFirst(todo')
        BY <1>1, <2>2, <2>3, <2>4, NotInit
      <3>2. /\ todo' \in WithDialog \cup ToDialog => todo \in WithDialog \cup ToDialog
            /\ todo' \notin WithoutDialog
        BY <1>1, <2>2, <2>3, <2>4, Apart
      <3>3. ServesMain'
        BY <1>1 DEF ServesMain, MainLoop
      <3> QED BY <1>2, <3>1, <3>2, <3>3, DialogStays
    <2>7. LabelKnown'
      BY <1>2, <1>3, <1>8, <1>9 DEF LabelKnown
    <2>8. LoopTypes'
      BY <1>2, <1>5, <1>8, <1>9 DEF LoopTypes, Loop!Children
    <2> QED BY <1>2, <2>5, <2>6, <2>7, <2>8 DEF LoopInv
  <1>10. CASE x # "tree"
    <2>1. Loop!Told(x) = <<>>
      BY <1>1, <1>10, ToldWhom
    <2>2. todo = <<"mainOn">> => todo' = <<>>
      BY <1>7, <1>8, <2>1, Joined
    <2>3. todo = <<"mainOn", "aboutDestroy">> => todo' = <<"aboutDestroy">>
      BY <1>7, <1>8, <2>1, Joined
    <2>4. todo = OnDestroyAndLeave => todo' = DestroyAndLeave
      BY <1>7, <1>8, <2>1, LastMessages
    <2>w. todo' \in WithDialog <=> todo \in WithDialog
      BY <1>1, <2>2, <2>3, <2>4, Apart
    <2>5. AtMain'
      <3>1. IF todo' \in WithDialog THEN active' = "other" /\ left' = NULL ELSE active' = "main"
        BY <1>1, <2>w DEF AtMain
      <3>2. Back'
        BY <1>1, <1>2, <1>6, <1>8 DEF Back, Saved, LoopTypes
      <3>3. InMainWindow'
        BY <1>1, <1>2, <1>5, <1>6, <1>8, <1>10 DEF InMainWindow, Saved, ServesMain,
             MainLoop, MainAccel
      <3>4. todo' \in {<<>>, <<"aboutDestroy">>, DestroyAndLeave} /\ ~minimized'
        BY <1>1, <2>2, <2>3, <2>4 DEF AtMain
      <3> QED BY <3>1, <3>2, <3>3, <3>4 DEF AtMain
    <2>6. DialogKnown'
      <3>1. InitNotFirst(todo) /\ InitNotFirst(todo')
        BY <1>1, <2>2, <2>3, <2>4, NotInit
      <3>2. /\ todo' \in WithDialog \cup ToDialog => todo \in WithDialog \cup ToDialog
            /\ todo' \notin WithoutDialog
        BY <1>1, <2>2, <2>3, <2>4, Apart
      <3>3. ServesMain'
        BY <1>1 DEF ServesMain, MainLoop
      <3> QED BY <1>2, <3>1, <3>2, <3>3, DialogStays
    <2>7. LabelKnown'
      BY <1>2, <1>3, <1>6, <1>8, <1>10 DEF LabelKnown
    <2>8. LoopTypes'
      BY <1>2, <1>5, <1>6, <1>8, <1>10 DEF LoopTypes, Loop!Children
    <2> QED BY <1>2, <2>5, <2>6, <2>7, <2>8 DEF LoopInv
  <1> QED BY <1>9, <1>10

\* What is first is the first message of one of the three situations.
LEMMA Situations ==
  ASSUME LoopInv, todo # <<>>
  PROVE  /\ ~Destroyed /\ (AtAbout \/ AtOther \/ AtMain)
         /\ LoopTypes /\ {"main", "tree", "edit"} \subseteq windows /\ DialogKnown /\ LabelKnown
  BY DEF LoopInv, Destroyed

\* None of them is the last one when there is none.
LEMMA NoMessage == <<>> \notin WithDialog /\ <<>> \notin ToDialog /\ <<>> \notin WithoutDialog
  BY Apart

\* SaveFocus keeps where the focus was when the main window is left.
LEMMA MainOffKeeps ==
  ASSUME LoopInv, Loop!Deliver("mainOff"), Loop!SaveFocus, todo' = Tail(todo),
         UNCHANGED <<Loop!user, focus, hWndAbout, loop, left>>
  PROVE  LoopInv'
  <1>1. todo # <<>> /\ Head(todo) = "mainOff"
    BY DEF Loop!Deliver, Loop!Quiet
  <1>2. /\ AtAbout \/ AtOther \/ AtMain
        /\ LoopTypes /\ {"main", "tree", "edit"} \subseteq windows /\ DialogKnown /\ LabelKnown
    BY <1>1, Situations
  <1>u. UNCHANGED <<active, windows, enabled, minimized, box>>
    BY DEF Loop!user
  <1>3. CASE AtAbout
    <2>1. /\ todo = <<"mainOff", "aboutOn", "focusAbout">> /\ InMainWindow /\ left = focus
          /\ active = "about" /\ "about" \in windows /\ ~minimized
      BY <1>1, <1>3, Popped DEF AtAbout
    <2>2. todo' = <<"aboutOn", "focusAbout">>
      BY <2>1, Popped
    <2>3. Saved'
      BY <1>2, <1>u, <2>1 DEF InMainWindow, Saved, Loop!SaveFocus, LabelKnown, LoopTypes,
           Loop!Children, ServesMain, MainLoop, MainAccel
    <2>4. AtAbout'
      BY <1>u, <2>1, <2>2, <2>3 DEF AtAbout, InMainWindow, ServesMain, MainLoop
    <2>5. DialogKnown'
      <3>1. InitNotFirst(todo) /\ InitNotFirst(todo')
        BY <2>1, <2>2, NotInit
      <3>2. todo' \notin WithDialog \cup ToDialog /\ todo' \notin WithoutDialog
        BY <2>2, Apart, ZenonT(40)
      <3> QED BY <1>2, <1>u, <2>1, <3>1, <3>2, DialogStays
    <2>6. LabelKnown'
      BY <1>1, <1>2, <1>u DEF LabelKnown, Loop!Deliver
    <2>7. LoopTypes'
      BY <1>2, <1>u DEF LoopTypes, Loop!SaveFocus
    <2> QED BY <1>2, <1>u, <2>4, <2>5, <2>6, <2>7 DEF LoopInv
  <1>4. CASE AtOther
    <2>1. /\ \/ todo = <<"mainOff", "focusElsewhere">> /\ left = focus
             \/ todo = Leave /\ left = NULL
          /\ InMainWindow
      BY <1>1, <1>4, Popped DEF AtOther
    <2>2. /\ todo = <<"mainOff", "focusElsewhere">> => todo' = <<"focusElsewhere">>
          /\ todo = Leave => todo' = <<"focusElsewhere", "mainDestroy">> /\ todo \in WithoutDialog
      BY <2>1, Popped, LastMessages DEF WithoutDialog
    <2>3. Saved'
      BY <1>2, <1>u, <2>1, LoopAssumption DEF InMainWindow, Saved, Loop!SaveFocus,
           LabelKnown, LoopTypes, Loop!Children, ServesMain, MainLoop, MainAccel
    <2>4. AtOther'
      <3>1. active \in {"box", "other"} /\ (minimized => active = "other")
            /\ (todo' \in WithoutDialog => active = "other" /\ ~minimized)
        BY <1>4, <2>1, <2>2, Apart DEF AtOther
      <3>2. ServesMain'
        BY <2>1 DEF InMainWindow, ServesMain, MainLoop
      <3> QED BY <1>u, <2>1, <2>2, <2>3, <3>1, <3>2 DEF AtOther
    <2>5. DialogKnown'
      <3>1. InitNotFirst(todo) /\ InitNotFirst(todo')
        BY <2>1, <2>2, NotInit
      <3>2. todo' \notin WithDialog \cup ToDialog /\ (todo' \in WithoutDialog => todo \in WithoutDialog)
        BY <2>1, <2>2, Apart, ZenonT(40)
      <3>3. ServesMain'
        BY <2>1 DEF InMainWindow, ServesMain, MainLoop
      <3> QED BY <1>2, <1>u, <2>1, <3>1, <3>2, <3>3, DialogStays
    <2>6. LabelKnown'
      BY <1>1, <1>2, <1>u DEF LabelKnown, Loop!Deliver
    <2>7. LoopTypes'
      BY <1>2, <1>u DEF LoopTypes, Loop!SaveFocus
    <2> QED BY <1>2, <1>u, <2>4, <2>5, <2>6, <2>7 DEF LoopInv
  <1>5. CASE AtMain
    BY <1>1, <1>5, Popped, LastMessages DEF AtMain
  <1> QED BY <1>2, <1>3, <1>4, <1>5

\* An activation of the minimized window moves nothing.
LEMMA MinimizedKeeps ==
  ASSUME LoopInv, Loop!Deliver("mainOnMinimized") \/ Loop!Deliver("mainOffMinimized"),
         todo' = Tail(todo),
         UNCHANGED <<Loop!user, focus, hWndFocus, hWndAbout, loop, left>>
  PROVE  LoopInv'
  <1>1. todo # <<>> /\ Head(todo) \in {"mainOnMinimized", "mainOffMinimized"}
    BY DEF Loop!Deliver, Loop!Quiet
  <1>2. /\ AtAbout \/ AtOther \/ AtMain
        /\ LoopTypes /\ {"main", "tree", "edit"} \subseteq windows /\ DialogKnown /\ LabelKnown
    BY <1>1, Situations
  <1>u. UNCHANGED <<active, windows, enabled, minimized, box>>
    BY DEF Loop!user
  <1>3. ~AtAbout
    BY <1>1, Popped DEF AtAbout
  <1>4. CASE AtOther
    <2>1. todo = <<"mainOffMinimized">> /\ ServesMain /\ Saved /\ focus = "elsewhere"
      BY <1>1, <1>4, Popped, LastMessages DEF AtOther
    <2>2. todo' = <<>>
      BY <2>1, Popped
    <2>3. AtOther'
      BY <1>4, <1>u, <2>1, <2>2, NoMessage DEF AtOther, Saved, ServesMain, MainLoop, MainAccel
    <2>4. InitNotFirst(todo) /\ InitNotFirst(todo')
      BY <2>1, <2>2, NotInit
    <2>5. DialogKnown'
      BY <1>2, <1>u, <2>1, <2>2, <2>4, NoMessage, DialogStays DEF ServesMain, MainLoop
    <2> QED BY <1>1, <1>2, <1>u, <2>2, <2>3, <2>5 DEF LoopInv, LoopTypes, LabelKnown,
         Loop!Deliver
  <1>5. CASE AtMain
    <2>1. /\ todo = <<"mainOnMinimized", "mainOn">> /\ ServesMain /\ Saved
          /\ focus \in {"about", "elsewhere"}
      BY <1>1, <1>5, Popped, LastMessages DEF AtMain
    <2>2. todo' = <<"mainOn">>
      BY <2>1, Popped
    <2>3. todo \notin WithDialog /\ todo' \notin WithDialog \cup ToDialog \cup WithoutDialog
      BY <2>1, <2>2, Apart
    <2>4. AtMain'
      BY <1>5, <1>u, <2>1, <2>2, <2>3 DEF AtMain, Saved, ServesMain, MainLoop, MainAccel
    <2>5. InitNotFirst(todo) /\ InitNotFirst(todo')
      BY <2>1, <2>2, NotInit
    <2>6. DialogKnown'
      BY <1>2, <1>u, <2>1, <2>3, <2>5, DialogStays DEF ServesMain, MainLoop
    <2> QED BY <1>1, <1>2, <1>u, <2>4, <2>6 DEF LoopInv, LoopTypes, LabelKnown, Loop!Deliver
  <1> QED BY <1>2, <1>3, <1>4, <1>5

\* The tree has the focus: so do its accelerators.
LEMMA TreeSetKeeps ==
  ASSUME LoopInv, Loop!Deliver("treeSet"), Loop!SetActiveAccel(TRUE)
  PROVE  LoopInv'
  <1>1. todo # <<>> /\ Head(todo) = "treeSet"
    BY DEF Loop!Deliver, Loop!Quiet
  <1>2. /\ AtAbout \/ AtOther \/ AtMain
        /\ LoopTypes /\ {"main", "tree", "edit"} \subseteq windows /\ DialogKnown /\ LabelKnown
    BY <1>1, Situations
  <1>u. UNCHANGED <<active, windows, enabled, minimized, box, focus, hWndFocus, hWndAbout, left>>
        /\ todo' = Tail(todo) /\ Loop!UpdateMsgLoopAccel("main", "tree")
    BY DEF Loop!user, Loop!SetActiveAccel
  <1>3. ~AtAbout
    BY <1>1, Popped DEF AtAbout
  <1>4. ~AtOther
    BY <1>1, Popped, LastMessages DEF AtOther
  <1>5. AtMain
    BY <1>2, <1>3, <1>4
  <1>6. /\ todo \in {<<"treeSet">>, <<"treeSet", "aboutDestroy">>, SetDestroyAndLeave}
        /\ ServesMain /\ hWndFocus = NULL /\ focus = "tree" /\ Back
    BY <1>1, <1>5, Popped, LastMessages DEF AtMain
  <1>7. /\ todo = <<"treeSet">> => todo' = <<>>
        /\ todo = <<"treeSet", "aboutDestroy">> => todo' = <<"aboutDestroy">>
        /\ todo = SetDestroyAndLeave => todo' = DestroyAndLeave
    BY <1>u, Popped, LastMessages
  <1>8. InMainWindow' /\ ServesMain'
    BY <1>u, <1>6 DEF Loop!UpdateMsgLoopAccel, InMainWindow, ServesMain, MainLoop, MainAccel
  <1>9. AtMain'
    <2>1. todo' \in WithDialog <=> todo \in WithDialog
      BY <1>6, <1>7, Apart
    <2> QED BY <1>u, <1>5, <1>6, <1>7, <1>8, <2>1 DEF AtMain, Back
  <1>10. DialogKnown'
    <2>1. InitNotFirst(todo)
      BY <1>6, NotInit
    <2>2. InitNotFirst(todo')
      BY <1>6, <1>7, NotInit
    <2>3. /\ todo' \in WithDialog \cup ToDialog => todo \in WithDialog \cup ToDialog
          /\ todo' \notin WithoutDialog
      BY <1>6, <1>7, Apart
    <2>4. UNCHANGED <<windows, hWndAbout>>
      BY <1>u
    <2> QED BY <1>2, <1>8, <2>1, <2>2, <2>3, <2>4, DialogStays
  <1> QED BY <1>1, <1>2, <1>u, <1>6, <1>9, <1>10 DEF LoopInv, LoopTypes, LabelKnown,
       Loop!Deliver

\* The tree has lost the focus: the accelerators of the main window are back, or
\* the dialog keeps its own.
LEMMA TreeKillKeeps ==
  ASSUME LoopInv, Loop!Deliver("treeKill"), Loop!SetActiveAccel(FALSE)
  PROVE  LoopInv'
  <1>1. todo # <<>> /\ Head(todo) = "treeKill"
    BY DEF Loop!Deliver, Loop!Quiet
  <1>2. /\ AtAbout \/ AtOther \/ AtMain
        /\ LoopTypes /\ {"main", "tree", "edit"} \subseteq windows /\ DialogKnown /\ LabelKnown
    BY <1>1, Situations
  <1>u. UNCHANGED <<active, windows, enabled, minimized, box, focus, hWndFocus, hWndAbout, left>>
        /\ todo' = Tail(todo) /\ Loop!UpdateMsgLoopAccel("main", "main")
    BY DEF Loop!user, Loop!SetActiveAccel
  <1>v. UNCHANGED <<windows, hWndAbout>>
    BY <1>u
  <1>l. LoopTypes' /\ LabelKnown'
    BY <1>1, <1>2, <1>u DEF LoopTypes, LabelKnown, Loop!Deliver
  <1>3. CASE AtAbout
    <2>1. todo = <<"treeKill">> /\ ServesAbout /\ Saved /\ focus = "about"
      BY <1>1, <1>3, Popped DEF AtAbout
    <2>2. todo' = <<>>
      BY <1>u, <2>1, Popped
    <2>3. ServesAbout' /\ Saved'
      BY <1>u, <2>1 DEF Loop!UpdateMsgLoopAccel, ServesAbout, AboutLoop, Saved, MainAccel
    <2>4. AtAbout'
      BY <1>u, <1>3, <2>1, <2>2, <2>3 DEF AtAbout
    <2>5. InitNotFirst(todo) /\ InitNotFirst(todo')
      BY <2>1, <2>2, NotInit
    <2>6. "about" \in windows
      BY <1>3 DEF AtAbout
    <2>7. DialogKnown'
      BY <1>2, <1>v, <2>2, <2>5, <2>6, NoMessage, DialogStays
    <2> QED BY <1>2, <1>u, <1>l, <2>4, <2>7 DEF LoopInv
  <1>4. CASE AtOther
    <2>1. /\ todo \in {<<"treeKill">>, <<"treeKill", "mainOffMinimized">>, <<"treeKill", "mainDestroy">>}
          /\ ServesMain /\ Saved /\ focus = "elsewhere"
      BY <1>1, <1>4, Popped, LastMessages DEF AtOther
    <2>2. /\ todo = <<"treeKill">> => todo' = <<>>
          /\ todo = <<"treeKill", "mainOffMinimized">> => todo' = <<"mainOffMinimized">>
          /\ todo = <<"treeKill", "mainDestroy">> => todo' = <<"mainDestroy">>
      BY <1>u, <2>1, Popped
    <2>3. ServesMain' /\ Saved'
      BY <1>u, <2>1 DEF Loop!UpdateMsgLoopAccel, ServesMain, MainLoop, Saved, MainAccel
    <2>4. /\ todo' \notin WithDialog \cup ToDialog
          /\ todo' \in WithoutDialog <=> todo \in WithoutDialog
      BY <2>1, <2>2, Apart
    <2>5. AtOther'
      BY <1>u, <1>4, <2>1, <2>2, <2>3, <2>4 DEF AtOther
    <2>6. InitNotFirst(todo) /\ InitNotFirst(todo')
      BY <2>1, <2>2, NotInit
    <2>7. DialogKnown'
      BY <1>2, <1>v, <2>3, <2>4, <2>6, DialogStays
    <2> QED BY <1>2, <1>u, <1>l, <2>5, <2>7 DEF LoopInv
  <1>5. CASE AtMain
    <2>1. /\ todo = <<"treeKill">> /\ ServesMain /\ hWndFocus = NULL
          /\ focus \notin {"tree", "about"} /\ left = NULL
      BY <1>1, <1>5, Popped, LastMessages DEF AtMain
    <2>2. todo' = <<>>
      BY <1>u, <2>1, Popped
    <2>3. InMainWindow' /\ ServesMain'
      BY <1>u, <2>1 DEF Loop!UpdateMsgLoopAccel, ServesMain, MainLoop, InMainWindow, MainAccel
    <2>4. Back'
      BY <1>u, <2>1, LoopAssumption DEF Back
    <2>5. todo \notin WithDialog
      BY <2>1, Apart
    <2>6. AtMain'
      BY <1>u, <1>5, <2>1, <2>2, <2>3, <2>4, <2>5, NoMessage DEF AtMain
    <2>7. InitNotFirst(todo) /\ InitNotFirst(todo')
      BY <2>1, <2>2, NotInit
    <2>8. DialogKnown'
      BY <1>2, <1>v, <2>2, <2>3, <2>7, NoMessage, DialogStays
    <2> QED BY <1>2, <1>u, <1>l, <2>6, <2>8 DEF LoopInv
  <1> QED BY <1>2, <1>3, <1>4, <1>5

\* The dialog takes the loop over, ...
LEMMA AboutOnKeeps ==
  ASSUME LoopInv, Loop!Deliver("aboutOn"), Loop!SetMsgLoop("about", NULL), todo' = Tail(todo),
         UNCHANGED <<Loop!user, focus, hWndFocus, hWndAbout, left>>
  PROVE  LoopInv'
  <1>1. todo # <<>> /\ Head(todo) = "aboutOn"
    BY DEF Loop!Deliver, Loop!Quiet
  <1>2. /\ AtAbout \/ AtOther \/ AtMain
        /\ LoopTypes /\ {"main", "tree", "edit"} \subseteq windows /\ DialogKnown /\ LabelKnown
    BY <1>1, Situations
  <1>u. UNCHANGED <<active, windows, enabled, minimized, box>>
    BY DEF Loop!user
  <1>v. UNCHANGED <<windows, hWndAbout>>
    BY <1>u
  <1>l. LoopTypes' /\ LabelKnown'
    BY <1>1, <1>2, <1>u DEF LoopTypes, LabelKnown, Loop!Deliver
  <1>3. ~AtOther
    BY <1>1, Popped, LastMessages DEF AtOther
  <1>4. ~AtMain
    BY <1>1, Popped, LastMessages DEF AtMain
  <1>5. AtAbout
    BY <1>2, <1>3, <1>4
  <1>6. todo = <<"aboutOn", "focusAbout">> /\ ServesMain /\ Saved /\ focus # "about"
    BY <1>1, <1>5, Popped DEF AtAbout
  <1>7. todo' = <<"focusAbout">>
    BY <1>6, Popped
  <1>8. ServesAbout' /\ Saved'
    BY <1>6 DEF Loop!SetMsgLoop, ServesMain, MainLoop, ServesAbout, AboutLoop, Saved, MainAccel
  <1>9. AtAbout'
    BY <1>u, <1>5, <1>6, <1>7, <1>8 DEF AtAbout
  <1>10. InitNotFirst(todo) /\ InitNotFirst(todo')
    BY <1>6, <1>7, NotInit
  <1>11. "about" \in windows /\ todo' \notin WithDialog \cup ToDialog \cup WithoutDialog
    BY <1>5, <1>7, Apart DEF AtAbout
  <1>12. DialogKnown'
    BY <1>2, <1>v, <1>10, <1>11, DialogStays
  <1> QED BY <1>2, <1>u, <1>l, <1>9, <1>12 DEF LoopInv

\* ... and gives it back, with the accelerators it found.
LEMMA AboutOffKeeps ==
  ASSUME LoopInv, Loop!Deliver("aboutOff"), Loop!RestoreMsgLoop, todo' = Tail(todo),
         UNCHANGED <<Loop!user, focus, hWndFocus, hWndAbout, left>>
  PROVE  LoopInv'
  <1>1. todo # <<>> /\ Head(todo) = "aboutOff"
    BY DEF Loop!Deliver, Loop!Quiet
  <1>2. /\ AtAbout \/ AtOther \/ AtMain
        /\ LoopTypes /\ {"main", "tree", "edit"} \subseteq windows /\ DialogKnown /\ LabelKnown
    BY <1>1, Situations
  <1>u. UNCHANGED <<active, windows, enabled, minimized, box>>
    BY DEF Loop!user
  <1>v. UNCHANGED <<windows, hWndAbout>>
    BY <1>u
  <1>l. LoopTypes' /\ LabelKnown'
    BY <1>1, <1>2, <1>u DEF LoopTypes, LabelKnown, Loop!Deliver
  <1>3. ~AtAbout
    BY <1>1, Popped DEF AtAbout
  <1>r. ASSUME ServesAbout, Saved PROVE ServesMain' /\ Saved'
    BY <1>r, LoopAssumption DEF Loop!RestoreMsgLoop, ServesMain, MainLoop, ServesAbout,
         AboutLoop, Saved, MainAccel
  <1>4. CASE AtOther
    <2>1. /\ todo \in {<<"aboutOff", "focusElsewhere">>, <<"aboutOff", "focusElsewhere", "aboutDestroy">>}
          /\ ServesAbout /\ Saved /\ focus = "about"
      BY <1>1, <1>4, Popped, LastMessages DEF AtOther
    <2>2. /\ todo = <<"aboutOff", "focusElsewhere">> => todo' = <<"focusElsewhere">>
          /\ todo = <<"aboutOff", "focusElsewhere", "aboutDestroy">>
               => todo' = <<"focusElsewhere", "aboutDestroy">>
      BY <2>1, Popped
    <2>3. ServesMain' /\ Saved'
      BY <1>r, <2>1
    <2>4. /\ todo' \in ToDialog => todo \in ToDialog
          /\ todo' \notin WithDialog \cup WithoutDialog
      BY <2>1, <2>2, Apart, ZenonT(40) DEF ToDialog
    <2>5. AtOther'
      BY <1>u, <1>4, <2>1, <2>2, <2>3, <2>4 DEF AtOther
    <2>6. InitNotFirst(todo) /\ InitNotFirst(todo')
      BY <2>1, <2>2, NotInit
    <2>7. DialogKnown'
      BY <1>2, <1>v, <2>3, <2>4, <2>6, DialogStays
    <2> QED BY <1>2, <1>u, <1>l, <2>5, <2>7 DEF LoopInv
  <1>5. CASE AtMain
    <2>1. /\ todo \in {<<"aboutOff", "mainOn">>, <<"aboutOff", "mainOn", "aboutDestroy">>,
                       OffOnDestroyAndLeave}
          /\ ServesAbout /\ Saved /\ focus = "about"
      BY <1>1, <1>5, Popped, LastMessages DEF AtMain
    <2>2. /\ todo = <<"aboutOff", "mainOn">> => todo' = <<"mainOn">>
          /\ todo = <<"aboutOff", "mainOn", "aboutDestroy">> => todo' = <<"mainOn", "aboutDestroy">>
          /\ todo = OffOnDestroyAndLeave => todo' = OnDestroyAndLeave
      BY <2>1, Popped, LastMessages
    <2>3. ServesMain' /\ Saved'
      BY <1>r, <2>1
    <2>4. /\ todo' \in ToDialog => todo \in ToDialog
          /\ todo' \notin WithoutDialog
          /\ todo' \in WithDialog <=> todo \in WithDialog
      <3>1. /\ todo' \in WithDialog <=> todo \in WithDialog
            /\ todo' \notin WithoutDialog
        <4>1. CASE todo = OffOnDestroyAndLeave
          BY <2>2, <4>1, Apart
        <4>2. CASE todo = <<"aboutOff", "mainOn">>
          BY <2>2, <4>2, Apart
        <4>3. CASE todo = <<"aboutOff", "mainOn", "aboutDestroy">>
          BY <2>2, <4>3, Apart
        <4> QED BY <2>1, <4>1, <4>2, <4>3
      <3>2. todo' \in ToDialog => todo = <<"aboutOff", "mainOn", "aboutDestroy">>
        BY <2>1, <2>2, Apart
      <3> QED BY <3>1, <3>2 DEF ToDialog
    <2>5. AtMain'
      BY <1>u, <1>5, <2>1, <2>2, <2>3, <2>4 DEF AtMain
    <2>6. InitNotFirst(todo) /\ InitNotFirst(todo')
      BY <2>1, <2>2, NotInit
    <2>7. DialogKnown'
      BY <1>2, <1>v, <2>3, <2>4, <2>6, DialogStays
    <2> QED BY <1>2, <1>u, <1>l, <2>5, <2>7 DEF LoopInv
  <1> QED BY <1>2, <1>3, <1>4, <1>5

\* The main window knows the dialog from its first message ...
LEMMA AboutInitKeeps ==
  ASSUME LoopInv, Loop!AboutWmInitDialog
  PROVE  LoopInv'
  <1>1. todo # <<>> /\ Head(todo) = "aboutInit"
    BY DEF Loop!AboutWmInitDialog, Loop!Deliver, Loop!Quiet
  <1>2. /\ AtAbout \/ AtOther \/ AtMain
        /\ LoopTypes /\ {"main", "tree", "edit"} \subseteq windows /\ DialogKnown /\ LabelKnown
    BY <1>1, Situations
  <1>u. UNCHANGED <<active, windows, enabled, minimized, box, focus, hWndFocus, loop, left>>
        /\ todo' = Tail(todo) /\ hWndAbout' = "about"
    BY DEF Loop!AboutWmInitDialog, Loop!MainWmAppWindowCreated, Loop!user
  <1>3. ~AtOther
    BY <1>1, Popped, LastMessages DEF AtOther
  <1>4. ~AtMain
    BY <1>1, Popped, LastMessages DEF AtMain
  <1>5. AtAbout
    BY <1>2, <1>3, <1>4
  <1>6. todo = <<"aboutInit", "mainOff", "aboutOn", "focusAbout">> /\ InMainWindow /\ left = focus
    BY <1>1, <1>5, Popped DEF AtAbout
  <1>7. todo' = <<"mainOff", "aboutOn", "focusAbout">>
    BY <1>u, <1>6, Popped
  <1>8. AtAbout'
    BY <1>u, <1>5, <1>6, <1>7 DEF AtAbout, InMainWindow, ServesMain, MainLoop, MainAccel
  <1>9. InitNotFirst(todo') /\ "about" \in windows
    BY <1>5, <1>7, NotInit DEF AtAbout
  <1>10. todo' \notin WithoutDialog
    BY <1>7 DEF WithoutDialog, Leave
  <1>11. DialogKnown'
    BY <1>2, <1>u, <1>9, <1>10 DEF DialogKnown, InitNotFirst, Loop!Deliver, Loop!Quiet
  <1>l. LoopTypes' /\ LabelKnown'
    BY <1>1, <1>2, <1>u DEF LoopTypes, LabelKnown, Loop!Deliver
  <1> QED BY <1>2, <1>u, <1>l, <1>8, <1>11 DEF LoopInv

\* ... to its last, when the loop has been given back.
LEMMA AboutDestroyKeeps ==
  ASSUME LoopInv, Loop!AboutMwDestroy
  PROVE  LoopInv'
  <1>1. todo # <<>> /\ Head(todo) = "aboutDestroy"
    BY DEF Loop!AboutMwDestroy, Loop!Deliver, Loop!Quiet
  <1>2. /\ AtAbout \/ AtOther \/ AtMain
        /\ LoopTypes /\ {"main", "tree", "edit"} \subseteq windows /\ DialogKnown /\ LabelKnown
    BY <1>1, Situations
  <1>u. UNCHANGED <<active, enabled, minimized, box, focus, hWndFocus, loop, left>>
        /\ todo' = Tail(todo) /\ hWndAbout' = NULL /\ windows' = windows \ {"about"}
    BY DEF Loop!AboutMwDestroy, Loop!MainWmAppWindowCreated
  <1>l. LoopTypes' /\ LabelKnown' /\ {"main", "tree", "edit"} \subseteq windows'
    BY <1>1, <1>2, <1>u DEF LoopTypes, LabelKnown, Loop!Deliver
  <1>d. ASSUME ServesMain, todo' \notin WithDialog \cup ToDialog PROVE DialogKnown'
    BY <1>d, <1>u DEF DialogKnown, ServesMain, MainLoop
  <1>3. ~AtAbout
    BY <1>1, Popped DEF AtAbout
  <1>4. CASE AtOther
    <2>1. todo = <<"aboutDestroy">> /\ ServesMain /\ Saved /\ focus = "elsewhere"
      BY <1>1, <1>4, Popped, LastMessages DEF AtOther
    <2>2. todo' = <<>>
      BY <1>u, <2>1, Popped
    <2>3. AtOther'
      BY <1>4, <1>u, <2>1, <2>2, NoMessage DEF AtOther, Saved, ServesMain, MainLoop, MainAccel
    <2>4. DialogKnown'
      BY <1>d, <2>1, <2>2, NoMessage
    <2> QED BY <1>l, <2>3, <2>4 DEF LoopInv
  <1>5. CASE AtMain
    <2>1. /\ todo \in {<<"aboutDestroy">>, DestroyAndLeave} /\ InMainWindow /\ Back
          /\ ServesMain
      BY <1>1, <1>5, Popped, LastMessages DEF AtMain, InMainWindow
    <2>i. InMainWindow' /\ Back'
      BY <1>u, <2>1 DEF InMainWindow, Back, ServesMain, MainLoop, MainAccel, Loop!Children
    <2>2. CASE todo = <<"aboutDestroy">>
      <3>1. todo' = <<>> /\ todo \notin WithDialog
        BY <1>u, <2>2, Popped, Apart
      <3>2. AtMain'
        BY <1>5, <1>u, <2>i, <3>1, NoMessage DEF AtMain
      <3>3. DialogKnown'
        BY <1>d, <2>1, <3>1, NoMessage
      <3> QED BY <1>l, <3>2, <3>3 DEF LoopInv
    <2>3. CASE todo = DestroyAndLeave
      <3>1. todo' = Leave /\ todo \in WithDialog
        BY <1>u, <2>3, LastMessages, Apart
      <3>2. active = "other" /\ left = NULL /\ ~minimized
        BY <1>5, <3>1 DEF AtMain
      <3>3. AtOther'
        BY <1>u, <2>i, <3>1, <3>2 DEF AtOther
      <3>4. Leave \notin WithDialog \cup ToDialog
        BY DEF Leave, WithDialog, ToDialog, DestroyAndLeave, OnDestroyAndLeave,
             SetDestroyAndLeave, OffOnDestroyAndLeave
      <3>5. DialogKnown'
        BY <1>d, <2>1, <3>1, <3>4
      <3> QED BY <1>l, <3>3, <3>5 DEF LoopInv
    <2> QED BY <2>1, <2>2, <2>3
  <1> QED BY <1>2, <1>3, <1>4, <1>5

\* The main window is gone last.
LEMMA MainDestroyKeeps ==
  ASSUME LoopInv, Loop!MainWmNcDestroy
  PROVE  LoopInv'
  <1>1. todo # <<>> /\ Head(todo) = "mainDestroy"
    BY DEF Loop!MainWmNcDestroy, Loop!Deliver, Loop!Quiet
  <1>2. /\ AtAbout \/ AtOther \/ AtMain
        /\ LoopTypes /\ {"main", "tree", "edit"} \subseteq windows /\ DialogKnown /\ LabelKnown
    BY <1>1, Situations
  <1>u. UNCHANGED <<active, enabled, minimized, box, focus, hWndFocus, hWndAbout, loop, left>>
        /\ todo' = <<>> /\ windows' = {}
    BY DEF Loop!MainWmNcDestroy
  <1>3. ~AtAbout
    BY <1>1, Popped DEF AtAbout
  <1>4. ~AtMain
    BY <1>1, Popped, LastMessages DEF AtMain
  <1>5. AtOther
    BY <1>2, <1>3, <1>4
  <1>6. todo = <<"mainDestroy">> /\ ServesMain
    BY <1>1, <1>5, Popped, LastMessages DEF AtOther
  <1>7. active = "other" /\ ~minimized /\ hWndAbout = NULL
    BY <1>2, <1>5, <1>6, Apart DEF AtOther, DialogKnown
  <1> QED BY <1>2, <1>u, <1>6, <1>7 DEF LoopInv, Destroyed, LoopTypes, ServesMain, MainLoop

\* The focus goes to the dialog, which already has the loop.
LEMMA FocusAboutKeeps ==
  ASSUME LoopInv, Loop!Deliver("focusAbout"), Loop!MoveFocus("about", Tail(todo)),
         UNCHANGED <<Loop!user, hWndFocus, hWndAbout, loop, left>>
  PROVE  LoopInv'
  <1>1. todo # <<>> /\ Head(todo) = "focusAbout"
    BY DEF Loop!Deliver, Loop!Quiet
  <1>2. /\ AtAbout \/ AtOther \/ AtMain
        /\ LoopTypes /\ {"main", "tree", "edit"} \subseteq windows /\ DialogKnown /\ LabelKnown
    BY <1>1, Situations
  <1>u. UNCHANGED <<active, windows, enabled, minimized, box>> /\ focus' = "about"
    BY DEF Loop!user, Loop!MoveFocus
  <1>v. UNCHANGED <<windows, hWndAbout>>
    BY <1>u
  <1>3. ~AtOther
    BY <1>1, Popped, LastMessages DEF AtOther
  <1>4. ~AtMain
    BY <1>1, Popped, LastMessages DEF AtMain
  <1>5. AtAbout
    BY <1>2, <1>3, <1>4
  <1>6. todo = <<"focusAbout">> /\ ServesAbout /\ Saved /\ focus # "about" /\ "about" \in windows
    BY <1>1, <1>5, Popped DEF AtAbout
  <1>7. Tail(todo) = <<>>
    BY <1>6, Popped
  <1>8. todo' = Loop!Told("about") \o Tail(todo)
    BY <1>6 DEF Loop!MoveFocus
  <1>9. /\ focus = "tree" => todo' = <<"treeKill">>
        /\ focus = "label" => todo' = <<"labelKill">>
        /\ focus \notin {"tree", "label"} => todo' = <<>>
    <2>1. CASE focus = "tree"
      <3>1. Loop!Told("about") = <<"treeKill">>
        BY <2>1, ToldWhom
      <3>2. \A s, u : s = <<"treeKill">> /\ u = <<>> => s \o u = <<"treeKill">>
        BY Joined
      <3>3. Loop!Told("about") \o Tail(todo) = <<"treeKill">>
        BY <1>7, <3>1, <3>2
      <3>4. todo' = <<"treeKill">>
        BY <1>8, <3>3
      <3> QED BY <2>1, <3>4
    <2>2. CASE focus = "label"
      <3>1. Loop!Told("about") = <<"labelKill">>
        BY <2>2, ToldWhom
      <3>2. \A s, u : s = <<"labelKill">> /\ u = <<>> => s \o u = <<"labelKill">>
        BY Joined
      <3>3. Loop!Told("about") \o Tail(todo) = <<"labelKill">>
        BY <1>7, <3>1, <3>2
      <3>4. todo' = <<"labelKill">>
        BY <1>8, <3>3
      <3> QED BY <2>2, <3>4
    <2>3. CASE focus \notin {"tree", "label"}
      <3>1. Loop!Told("about") = <<>>
        BY <2>3, ToldWhom
      <3>2. todo' = <<>>
        BY <1>7, <1>8, <3>1, Joined
      <3> QED BY <2>3, <3>2
    <2> QED BY <2>1, <2>2, <2>3
  <1>10. todo' \in {<<"treeKill">>, <<"labelKill">>, <<>>}
    BY <1>9
  <1>11. AtAbout'
    BY <1>u, <1>5, <1>6, <1>10 DEF AtAbout, ServesAbout, AboutLoop, Saved, MainAccel
  <1>12. InitNotFirst(todo) /\ InitNotFirst(todo')
    BY <1>6, <1>10, NotInit
  <1>13. todo' \notin WithDialog \cup ToDialog \cup WithoutDialog
    BY <1>10, Apart
  <1>14. DialogKnown'
    BY <1>2, <1>v, <1>6, <1>12, <1>13, DialogStays
  <1>15. LabelKnown'
    <2>1. "label" \in windows => focus = "label"
      BY <1>1, <1>2 DEF LabelKnown, Loop!Deliver
    <2>2. "label" \in windows => todo' = <<"labelKill">>
      BY <1>9, <2>1
    <2>3. todo' = <<"labelKill">> => Loop!Deliver("labelKill")'
      BY Popped DEF Loop!Deliver, Loop!Quiet
    <2> QED BY <1>u, <2>2, <2>3 DEF LabelKnown
  <1>16. LoopTypes'
    BY <1>2, <1>u DEF LoopTypes
  <1> QED BY <1>2, <1>u, <1>11, <1>14, <1>15, <1>16 DEF LoopInv

\* What is left to say when the focus has gone to another window.
Elsewhere ==
    {<<"treeKill">>, <<"labelKill">>, <<"treeKill", "mainOffMinimized">>,
     <<"labelKill", "mainOffMinimized">>, <<"treeKill", "mainDestroy">>,
     <<"labelKill", "mainDestroy">>, <<"mainOffMinimized">>,
     <<"mainDestroy">>, <<"aboutDestroy">>, <<>>}

SaysThen(s, t) ==
    /\ t \in Elsewhere
    /\ t \in WithoutDialog <=> s \in WithoutDialog
    /\ t \notin WithDialog
    /\ t \in ToDialog => s \in ToDialog
    /\ InitNotFirst(s) /\ InitNotFirst(t)

\* ... and what was to be said before.
LEMMA WhatFollows ==
  /\ \A s, t : s = <<"focusElsewhere">> /\ t = <<"treeKill">> => SaysThen(s, t)
  /\ \A s, t : s = <<"focusElsewhere", "mainDestroy">> /\ t = <<"treeKill", "mainDestroy">> => SaysThen(s, t)
  /\ \A s, t : s = <<"focusElsewhere", "mainOffMinimized">> /\ t = <<"treeKill", "mainOffMinimized">> => SaysThen(s, t)
  /\ \A s, t : s = <<"focusElsewhere">> /\ t = <<"labelKill">> => SaysThen(s, t)
  /\ \A s, t : s = <<"focusElsewhere", "mainDestroy">> /\ t = <<"labelKill", "mainDestroy">> => SaysThen(s, t)
  /\ \A s, t : s = <<"focusElsewhere", "mainOffMinimized">> /\ t = <<"labelKill", "mainOffMinimized">> => SaysThen(s, t)
  /\ \A s, t : s = <<"focusElsewhere">> /\ t = <<>> => SaysThen(s, t)
  /\ \A s, t : s = <<"focusElsewhere", "mainDestroy">> /\ t = <<"mainDestroy">> => SaysThen(s, t)
  /\ \A s, t : s = <<"focusElsewhere", "mainOffMinimized">> /\ t = <<"mainOffMinimized">> => SaysThen(s, t)
  /\ \A s, t : s = <<"focusElsewhere", "aboutDestroy">> /\ t = <<"aboutDestroy">> => SaysThen(s, t)
  <1>1. \A s, t : s = <<"focusElsewhere">> /\ t = <<"treeKill">> => SaysThen(s, t)
    <2> SUFFICES ASSUME NEW s, NEW t, s = <<"focusElsewhere">>, t = <<"treeKill">> PROVE SaysThen(s, t)
      OBVIOUS
    <2>1. t \in Elsewhere
      BY DEF Elsewhere
    <2>2. t \in WithoutDialog <=> s \in WithoutDialog
      BY Apart
    <2>3. t \notin WithDialog /\ (t \in ToDialog => s \in ToDialog)
      BY Apart
    <2>4. InitNotFirst(s)
      BY NotInit
    <2>5. InitNotFirst(t)
      BY NotInit
    <2> QED BY <2>1, <2>2, <2>3, <2>4, <2>5 DEF SaysThen
  <1>2. \A s, t : s = <<"focusElsewhere", "mainDestroy">> /\ t = <<"treeKill", "mainDestroy">> => SaysThen(s, t)
    <2> SUFFICES ASSUME NEW s, NEW t, s = <<"focusElsewhere", "mainDestroy">>, t = <<"treeKill", "mainDestroy">> PROVE SaysThen(s, t)
      OBVIOUS
    <2>1. t \in Elsewhere
      BY DEF Elsewhere
    <2>2. t \in WithoutDialog <=> s \in WithoutDialog
      BY Apart
    <2>3. t \notin WithDialog /\ (t \in ToDialog => s \in ToDialog)
      BY Apart
    <2>4. InitNotFirst(s)
      BY NotInit
    <2>5. InitNotFirst(t)
      BY NotInit
    <2> QED BY <2>1, <2>2, <2>3, <2>4, <2>5 DEF SaysThen
  <1>3. \A s, t : s = <<"focusElsewhere", "mainOffMinimized">> /\ t = <<"treeKill", "mainOffMinimized">> => SaysThen(s, t)
    <2> SUFFICES ASSUME NEW s, NEW t, s = <<"focusElsewhere", "mainOffMinimized">>, t = <<"treeKill", "mainOffMinimized">> PROVE SaysThen(s, t)
      OBVIOUS
    <2>1. t \in Elsewhere
      BY DEF Elsewhere
    <2>2. t \in WithoutDialog <=> s \in WithoutDialog
      BY Apart
    <2>3. t \notin WithDialog /\ (t \in ToDialog => s \in ToDialog)
      BY Apart
    <2>4. InitNotFirst(s)
      BY NotInit
    <2>5. InitNotFirst(t)
      BY NotInit
    <2> QED BY <2>1, <2>2, <2>3, <2>4, <2>5 DEF SaysThen
  <1>4. \A s, t : s = <<"focusElsewhere">> /\ t = <<"labelKill">> => SaysThen(s, t)
    <2> SUFFICES ASSUME NEW s, NEW t, s = <<"focusElsewhere">>, t = <<"labelKill">> PROVE SaysThen(s, t)
      OBVIOUS
    <2>1. t \in Elsewhere
      BY DEF Elsewhere
    <2>2. t \in WithoutDialog <=> s \in WithoutDialog
      BY Apart
    <2>3. t \notin WithDialog /\ (t \in ToDialog => s \in ToDialog)
      BY Apart
    <2>4. InitNotFirst(s)
      BY NotInit
    <2>5. InitNotFirst(t)
      BY NotInit
    <2> QED BY <2>1, <2>2, <2>3, <2>4, <2>5 DEF SaysThen
  <1>5. \A s, t : s = <<"focusElsewhere", "mainDestroy">> /\ t = <<"labelKill", "mainDestroy">> => SaysThen(s, t)
    <2> SUFFICES ASSUME NEW s, NEW t, s = <<"focusElsewhere", "mainDestroy">>, t = <<"labelKill", "mainDestroy">> PROVE SaysThen(s, t)
      OBVIOUS
    <2>1. t \in Elsewhere
      BY DEF Elsewhere
    <2>2. t \in WithoutDialog <=> s \in WithoutDialog
      BY Apart
    <2>3. t \notin WithDialog /\ (t \in ToDialog => s \in ToDialog)
      BY Apart
    <2>4. InitNotFirst(s)
      BY NotInit
    <2>5. InitNotFirst(t)
      BY NotInit
    <2> QED BY <2>1, <2>2, <2>3, <2>4, <2>5 DEF SaysThen
  <1>6. \A s, t : s = <<"focusElsewhere", "mainOffMinimized">> /\ t = <<"labelKill", "mainOffMinimized">> => SaysThen(s, t)
    <2> SUFFICES ASSUME NEW s, NEW t, s = <<"focusElsewhere", "mainOffMinimized">>, t = <<"labelKill", "mainOffMinimized">> PROVE SaysThen(s, t)
      OBVIOUS
    <2>1. t \in Elsewhere
      BY DEF Elsewhere
    <2>2. t \in WithoutDialog <=> s \in WithoutDialog
      BY Apart
    <2>3. t \notin WithDialog /\ (t \in ToDialog => s \in ToDialog)
      BY Apart
    <2>4. InitNotFirst(s)
      BY NotInit
    <2>5. InitNotFirst(t)
      BY NotInit
    <2> QED BY <2>1, <2>2, <2>3, <2>4, <2>5 DEF SaysThen
  <1>7. \A s, t : s = <<"focusElsewhere">> /\ t = <<>> => SaysThen(s, t)
    <2> SUFFICES ASSUME NEW s, NEW t, s = <<"focusElsewhere">>, t = <<>> PROVE SaysThen(s, t)
      OBVIOUS
    <2>1. t \in Elsewhere
      BY DEF Elsewhere
    <2>2. t \in WithoutDialog <=> s \in WithoutDialog
      BY Apart
    <2>3. t \notin WithDialog /\ (t \in ToDialog => s \in ToDialog)
      BY Apart
    <2>4. InitNotFirst(s)
      BY NotInit
    <2>5. InitNotFirst(t)
      BY NotInit
    <2> QED BY <2>1, <2>2, <2>3, <2>4, <2>5 DEF SaysThen
  <1>8. \A s, t : s = <<"focusElsewhere", "mainDestroy">> /\ t = <<"mainDestroy">> => SaysThen(s, t)
    <2> SUFFICES ASSUME NEW s, NEW t, s = <<"focusElsewhere", "mainDestroy">>, t = <<"mainDestroy">> PROVE SaysThen(s, t)
      OBVIOUS
    <2>1. t \in Elsewhere
      BY DEF Elsewhere
    <2>2. t \in WithoutDialog <=> s \in WithoutDialog
      BY Apart
    <2>3. t \notin WithDialog /\ (t \in ToDialog => s \in ToDialog)
      BY Apart
    <2>4. InitNotFirst(s)
      BY NotInit
    <2>5. InitNotFirst(t)
      BY NotInit
    <2> QED BY <2>1, <2>2, <2>3, <2>4, <2>5 DEF SaysThen
  <1>9. \A s, t : s = <<"focusElsewhere", "mainOffMinimized">> /\ t = <<"mainOffMinimized">> => SaysThen(s, t)
    <2> SUFFICES ASSUME NEW s, NEW t, s = <<"focusElsewhere", "mainOffMinimized">>, t = <<"mainOffMinimized">> PROVE SaysThen(s, t)
      OBVIOUS
    <2>1. t \in Elsewhere
      BY DEF Elsewhere
    <2>2. t \in WithoutDialog <=> s \in WithoutDialog
      BY Apart
    <2>3. t \notin WithDialog /\ (t \in ToDialog => s \in ToDialog)
      BY Apart
    <2>4. InitNotFirst(s)
      BY NotInit
    <2>5. InitNotFirst(t)
      BY NotInit
    <2> QED BY <2>1, <2>2, <2>3, <2>4, <2>5 DEF SaysThen
  <1>10. \A s, t : s = <<"focusElsewhere", "aboutDestroy">> /\ t = <<"aboutDestroy">> => SaysThen(s, t)
    <2> SUFFICES ASSUME NEW s, NEW t, s = <<"focusElsewhere", "aboutDestroy">>, t = <<"aboutDestroy">> PROVE SaysThen(s, t)
      OBVIOUS
    <2>1. t \in Elsewhere
      BY DEF Elsewhere
    <2>2. t \in WithoutDialog <=> s \in WithoutDialog
      BY Apart
    <2>3. t \notin WithDialog /\ (t \in ToDialog => s \in ToDialog)
      BY Apart
    <2>4. InitNotFirst(s)
      BY NotInit
    <2>5. InitNotFirst(t)
      BY NotInit
    <2> QED BY <2>1, <2>2, <2>3, <2>4, <2>5 DEF SaysThen
  <1> QED BY <1>1, <1>2, <1>3, <1>4, <1>5, <1>6, <1>7, <1>8, <1>9, <1>10, Zenon

\* The focus goes to another window.
LEMMA FocusElsewhereKeeps ==
  ASSUME LoopInv, Loop!Deliver("focusElsewhere"), Loop!MoveFocus("elsewhere", Tail(todo)),
         UNCHANGED <<Loop!user, hWndFocus, hWndAbout, loop, left>>
  PROVE  LoopInv'
  <1>1. todo # <<>> /\ Head(todo) = "focusElsewhere"
    BY DEF Loop!Deliver, Loop!Quiet
  <1>2. /\ AtAbout \/ AtOther \/ AtMain
        /\ LoopTypes /\ {"main", "tree", "edit"} \subseteq windows /\ DialogKnown /\ LabelKnown
    BY <1>1, Situations
  <1>u. UNCHANGED <<active, windows, enabled, minimized, box>> /\ focus' = "elsewhere"
    BY DEF Loop!user, Loop!MoveFocus
  <1>v. UNCHANGED <<windows, hWndAbout>>
    BY <1>u
  <1>3. ~AtAbout
    BY <1>1, Popped DEF AtAbout
  <1>4. ~AtMain
    BY <1>1, Popped, LastMessages DEF AtMain
  <1>5. AtOther
    BY <1>2, <1>3, <1>4
  <1>6. /\ todo \in {<<"focusElsewhere">>, <<"focusElsewhere", "mainDestroy">>,
                     <<"focusElsewhere", "mainOffMinimized">>,
                     <<"focusElsewhere", "aboutDestroy">>}
        /\ ServesMain /\ Saved
        /\ todo = <<"focusElsewhere", "aboutDestroy">> => focus = "about"
    BY <1>1, <1>5, Popped, LastMessages DEF AtOther
  <1>7. /\ todo = <<"focusElsewhere">> => Tail(todo) = <<>>
        /\ todo = <<"focusElsewhere", "mainDestroy">> => Tail(todo) = <<"mainDestroy">>
        /\ todo = <<"focusElsewhere", "mainOffMinimized">> => Tail(todo) = <<"mainOffMinimized">>
        /\ todo = <<"focusElsewhere", "aboutDestroy">> => Tail(todo) = <<"aboutDestroy">>
    BY Popped
  <1>8. todo' = IF focus = "elsewhere" THEN Tail(todo) ELSE Loop!Told("elsewhere") \o Tail(todo)
    BY DEF Loop!MoveFocus
  <1>9. ASSUME focus = "tree" PROVE SaysThen(todo, todo')
    <2>1. Loop!Told("elsewhere") = <<"treeKill">>
      BY <1>9, ToldWhom
    <2>2. todo' = Loop!Told("elsewhere") \o Tail(todo)
      BY <1>8, <1>9
    <2>3. CASE todo = <<"focusElsewhere">>
      <3>1. todo' = <<"treeKill">>
        BY <1>7, <2>1, <2>2, <2>3, Joined
      <3> QED BY <2>3, <3>1, WhatFollows
    <2>4. CASE todo = <<"focusElsewhere", "mainDestroy">>
      <3>1. todo' = <<"treeKill", "mainDestroy">>
        BY <1>7, <2>1, <2>2, <2>4, Joined
      <3> QED BY <2>4, <3>1, WhatFollows
    <2>5. CASE todo = <<"focusElsewhere", "mainOffMinimized">>
      <3>1. todo' = <<"treeKill", "mainOffMinimized">>
        BY <1>7, <2>1, <2>2, <2>5, Joined
      <3> QED BY <2>5, <3>1, WhatFollows
    <2> QED BY <1>6, <1>9, <2>3, <2>4, <2>5
  <1>10. ASSUME focus = "label" PROVE SaysThen(todo, todo') /\ todo' # <<>> /\ Head(todo') = "labelKill"
    <2>1. Loop!Told("elsewhere") = <<"labelKill">>
      BY <1>10, ToldWhom
    <2>2. todo' = Loop!Told("elsewhere") \o Tail(todo)
      BY <1>8, <1>10
    <2>3. CASE todo = <<"focusElsewhere">>
      <3>1. todo' = <<"labelKill">>
        BY <1>7, <2>1, <2>2, <2>3, Joined
      <3>2. SaysThen(todo, todo')
        BY <2>3, <3>1, WhatFollows
      <3>3. todo' # <<>> /\ Head(todo') = "labelKill"
        BY <3>1, Popped
      <3> QED BY <3>2, <3>3
    <2>4. CASE todo = <<"focusElsewhere", "mainDestroy">>
      <3>1. todo' = <<"labelKill", "mainDestroy">>
        BY <1>7, <2>1, <2>2, <2>4, Joined
      <3>2. SaysThen(todo, todo')
        BY <2>4, <3>1, WhatFollows
      <3>3. todo' # <<>> /\ Head(todo') = "labelKill"
        BY <3>1, Popped
      <3> QED BY <3>2, <3>3
    <2>5. CASE todo = <<"focusElsewhere", "mainOffMinimized">>
      <3>1. todo' = <<"labelKill", "mainOffMinimized">>
        BY <1>7, <2>1, <2>2, <2>5, Joined
      <3>2. SaysThen(todo, todo')
        BY <2>5, <3>1, WhatFollows
      <3>3. todo' # <<>> /\ Head(todo') = "labelKill"
        BY <3>1, Popped
      <3> QED BY <3>2, <3>3
    <2> QED BY <1>6, <1>10, <2>3, <2>4, <2>5
  <1>11. ASSUME focus \notin {"tree", "label"} PROVE SaysThen(todo, todo')
    <2>1. Loop!Told("elsewhere") = <<>>
      BY <1>11, ToldWhom
    <2>2. CASE todo = <<"focusElsewhere">>
      <3>1. todo' = <<>>
        BY <1>7, <1>8, <2>1, <2>2, Joined
      <3> QED BY <2>2, <3>1, WhatFollows
    <2>3. CASE todo = <<"focusElsewhere", "mainDestroy">>
      <3>1. todo' = <<"mainDestroy">>
        BY <1>7, <1>8, <2>1, <2>3, Joined
      <3> QED BY <2>3, <3>1, WhatFollows
    <2>4. CASE todo = <<"focusElsewhere", "mainOffMinimized">>
      <3>1. todo' = <<"mainOffMinimized">>
        BY <1>7, <1>8, <2>1, <2>4, Joined
      <3> QED BY <2>4, <3>1, WhatFollows
    <2>5. CASE todo = <<"focusElsewhere", "aboutDestroy">>
      <3>1. todo' = <<"aboutDestroy">>
        BY <1>7, <1>8, <2>1, <2>5, Joined
      <3> QED BY <2>5, <3>1, WhatFollows
    <2> QED BY <1>6, <2>2, <2>3, <2>4, <2>5
  <1>12. SaysThen(todo, todo')
    BY <1>9, <1>10, <1>11
  <1>13. AtOther'
    <2>1. todo' \in Elsewhere /\ (todo' \in WithoutDialog <=> todo \in WithoutDialog)
      BY <1>12 DEF SaysThen
    <2>2. ServesMain' /\ Saved'
      BY <1>u, <1>6 DEF ServesMain, MainLoop, Saved, MainAccel
    <2> QED BY <1>u, <1>5, <2>1, <2>2 DEF AtOther, Elsewhere
  <1>14. DialogKnown'
    <2>1. ServesMain'
      BY <1>6 DEF ServesMain, MainLoop
    <2> QED BY <1>2, <1>v, <1>12, <2>1, DialogStays DEF SaysThen
  <1>15. LabelKnown'
    <2>1. "label" \in windows => focus = "label"
      BY <1>1, <1>2 DEF LabelKnown, Loop!Deliver
    <2>2. "label" \in windows' => Loop!Deliver("labelKill")'
      BY <1>u, <1>10, <2>1 DEF Loop!Deliver, Loop!Quiet
    <2> QED BY <1>u, <2>2 DEF LabelKnown
  <1>16. LoopTypes'
    BY <1>2, <1>u DEF LoopTypes
  <1> QED BY <1>2, <1>u, <1>13, <1>14, <1>15, <1>16 DEF LoopInv

\* The label editor ends with its focus.
LEMMA LabelKillKeeps ==
  ASSUME LoopInv, Loop!Deliver("labelKill"), todo' = Tail(todo),
         windows' = windows \ {"label"},
         UNCHANGED <<active, enabled, minimized, box, focus, hWndFocus, hWndAbout, loop, left>>
  PROVE  LoopInv'
  <1>1. todo # <<>> /\ Head(todo) = "labelKill"
    BY DEF Loop!Deliver, Loop!Quiet
  <1>2. /\ AtAbout \/ AtOther \/ AtMain
        /\ LoopTypes /\ {"main", "tree", "edit"} \subseteq windows /\ DialogKnown /\ LabelKnown
    BY <1>1, Situations
  <1>3. {"main", "tree", "edit"} \subseteq windows' /\ ("about" \in windows' <=> "about" \in windows)
    BY <1>2
  <1>l. ASSUME focus # "label" PROVE LoopTypes' /\ LabelKnown'
    BY <1>l, <1>2 DEF LoopTypes, LabelKnown
  <1>d. ASSUME InitNotFirst(todo), InitNotFirst(todo'), todo' \notin WithDialog \cup ToDialog,
               todo' \in WithoutDialog => todo \in WithoutDialog
        PROVE  DialogKnown'
    BY <1>d, <1>2, <1>3 DEF DialogKnown, InitNotFirst, Loop!Deliver, Loop!Quiet, ServesMain,
         MainLoop
  <1>4. CASE AtAbout
    <2>1. todo = <<"labelKill">> /\ ServesAbout /\ Saved /\ focus = "about"
      BY <1>1, <1>4, Popped DEF AtAbout
    <2>2. todo' = <<>>
      BY <2>1, Popped
    <2>3. AtAbout'
      BY <1>3, <1>4, <2>1, <2>2 DEF AtAbout, ServesAbout, AboutLoop, Saved, MainAccel
    <2>4. DialogKnown'
      BY <1>d, <2>1, <2>2, NotInit, NoMessage
    <2> QED BY <1>3, <1>l, <2>1, <2>3, <2>4 DEF LoopInv
  <1>5. CASE AtOther
    <2>1. /\ todo \in {<<"labelKill">>, <<"labelKill", "mainOffMinimized">>, <<"labelKill", "mainDestroy">>}
          /\ ServesMain /\ Saved /\ focus = "elsewhere"
      BY <1>1, <1>5, Popped, LastMessages DEF AtOther
    <2>2. /\ todo = <<"labelKill">> => todo' = <<>>
          /\ todo = <<"labelKill", "mainOffMinimized">> => todo' = <<"mainOffMinimized">>
          /\ todo = <<"labelKill", "mainDestroy">> => todo' = <<"mainDestroy">>
      BY <2>1, Popped
    <2>3. /\ todo' \notin WithDialog \cup ToDialog
          /\ todo' \in WithoutDialog <=> todo \in WithoutDialog
      <3>1. CASE todo = <<"labelKill">>
        BY <2>2, <3>1, Apart
      <3>2. CASE todo = <<"labelKill", "mainOffMinimized">>
        BY <2>2, <3>2, Apart
      <3>3. CASE todo = <<"labelKill", "mainDestroy">>
        BY <2>2, <3>3, Apart
      <3> QED BY <2>1, <3>1, <3>2, <3>3
    <2>4. AtOther'
      BY <1>5, <2>1, <2>2, <2>3 DEF AtOther, ServesMain, MainLoop, Saved, MainAccel
    <2>5. InitNotFirst(todo) /\ InitNotFirst(todo')
      BY <2>1, <2>2, NotInit
    <2>6. DialogKnown'
      BY <1>d, <2>3, <2>5
    <2> QED BY <1>3, <1>l, <2>1, <2>4, <2>6 DEF LoopInv
  <1>6. CASE AtMain /\ todo = <<"labelKill", "treeSet">>
    <2>1. ServesMain /\ hWndFocus = NULL /\ focus = "tree" /\ Back
      BY <1>1, <1>6, Popped, LastMessages DEF AtMain
    <2>2. todo' = <<"treeSet">>
      BY <1>6, Popped
    <2>3. todo \notin WithDialog /\ todo' \notin WithDialog \cup ToDialog \cup WithoutDialog
      BY <1>6, <2>2, Apart
    <2>4. AtMain'
      BY <1>6, <2>1, <2>2, <2>3 DEF AtMain, ServesMain, MainLoop, Back
    <2>5. InitNotFirst(todo) /\ InitNotFirst(todo')
      BY <1>6, <2>2, NotInit
    <2>6. DialogKnown'
      BY <1>d, <2>3, <2>5
    <2> QED BY <1>3, <1>l, <2>1, <2>4, <2>6 DEF LoopInv
  <1>7. CASE AtMain /\ todo # <<"labelKill", "treeSet">>
    <2>1. todo = <<"labelKill">> /\ InMainWindow /\ focus # "label" /\ left = NULL
      BY <1>1, <1>7, Popped, LastMessages DEF AtMain
    <2>2. todo' = <<>>
      BY <2>1, Popped
    <2>3. todo \notin WithDialog
      BY <2>1, Apart
    <2>4. AtMain'
      BY <1>7, <2>1, <2>2, <2>3, NoMessage, LoopAssumption DEF AtMain, InMainWindow,
           ServesMain, MainLoop, MainAccel, Back
    <2>5. InitNotFirst(todo) /\ InitNotFirst(todo')
      BY <2>1, <2>2, NotInit
    <2>6. DialogKnown'
      BY <1>d, <2>2, <2>5, NoMessage
    <2> QED BY <1>3, <1>l, <2>1, <2>4, <2>6 DEF LoopInv
  <1> QED BY <1>2, <1>4, <1>5, <1>6, <1>7

\* Where everything is between two steps of the user.
LEMMA Waiting ==
  ASSUME LoopInv, todo = <<>>, active # "other" \/ "main" \in windows
  PROVE  /\ LoopTypes /\ {"main", "tree", "edit"} \subseteq windows
         /\ "about" \in windows => hWndAbout = "about"
         /\ "about" \notin windows => hWndAbout = NULL /\ ServesMain
         /\ "label" \in windows <=> focus = "label"
         /\ \/ /\ active = "about" /\ "about" \in windows /\ ~minimized
               /\ ServesAbout /\ Saved /\ focus = "about"
            \/ /\ active \in {"box", "other"} /\ (minimized => active = "other")
               /\ ServesMain /\ Saved /\ focus = "elsewhere"
            \/ active = "main" /\ ~minimized /\ InMainWindow /\ Back
  <1>1. ~Destroyed
    BY DEF Destroyed
  <1>2. LoopTypes /\ {"main", "tree", "edit"} \subseteq windows /\ DialogKnown /\ LabelKnown
        /\ (AtAbout \/ AtOther \/ AtMain)
    BY <1>1 DEF LoopInv
  <1>3. /\ "about" \in windows => hWndAbout = "about"
        /\ "about" \notin windows => hWndAbout = NULL /\ ServesMain
        /\ "label" \in windows <=> focus = "label"
    BY <1>2 DEF DialogKnown, LabelKnown, Loop!Deliver, Loop!Quiet
  <1>4. AtAbout => /\ active = "about" /\ "about" \in windows /\ ~minimized
                   /\ ServesAbout /\ Saved /\ focus = "about"
    BY DEF AtAbout
  <1>5. AtOther => /\ active \in {"box", "other"} /\ (minimized => active = "other")
                   /\ ServesMain /\ Saved /\ focus = "elsewhere"
    BY LastMessages DEF AtOther, Leave
  <1>6. AtMain => active = "main" /\ ~minimized /\ InMainWindow /\ Back
    <2> SUFFICES ASSUME AtMain PROVE active = "main" /\ ~minimized /\ InMainWindow /\ Back
      OBVIOUS
    <2>1. InMainWindow /\ Back
      BY DEF AtMain, OffOnDestroyAndLeave, OnDestroyAndLeave, SetDestroyAndLeave
    <2> QED BY <2>1, NoMessage DEF AtMain
  <1> QED BY <1>2, <1>3, <1>4, <1>5, <1>6

\* The messages of a change of the active window.
LEMMA SwitchSays ==
  ASSUME NEW w \in {"main", "about", "box", "other"}, Loop!Switch(w, <<>>, <<>>)
  PROVE  /\ active = "main" /\ w = "about" => todo' = <<"mainOff", "aboutOn", "focusAbout">>
         /\ active = "main" /\ w \in {"box", "other"} => todo' = <<"mainOff", "focusElsewhere">>
         /\ active = "about" /\ w = "main" => todo' = <<"aboutOff", "mainOn">>
         /\ active = "about" /\ w \in {"box", "other"} => todo' = <<"aboutOff", "focusElsewhere">>
         /\ active \in {"box", "other"} /\ w = "main" => todo' = <<"mainOn">>
         /\ active \in {"box", "other"} /\ w = "about" => todo' = <<"aboutOn", "focusAbout">>
         /\ active \in {"box", "other"} /\ w \in {"box", "other"} => todo' = <<"focusElsewhere">>
  <1>1. todo' = ((<<>> \o Loop!Off(active)) \o Loop!On(w)) \o <<>>
    BY DEF Loop!Switch
  <1>2. /\ w = "main" => Loop!On(w) = <<"mainOn">>
        /\ w = "about" => Loop!On(w) = <<"aboutOn", "focusAbout">>
        /\ w \in {"box", "other"} => Loop!On(w) = <<"focusElsewhere">>
    BY DEF Loop!On
  <1>3. /\ active = "main" => Loop!Off(active) = <<"mainOff">>
        /\ active = "about" => Loop!Off(active) = <<"aboutOff">>
        /\ active \in {"box", "other"} => Loop!Off(active) = <<>>
    BY DEF Loop!Off
  <1>4. /\ active = "main" => <<>> \o Loop!Off(active) = <<"mainOff">>
        /\ active = "about" => <<>> \o Loop!Off(active) = <<"aboutOff">>
        /\ active \in {"box", "other"} => <<>> \o Loop!Off(active) = <<>>
    BY <1>3, Joined
  <1> DEFINE Told == (<<>> \o Loop!Off(active)) \o Loop!On(w)
  <1>5. /\ active = "main" /\ w = "about" => Told = <<"mainOff", "aboutOn", "focusAbout">>
        /\ active = "main" /\ w \in {"box", "other"} => Told = <<"mainOff", "focusElsewhere">>
        /\ active = "about" /\ w = "main" => Told = <<"aboutOff", "mainOn">>
        /\ active = "about" /\ w \in {"box", "other"} => Told = <<"aboutOff", "focusElsewhere">>
        /\ active \in {"box", "other"} /\ w = "main" => Told = <<"mainOn">>
        /\ active \in {"box", "other"} /\ w = "about" => Told = <<"aboutOn", "focusAbout">>
        /\ active \in {"box", "other"} /\ w \in {"box", "other"} => Told = <<"focusElsewhere">>
    <2>1. CASE active = "main"
      BY <1>2, <1>4, <2>1, Joined, SMTT(30)
    <2>2. CASE active = "about"
      BY <1>2, <1>4, <2>2, Joined
    <2>3. CASE active \in {"box", "other"}
      BY <1>2, <1>4, <2>3, Joined
    <2>4. CASE active \notin {"main", "about", "box", "other"}
      BY <2>4
    <2> QED BY <2>1, <2>2, <2>3, <2>4
  <1>6. todo' = Told \o <<>>
    BY <1>1
  <1> HIDE DEF Told
  <1>7. /\ \A a : Told = <<a>> => todo' = <<a>>
        /\ \A a, b : Told = <<a, b>> => todo' = <<a, b>>
        /\ \A a, b, c : Told = <<a, b, c>> => todo' = <<a, b, c>>
    BY <1>6, Joined
  <1> QED BY <1>5, <1>7

\* What can be said of messages that start with no message about the dialog's life.
Plain(t) == t \notin WithDialog \cup WithoutDialog \cup ToDialog /\ InitNotFirst(t)

\* Which messages those are.
LEMMA PlainMessages ==
  /\ Plain(<<>>)
  /\ \A s : s = <<"mainOff", "aboutOn", "focusAbout">> => Plain(s)
  /\ \A s : s = <<"mainOff", "focusElsewhere">> => Plain(s)
  /\ \A s : s = <<"aboutOff", "mainOn">> => Plain(s)
  /\ \A s : s = <<"aboutOff", "focusElsewhere">> => Plain(s)
  /\ \A s : s = <<"mainOn">> => Plain(s)
  /\ \A s : s = <<"mainOnMinimized", "mainOn">> => Plain(s)
  /\ \A s : s = <<"aboutOn", "focusAbout">> => Plain(s)
  /\ \A s : s = <<"focusElsewhere">> => Plain(s)
  /\ \A s : s = <<"focusElsewhere", "mainOffMinimized">> => Plain(s)
  /\ \A s : s = <<"treeKill">> => Plain(s)
  /\ \A s : s = <<"labelKill">> => Plain(s)
  /\ \A s : s = <<"treeSet">> => Plain(s)
  /\ \A s : s = <<"labelKill", "treeSet">> => Plain(s)
  <1>1. <<"mainOff", "aboutOn", "focusAbout">> \notin WithDialog \cup WithoutDialog \cup ToDialog
    BY Apart DEF WithoutDialog, ToDialog, Leave
  <1>2. \A a : a \notin {"mainDestroy", "aboutDestroy"} => <<a>> \notin WithDialog \cup WithoutDialog \cup ToDialog
    BY Apart
  <1>3. \A a, b : b \notin {"mainDestroy", "aboutDestroy"} => <<a, b>> \notin WithDialog \cup WithoutDialog \cup ToDialog
    BY Apart
  <1>4. \A s, a : s = <<a>> /\ a \notin {"mainDestroy", "aboutDestroy", "aboutInit"} => Plain(s)
    BY <1>2, NotInit DEF Plain
  <1>5. \A s, a, b : s = <<a, b>> /\ a # "aboutInit" /\ b \notin {"mainDestroy", "aboutDestroy"} => Plain(s)
    BY <1>3, NotInit DEF Plain
  <1>6. \A s : s = <<"mainOff", "aboutOn", "focusAbout">> => Plain(s)
    BY <1>1, NotInit DEF Plain
  <1>7. Plain(<<>>)
    BY NoMessage, NotInit DEF Plain
  <1> QED BY <1>4, <1>5, <1>6, <1>7

\* The dialog stays what it is when the user acts elsewhere.
LEMMA PlainStays ==
  ASSUME LoopInv, todo = <<>>, active # "other" \/ "main" \in windows, Plain(todo'),
         "about" \in windows' <=> "about" \in windows, UNCHANGED <<hWndAbout, loop>>
  PROVE  DialogKnown'
  <1>1. ServesMain => ServesMain'
    BY DEF ServesMain, MainLoop
  <1> QED BY <1>1, Waiting DEF DialogKnown, Plain, InitNotFirst, Loop!Deliver, Loop!Quiet

\* Another window becomes active.
LEMMA SwitchKeeps ==
  ASSUME LoopInv, todo = <<>>, active # "other" \/ "main" \in windows, ~minimized,
         NEW w \in {"main", "about", "box", "other"}, w # active,
         w = "about" => "about" \in windows, Loop!Switch(w, <<>>, <<>>), box' \in BOOLEAN,
         UNCHANGED <<windows, focus, enabled, minimized, hWndFocus, hWndAbout, loop>>
  PROVE  LoopInv'
  <1>1. active' = w /\ left' = IF active = "main" THEN focus ELSE left
    BY DEF Loop!Switch
  <1>w. /\ LoopTypes /\ {"main", "tree", "edit"} \subseteq windows
        /\ "label" \in windows <=> focus = "label"
    BY Waiting
  <1>m. /\ ServesMain => ServesMain'
        /\ ServesAbout => ServesAbout'
        /\ Saved /\ active # "main" => Saved'
        /\ InMainWindow => InMainWindow'
    BY <1>1 DEF ServesMain, MainLoop, ServesAbout, AboutLoop, Saved, InMainWindow, MainAccel
  <1>2. ASSUME active = "main" PROVE (AtAbout' \/ AtOther') /\ Plain(todo')
    <2>1. InMainWindow
      BY <1>2, Waiting
    <2>2. CASE w = "about"
      <3>1. todo' = <<"mainOff", "aboutOn", "focusAbout">>
        BY <1>2, <2>2, SwitchSays
      <3>2. AtAbout'
        BY <1>1, <1>2, <1>m, <2>1, <2>2, <3>1 DEF AtAbout
      <3> QED BY <3>1, <3>2, PlainMessages
    <2>3. CASE w \in {"box", "other"}
      <3>1. todo' = <<"mainOff", "focusElsewhere">>
        BY <1>2, <2>3, SwitchSays
      <3>2. Plain(todo')
        BY <3>1, PlainMessages
      <3>3. AtOther'
        BY <1>1, <1>2, <1>m, <2>1, <2>3, <3>1, <3>2 DEF AtOther, Plain
      <3> QED BY <3>2, <3>3
    <2> QED BY <1>2, <2>2, <2>3
  <1>3. ASSUME active = "about" PROVE (AtOther' \/ AtMain') /\ Plain(todo')
    <2>1. ServesAbout /\ Saved /\ focus = "about"
      BY <1>3, Waiting
    <2>2. CASE w = "main"
      <3>1. todo' = <<"aboutOff", "mainOn">>
        BY <1>3, <2>2, SwitchSays
      <3>2. Plain(todo')
        BY <3>1, PlainMessages
      <3>3. AtMain'
        BY <1>1, <1>3, <1>m, <2>1, <2>2, <3>1, <3>2 DEF AtMain, Plain
      <3> QED BY <3>2, <3>3
    <2>3. CASE w \in {"box", "other"}
      <3>1. todo' = <<"aboutOff", "focusElsewhere">>
        BY <1>3, <2>3, SwitchSays
      <3>2. Plain(todo')
        BY <3>1, PlainMessages
      <3>3. AtOther'
        BY <1>1, <1>3, <1>m, <2>1, <2>3, <3>1, <3>2 DEF AtOther, Plain
      <3> QED BY <3>2, <3>3
    <2> QED BY <1>3, <2>2, <2>3
  <1>4. ASSUME active \in {"box", "other"} PROVE (AtAbout' \/ AtOther' \/ AtMain') /\ Plain(todo')
    <2>1. ServesMain /\ Saved /\ focus = "elsewhere"
      BY <1>4, Waiting
    <2>2. CASE w = "main"
      <3>1. todo' = <<"mainOn">>
        BY <1>4, <2>2, SwitchSays
      <3>2. Plain(todo')
        BY <3>1, PlainMessages
      <3>3. AtMain'
        BY <1>1, <1>4, <1>m, <2>1, <2>2, <3>1, <3>2 DEF AtMain, Plain
      <3> QED BY <3>2, <3>3
    <2>3. CASE w = "about"
      <3>1. todo' = <<"aboutOn", "focusAbout">>
        BY <1>4, <2>3, SwitchSays
      <3>2. Plain(todo')
        BY <3>1, PlainMessages
      <3>3. AtAbout'
        BY <1>1, <1>4, <1>m, <2>1, <2>3, <3>1 DEF AtAbout
      <3> QED BY <3>2, <3>3
    <2>4. CASE w \in {"box", "other"}
      <3>1. todo' = <<"focusElsewhere">>
        BY <1>4, <2>4, SwitchSays
      <3>2. Plain(todo')
        BY <3>1, PlainMessages
      <3>3. AtOther'
        BY <1>1, <1>4, <1>m, <2>1, <2>4, <3>1, <3>2 DEF AtOther, Plain
      <3> QED BY <3>2, <3>3
    <2> QED BY <2>2, <2>3, <2>4
  <1>5. (AtAbout' \/ AtOther' \/ AtMain') /\ Plain(todo')
    BY <1>2, <1>3, <1>4, <1>w DEF LoopTypes
  <1>6. DialogKnown'
    BY <1>5, PlainStays
  <1>7. LabelKnown'
    BY <1>w DEF LabelKnown
  <1>8. LoopTypes'
    BY <1>1, <1>w DEF LoopTypes
  <1> QED BY <1>w, <1>5, <1>6, <1>7, <1>8 DEF LoopInv

\* The dialog is created, with its first message to come.
LEMMA CreateKeeps ==
  ASSUME LoopInv, todo = <<>>, active = "main", hWndAbout = NULL,
         windows' = windows \cup {"about"}, Loop!Switch("about", <<"aboutInit">>, <<>>),
         UNCHANGED <<focus, enabled, minimized, box, hWndFocus, hWndAbout, loop>>
  PROVE  LoopInv'
  <1>1. active' = "about" /\ left' = focus
    BY DEF Loop!Switch
  <1>2. /\ LoopTypes /\ {"main", "tree", "edit"} \subseteq windows
        /\ "label" \in windows <=> focus = "label"
        /\ ~minimized /\ InMainWindow
    BY Waiting
  <1>3. todo' = <<"aboutInit", "mainOff", "aboutOn", "focusAbout">>
    <2>1. todo' = ((<<"aboutInit">> \o Loop!Off(active)) \o Loop!On("about")) \o <<>>
      BY DEF Loop!Switch
    <2>2. Loop!Off(active) = <<"mainOff">>
      BY DEF Loop!Off
    <2>3. Loop!On("about") = <<"aboutOn", "focusAbout">>
      BY DEF Loop!On
    <2>4. <<"aboutInit">> \o Loop!Off(active) = <<"aboutInit", "mainOff">>
      BY <2>2, Joined
    <2>j. \A s, u : s = <<"aboutInit", "mainOff">> /\ u = <<"aboutOn", "focusAbout">>
                    => s \o u = <<"aboutInit", "mainOff", "aboutOn", "focusAbout">>
      BY Joined
    <2>5. (<<"aboutInit">> \o Loop!Off(active)) \o Loop!On("about")
            = <<"aboutInit", "mainOff", "aboutOn", "focusAbout">>
      BY <2>3, <2>4, <2>j
    <2> QED BY <2>1, <2>5, Joined
  <1>4. todo' \notin WithDialog \cup WithoutDialog
    BY <1>3 DEF WithDialog, WithoutDialog, DestroyAndLeave, OnDestroyAndLeave,
         SetDestroyAndLeave, OffOnDestroyAndLeave, Leave
  <1>5. AtAbout'
    BY <1>1, <1>2, <1>3 DEF AtAbout, InMainWindow, ServesMain, MainLoop, MainAccel
  <1>6. Loop!Deliver("aboutInit")'
    BY <1>3, Popped DEF Loop!Deliver, Loop!Quiet
  <1>7. DialogKnown'
    BY <1>4, <1>6 DEF DialogKnown
  <1>8. LabelKnown' /\ LoopTypes'
    BY <1>1, <1>2 DEF LabelKnown, LoopTypes
  <1> QED BY <1>2, <1>5, <1>7, <1>8 DEF LoopInv

\* The dialog is closed: its window goes when another one has been activated.
LEMMA CloseAboutKeeps ==
  ASSUME LoopInv, Loop!CloseAbout
  PROVE  LoopInv'
  <1> DEFINE w == IF box THEN "box" ELSE "main"
  <1>1. /\ todo = <<>> /\ active = "about" /\ "about" \in windows
        /\ Loop!Switch(w, <<>>, <<"aboutDestroy">>)
        /\ UNCHANGED <<windows, focus, enabled, minimized, box, hWndFocus, hWndAbout, loop>>
    BY DEF Loop!CloseAbout, Loop!Quiet
  <1> HIDE DEF w
  <1>w. w = "box" \/ w = "main"
    BY DEF w
  <1>2. active' = w /\ left' = left
    BY <1>1 DEF Loop!Switch
  <1>3. /\ LoopTypes /\ {"main", "tree", "edit"} \subseteq windows
        /\ "label" \in windows <=> focus = "label"
        /\ hWndAbout = "about"
        /\ ~minimized /\ ServesAbout /\ Saved /\ focus = "about"
    BY <1>1, Waiting
  <1>4. /\ w = "box" => todo' = <<"aboutOff", "focusElsewhere", "aboutDestroy">>
        /\ w = "main" => todo' = <<"aboutOff", "mainOn", "aboutDestroy">>
    <2>1. todo' = ((<<>> \o Loop!Off(active)) \o Loop!On(w)) \o <<"aboutDestroy">>
      BY <1>1 DEF Loop!Switch
    <2>2. Loop!Off(active) = <<"aboutOff">>
      BY <1>1 DEF Loop!Off
    <2>3. /\ w = "box" => Loop!On(w) = <<"focusElsewhere">>
          /\ w = "main" => Loop!On(w) = <<"mainOn">>
      BY DEF Loop!On
    <2>4. <<>> \o Loop!Off(active) = <<"aboutOff">>
      BY <2>2, Joined
    <2> DEFINE Told == (<<>> \o Loop!Off(active)) \o Loop!On(w)
    <2>5. /\ w = "box" => Told = <<"aboutOff", "focusElsewhere">>
          /\ w = "main" => Told = <<"aboutOff", "mainOn">>
      BY <2>3, <2>4, Joined
    <2>6. todo' = Told \o <<"aboutDestroy">>
      BY <2>1
    <2> HIDE DEF Told
    <2> QED BY <2>5, <2>6, Joined
  <1>5. todo' \notin WithDialog \cup WithoutDialog /\ InitNotFirst(todo')
    <2>1. CASE w = "box"
      BY <1>4, <2>1, Apart, NotInit DEF WithoutDialog, Leave
    <2>2. CASE w = "main"
      BY <1>4, <2>2, Apart, NotInit DEF WithoutDialog, Leave
    <2> QED BY <1>w, <2>1, <2>2
  <1>6. ServesAbout' /\ Saved'
    BY <1>1, <1>2, <1>3 DEF ServesAbout, AboutLoop, Saved, MainAccel
  <1>7. AtOther' \/ AtMain'
    <2>1. CASE w = "box"
      BY <1>1, <1>2, <1>3, <1>4, <1>5, <1>6, <2>1 DEF AtOther
    <2>2. CASE w = "main"
      BY <1>1, <1>2, <1>3, <1>4, <1>5, <1>6, <2>2 DEF AtMain
    <2> QED BY <1>w, <2>1, <2>2
  <1>8. DialogKnown'
    BY <1>1, <1>3, <1>5 DEF DialogKnown, InitNotFirst, Loop!Deliver, Loop!Quiet
  <1>9. LabelKnown' /\ LoopTypes'
    BY <1>1, <1>2, <1>3, <1>w DEF LabelKnown, LoopTypes
  <1> QED BY <1>1, <1>3, <1>7, <1>8, <1>9 DEF LoopInv

\* The main window is minimized, whatever window is active.
LEMMA MinimizeKeeps ==
  ASSUME LoopInv, Loop!MainWmSysCommand
  PROVE  LoopInv'
  <1>1. /\ todo = <<>> /\ "main" \in windows /\ ~minimized
        /\ Loop!SaveFocus /\ minimized' = TRUE /\ active' = "other"
        /\ left' = IF active = "main" THEN focus ELSE left
        /\ UNCHANGED <<windows, focus, enabled, box, hWndAbout, loop>>
    BY DEF Loop!MainWmSysCommand, Loop!Quiet
  <1>2. /\ active = "main" => todo' = <<"focusElsewhere", "mainOffMinimized">>
        /\ active = "about" => todo' = <<"aboutOff", "focusElsewhere">>
        /\ active \in {"box", "other"} => todo' = <<>>
    BY DEF Loop!MainWmSysCommand
  <1>3. /\ LoopTypes /\ {"main", "tree", "edit"} \subseteq windows
        /\ "label" \in windows <=> focus = "label"
    BY <1>1, Waiting
  <1>m. ServesMain => ServesMain'
    BY <1>1 DEF ServesMain, MainLoop
  <1>4. ASSUME active = "main" PROVE AtOther' /\ Plain(todo')
    <2>1. InMainWindow
      BY <1>1, <1>4, Waiting
    <2>2. Saved'
      BY <1>1, <1>3, <1>4, <2>1, LoopAssumption DEF InMainWindow, Saved, Loop!SaveFocus,
           LoopTypes, Loop!Children, ServesMain, MainLoop, MainAccel
    <2>3. Plain(todo')
      BY <1>2, <1>4, PlainMessages
    <2> QED BY <1>1, <1>2, <1>4, <1>m, <2>1, <2>2, <2>3 DEF AtOther, InMainWindow, Plain
  <1>5. ASSUME active = "about" PROVE AtOther' /\ Plain(todo')
    <2>1. ServesAbout /\ Saved /\ focus = "about"
      BY <1>1, <1>5, Waiting
    <2>2. ServesAbout' /\ Saved'
      BY <1>1, <1>5, <2>1 DEF Saved, Loop!SaveFocus, Loop!Children, ServesAbout, AboutLoop,
           MainAccel
    <2>3. Plain(todo')
      BY <1>2, <1>5, PlainMessages
    <2> QED BY <1>1, <1>2, <1>5, <2>1, <2>2, <2>3 DEF AtOther, Plain
  <1>6. ASSUME active \in {"box", "other"} PROVE AtOther' /\ Plain(todo')
    <2>1. ServesMain /\ Saved /\ focus = "elsewhere"
      BY <1>1, <1>6, Waiting
    <2>2. Saved'
      BY <1>1, <1>6, <2>1 DEF Saved, Loop!SaveFocus, Loop!Children, ServesMain, MainLoop,
           MainAccel
    <2>3. Plain(todo')
      BY <1>2, <1>6, PlainMessages
    <2> QED BY <1>1, <1>2, <1>6, <1>m, <2>1, <2>2, <2>3 DEF AtOther, Plain
  <1>7. AtOther' /\ Plain(todo')
    BY <1>3, <1>4, <1>5, <1>6 DEF LoopTypes
  <1>8. DialogKnown'
    BY <1>1, <1>7, PlainStays
  <1>9. LabelKnown' /\ LoopTypes'
    BY <1>1, <1>3 DEF LabelKnown, LoopTypes, Loop!SaveFocus
  <1> QED BY <1>1, <1>3, <1>7, <1>8, <1>9 DEF LoopInv

\* The main window is restored, with the focus to follow.
LEMMA RestoreKeeps ==
  ASSUME LoopInv, Loop!RestoreWindow
  PROVE  LoopInv'
  <1>1. /\ todo = <<>> /\ minimized /\ minimized' = FALSE /\ active' = "main"
        /\ todo' \in {<<"mainOn">>, <<"mainOnMinimized", "mainOn">>}
        /\ UNCHANGED <<windows, focus, enabled, box, hWndFocus, hWndAbout, loop, left>>
    BY DEF Loop!RestoreWindow, Loop!Quiet
  <1>2. "main" \in windows
    BY <1>1 DEF LoopInv, Destroyed
  <1>3. /\ LoopTypes /\ {"main", "tree", "edit"} \subseteq windows
        /\ "label" \in windows <=> focus = "label"
        /\ ServesMain /\ Saved /\ focus = "elsewhere"
    BY <1>1, <1>2, Waiting
  <1>4. ServesMain' /\ Saved'
    BY <1>1, <1>3 DEF ServesMain, MainLoop, Saved, MainAccel
  <1>5. Plain(todo')
    BY <1>1, PlainMessages
  <1>6. AtMain'
    BY <1>1, <1>3, <1>4, <1>5 DEF AtMain, Plain
  <1>7. DialogKnown'
    BY <1>1, <1>2, <1>5, PlainStays
  <1>8. LabelKnown' /\ LoopTypes'
    BY <1>1, <1>3 DEF LabelKnown, LoopTypes
  <1> QED BY <1>1, <1>3, <1>6, <1>7, <1>8 DEF LoopInv

\* The focus moves inside the main window, or leaves a disabled control.
LEMMA FocusMoveKeeps ==
  ASSUME LoopInv, todo = <<>>, active = "main",
         NEW x \in {"tree", "edit", "label", "elsewhere"}, focus # x,
         x = "label" => focus = "tree",
         windows' = IF x = "label" THEN windows \cup {"label"} ELSE windows,
         Loop!MoveFocus(x, <<>>), left' = NULL, enabled' \in BOOLEAN,
         UNCHANGED <<active, minimized, box, hWndFocus, hWndAbout, loop>>
  PROVE  LoopInv'
  <1>1. /\ LoopTypes /\ {"main", "tree", "edit"} \subseteq windows
        /\ "label" \in windows <=> focus = "label"
        /\ ~minimized /\ InMainWindow
    BY Waiting
  <1>2. focus' = x /\ todo' = Loop!Told(x) \o <<>>
    BY DEF Loop!MoveFocus
  <1>3. /\ \A a : Loop!Told(x) = <<a>> => todo' = <<a>>
        /\ \A a, b : Loop!Told(x) = <<a, b>> => todo' = <<a, b>>
        /\ Loop!Told(x) = <<>> => todo' = <<>>
    BY <1>2, Joined
  <1>4. /\ focus \notin {"tree", "label"} /\ x # "tree" => todo' = <<>>
        /\ focus \notin {"tree", "label"} /\ x = "tree" => todo' = <<"treeSet">>
        /\ focus = "tree" => todo' = <<"treeKill">>
        /\ focus = "label" /\ x # "tree" => todo' = <<"labelKill">>
        /\ focus = "label" /\ x = "tree" => todo' = <<"labelKill", "treeSet">>
    <2>1. CASE focus \notin {"tree", "label"} /\ x # "tree"
      BY <1>3, <2>1, ToldWhom
    <2>2. CASE focus \notin {"tree", "label"} /\ x = "tree"
      BY <1>3, <2>2, ToldWhom
    <2>3. CASE focus = "tree"
      BY <1>3, <2>3, ToldWhom
    <2>4. CASE focus = "label" /\ x # "tree"
      BY <1>3, <2>4, ToldWhom
    <2>5. CASE focus = "label" /\ x = "tree"
      BY <1>3, <2>5, ToldWhom
    <2> QED BY <2>1, <2>2, <2>3, <2>4, <2>5
  <1>m. ServesMain' /\ Back' /\ hWndFocus' = NULL
    BY <1>1, LoopAssumption DEF InMainWindow, ServesMain, MainLoop, Back, Loop!Children
  <1>5. CASE focus \notin {"tree", "label"} /\ x # "tree"
    <2>1. todo' = <<>>
      BY <1>4, <1>5
    <2>2. InMainWindow'
      BY <1>1, <1>2, <1>5, <1>m DEF InMainWindow, ServesMain, MainLoop, MainAccel
    <2>3. AtMain' /\ Plain(todo')
      BY <1>1, <1>m, <2>1, <2>2, PlainMessages DEF AtMain, Plain
    <2>4. LabelKnown'
      BY <1>1, <1>2, <1>5 DEF LabelKnown
    <2> QED BY <1>1, <1>2, <1>m, <2>3, <2>4, PlainStays DEF LoopInv, LoopTypes, Loop!Children
  <1>6. CASE focus \notin {"tree", "label"} /\ x = "tree"
    <2>1. todo' = <<"treeSet">>
      BY <1>4, <1>6
    <2>2. Plain(todo')
      BY <2>1, PlainMessages
    <2>3. AtMain'
      BY <1>1, <1>2, <1>6, <1>m, <2>1, <2>2 DEF AtMain, Plain
    <2>4. LabelKnown'
      BY <1>1, <1>2, <1>6 DEF LabelKnown
    <2> QED BY <1>1, <1>2, <1>m, <2>2, <2>3, <2>4, PlainStays DEF LoopInv, LoopTypes,
         Loop!Children
  <1>7. CASE focus = "tree"
    <2>1. todo' = <<"treeKill">>
      BY <1>4, <1>7
    <2>2. Plain(todo')
      BY <2>1, PlainMessages
    <2>3. AtMain'
      BY <1>1, <1>2, <1>7, <1>m, <2>1, <2>2 DEF AtMain, Plain
    <2>4. LabelKnown'
      BY <1>1, <1>2, <1>7 DEF LabelKnown
    <2> QED BY <1>1, <1>2, <1>m, <2>2, <2>3, <2>4, PlainStays DEF LoopInv, LoopTypes,
         Loop!Children
  <1>8. CASE focus = "label"
    <2>1. Plain(todo') /\ Loop!Deliver("labelKill")'
      <3>1. CASE x = "tree"
        BY <1>4, <1>8, <3>1, PlainMessages, Popped DEF Loop!Deliver, Loop!Quiet
      <3>2. CASE x # "tree"
        BY <1>4, <1>8, <3>2, PlainMessages, Popped DEF Loop!Deliver, Loop!Quiet
      <3> QED BY <3>1, <3>2
    <2>2. AtMain'
      <3>1. CASE x = "tree"
        BY <1>1, <1>2, <1>4, <1>8, <1>m, <2>1, <3>1 DEF AtMain, Plain
      <3>2. CASE x # "tree"
        <4>1. InMainWindow'
          BY <1>1, <1>2, <1>8, <1>m, <3>2 DEF InMainWindow, ServesMain, MainLoop, MainAccel
        <4>2. todo' = <<"labelKill">> /\ focus' # "label"
          BY <1>2, <1>4, <1>8, <3>2
        <4> QED BY <1>1, <2>1, <4>1, <4>2 DEF AtMain, Plain
      <3> QED BY <3>1, <3>2
    <2>3. LabelKnown'
      BY <1>2, <1>8, <2>1 DEF LabelKnown
    <2> QED BY <1>1, <1>2, <1>8, <1>m, <2>1, <2>2, <2>3, PlainStays DEF LoopInv, LoopTypes,
         Loop!Children
  <1> QED BY <1>5, <1>6, <1>7, <1>8

\* The main window is to be closed, its dialog before it.
LEMMA QuitKeeps ==
  ASSUME LoopInv, Loop!Quit
  PROVE  LoopInv'
  <1>1. /\ todo = <<>> /\ active \in {"main", "about"} /\ "main" \in windows /\ ~minimized
        /\ active' = "other" /\ left' = NULL
        /\ UNCHANGED <<windows, focus, enabled, minimized, box, hWndFocus, hWndAbout, loop>>
    BY DEF Loop!Quit, Loop!Quiet
  <1>2. /\ LoopTypes /\ {"main", "tree", "edit"} \subseteq windows
        /\ "label" \in windows <=> focus = "label"
        /\ "about" \in windows => hWndAbout = "about"
        /\ "about" \notin windows => hWndAbout = NULL /\ ServesMain
        /\ active = "main" => InMainWindow
        /\ active = "about" => "about" \in windows /\ ServesAbout /\ Saved /\ focus = "about"
    BY <1>1, Waiting
  <1> DEFINE a == IF active = "about" THEN <<"aboutOff", "mainOn">> ELSE <<>>
             b == IF "about" \in windows THEN <<"aboutDestroy">> ELSE <<>>
             c == <<"mainOff", "focusElsewhere", "mainDestroy">>
  <1>3. todo' = (a \o b) \o c
    BY DEF Loop!Quit
  <1>a. /\ active = "about" => a = <<"aboutOff", "mainOn">>
        /\ active # "about" => a = <<>>
    OBVIOUS
  <1>b. /\ "about" \in windows => b = <<"aboutDestroy">>
        /\ "about" \notin windows => b = <<>>
    OBVIOUS
  <1>c. c = <<"mainOff", "focusElsewhere", "mainDestroy">>
    OBVIOUS
  <1> HIDE DEF a, b, c
  <1>m. /\ ServesMain => ServesMain'
        /\ InMainWindow => InMainWindow'
        /\ ServesAbout => ServesAbout'
        /\ Back' /\ left' \notin Loop!Children
    BY <1>1, LoopAssumption DEF InMainWindow, ServesMain, MainLoop, MainAccel, ServesAbout,
         AboutLoop, Back, Loop!Children
  <1>l. LabelKnown' /\ LoopTypes'
    BY <1>1, <1>2 DEF LabelKnown, LoopTypes
  <1>4. CASE active = "main" /\ "about" \notin windows
    <2>1. a \o b = <<>>
      BY <1>4, <1>a, <1>b, Joined
    <2>2. todo' = Leave
      BY <1>3, <1>c, <2>1, Joined DEF Leave
    <2>3. AtOther'
      BY <1>1, <1>2, <1>4, <1>m, <2>2 DEF AtOther
    <2>4. todo' \notin WithDialog \cup ToDialog
      BY <2>2 DEF Leave, WithDialog, ToDialog, DestroyAndLeave, OnDestroyAndLeave,
           SetDestroyAndLeave, OffOnDestroyAndLeave
    <2>5. DialogKnown'
      BY <1>1, <1>2, <1>4, <1>m, <2>4 DEF DialogKnown
    <2> QED BY <1>1, <1>2, <1>l, <2>3, <2>5 DEF LoopInv
  <1>d. ASSUME "about" \in windows, todo' \in WithDialog, InitNotFirst(todo') PROVE DialogKnown'
    BY <1>1, <1>2, <1>d, Apart DEF DialogKnown, InitNotFirst, Loop!Deliver, Loop!Quiet
  <1>5. CASE active = "main" /\ "about" \in windows
    <2>1. a \o b = <<"aboutDestroy">>
      BY <1>5, <1>a, <1>b, Joined
    <2>2. todo' = DestroyAndLeave
      BY <1>3, <1>c, <2>1, Joined DEF DestroyAndLeave
    <2>3. todo' \in WithDialog /\ InitNotFirst(todo')
      BY <2>2, Apart, NotInit
    <2>4. AtMain'
      BY <1>1, <1>2, <1>5, <1>m, <2>2, <2>3 DEF AtMain
    <2> QED BY <1>1, <1>2, <1>5, <1>d, <1>l, <2>3, <2>4 DEF LoopInv
  <1>6. CASE active = "about"
    <2>1. a \o b = <<"aboutOff", "mainOn", "aboutDestroy">>
      BY <1>2, <1>6, <1>a, <1>b, Joined
    <2>2. todo' = OffOnDestroyAndLeave
      BY <1>3, <1>c, <2>1, Joined DEF OffOnDestroyAndLeave
    <2>3. todo' \in WithDialog /\ InitNotFirst(todo')
      BY <2>2, Apart, NotInit
    <2>4. Saved'
      BY <1>1, <1>2, <1>6, <1>m DEF Saved, MainAccel
    <2>5. AtMain'
      BY <1>1, <1>2, <1>6, <1>m, <2>2, <2>3, <2>4 DEF AtMain
    <2> QED BY <1>1, <1>2, <1>6, <1>d, <1>l, <2>3, <2>5 DEF LoopInv
  <1> QED BY <1>1, <1>4, <1>5, <1>6

\* After MainWmCreate the main window has the loop and the focus.
LEMMA LoopStarts == Loop!Init => LoopInv
  <1> SUFFICES ASSUME Loop!Init PROVE LoopInv
    OBVIOUS
  <1> USE DEF Loop!Init
  <1>1. InMainWindow /\ ServesMain
    BY LoopAssumption DEF InMainWindow, ServesMain, MainLoop, MainAccel
  <1>2. Back
    BY LoopAssumption DEF Back, Loop!Children
  <1>3. AtMain
    BY <1>1, <1>2, NoMessage DEF AtMain
  <1>4. DialogKnown
    BY <1>1, NoMessage DEF DialogKnown
  <1> QED BY <1>3, <1>4 DEF LoopInv, LoopTypes, LabelKnown, Loop!Children

\* Every handler and every step of the user keeps it.
LEMMA LoopKeeps ==
  ASSUME LoopInv, [Loop!Next]_(Loop!vars)
  PROVE  LoopInv'
  <1>1. CASE Loop!MainWmActivate
    <2>1. \/ /\ Loop!Deliver("mainOn") /\ Loop!RestoreFocus
             /\ UNCHANGED <<active, windows, enabled, minimized, box, hWndAbout, loop, left>>
          \/ /\ Loop!Deliver("mainOff") /\ Loop!SaveFocus /\ todo' = Tail(todo)
             /\ UNCHANGED <<Loop!user, focus, hWndAbout, loop, left>>
          \/ /\ Loop!Deliver("mainOnMinimized") \/ Loop!Deliver("mainOffMinimized")
             /\ todo' = Tail(todo)
             /\ UNCHANGED <<Loop!user, focus, hWndFocus, hWndAbout, loop, left>>
      BY <1>1 DEF Loop!MainWmActivate, Loop!user
    <2> QED BY <2>1, MainOnKeeps, MainOffKeeps, MinimizedKeeps
  <1>2. CASE Loop!TreeFocus
    BY <1>2, TreeSetKeeps, TreeKillKeeps DEF Loop!TreeFocus
  <1>3. CASE Loop!AboutMwActivate
    <2>1. /\ \/ Loop!Deliver("aboutOn") /\ Loop!SetMsgLoop("about", NULL)
             \/ Loop!Deliver("aboutOff") /\ Loop!RestoreMsgLoop
          /\ todo' = Tail(todo)
          /\ UNCHANGED <<Loop!user, focus, hWndFocus, hWndAbout, left>>
      BY <1>3 DEF Loop!AboutMwActivate
    <2> QED BY <2>1, AboutOnKeeps, AboutOffKeeps
  <1>4. CASE Loop!AboutWmInitDialog
    BY <1>4, AboutInitKeeps
  <1>5. CASE Loop!AboutMwDestroy
    BY <1>5, AboutDestroyKeeps
  <1>6. CASE Loop!MainWmNcDestroy
    BY <1>6, MainDestroyKeeps
  <1>7. CASE Loop!Default
    <2>1. \/ /\ Loop!Deliver("focusAbout") /\ Loop!MoveFocus("about", Tail(todo))
             /\ UNCHANGED <<Loop!user, hWndFocus, hWndAbout, loop, left>>
          \/ /\ Loop!Deliver("focusElsewhere") /\ Loop!MoveFocus("elsewhere", Tail(todo))
             /\ UNCHANGED <<Loop!user, hWndFocus, hWndAbout, loop, left>>
          \/ /\ Loop!Deliver("labelKill") /\ todo' = Tail(todo)
             /\ windows' = windows \ {"label"}
             /\ UNCHANGED <<active, enabled, minimized, box, focus, hWndFocus, hWndAbout, loop, left>>
      BY <1>7 DEF Loop!Default
    <2> QED BY <2>1, FocusAboutKeeps, FocusElsewhereKeeps, LabelKillKeeps
  <1>t. LoopTypes
    BY DEF LoopInv
  <1>8. ASSUME NEW w \in {"main", "about", "box", "other"}, Loop!Activate(w) PROVE LoopInv'
    BY <1>8, <1>t, SwitchKeeps DEF Loop!Activate, Loop!Quiet, LoopTypes
  <1>9. CASE Loop!MainWmCommandAbout
    <2>1. /\ todo = <<>> /\ active = "main" /\ ~minimized /\ "main" \in windows
          /\ Loop!ShowAbout(hWndAbout)
          /\ UNCHANGED <<focus, enabled, minimized, box, hWndFocus, hWndAbout, loop>>
      BY <1>9 DEF Loop!MainWmCommandAbout, Loop!Quiet
    <2>2. CASE hWndAbout = NULL
      BY <2>1, <2>2, CreateKeeps DEF Loop!ShowAbout
    <2>3. CASE hWndAbout # NULL
      <3>1. hWndAbout = "about" /\ "about" \in windows
        BY <2>1, <2>3, Waiting
      <3>2. UNCHANGED windows /\ Loop!Switch("about", <<>>, <<>>)
        BY <2>1, <2>3, <3>1 DEF Loop!ShowAbout
      <3>3. box' \in BOOLEAN
        BY <1>t, <2>1 DEF LoopTypes
      <3> QED BY <2>1, <3>1, <3>2, <3>3, SwitchKeeps
    <2> QED BY <2>2, <2>3
  <1>10. CASE Loop!CloseAbout
    BY <1>10, CloseAboutKeeps
  <1>11. CASE Loop!OpenBox
    BY <1>11, SwitchKeeps DEF Loop!OpenBox, Loop!Quiet
  <1>12. CASE Loop!CloseBox
    <2>1. todo = <<>> /\ active = "box"
      BY <1>12 DEF Loop!CloseBox, Loop!Quiet
    <2>2. ~minimized
      BY <2>1, Waiting
    <2> QED BY <1>12, <2>1, <2>2, SwitchKeeps DEF Loop!CloseBox
  <1>13. CASE Loop!MainWmSysCommand
    BY <1>13, MinimizeKeeps
  <1>14. CASE Loop!RestoreWindow
    BY <1>14, RestoreKeeps
  <1>15. ASSUME NEW x \in {"tree", "edit"}, Loop!FocusChild(x) PROVE LoopInv'
    BY <1>15, <1>t, FocusMoveKeeps DEF Loop!FocusChild, Loop!InMain, Loop!Quiet, Loop!user,
         LoopTypes
  <1>16. CASE Loop!EditLabel
    BY <1>16, <1>t, FocusMoveKeeps DEF Loop!EditLabel, Loop!InMain, Loop!Quiet, LoopTypes
  <1>17. ASSUME NEW enable \in BOOLEAN, Loop!EnableWorkspace(enable) PROVE LoopInv'
    <2>1. /\ todo = <<>> /\ active = "main" /\ ~minimized /\ "main" \in windows
          /\ enabled' = enable /\ left' = NULL
          /\ IF focus \in Loop!Children THEN Loop!MoveFocus("elsewhere", <<>>)
                                        ELSE UNCHANGED <<focus, todo>>
          /\ UNCHANGED <<active, windows, minimized, box, hWndFocus, hWndAbout, loop>>
      BY <1>17 DEF Loop!EnableWorkspace, Loop!InMain, Loop!Quiet
    <2>2. CASE focus \in Loop!Children
      BY <2>1, <2>2, FocusMoveKeeps DEF Loop!Children
    <2>3. CASE focus \notin Loop!Children
      <3>1. /\ {"main", "tree", "edit"} \subseteq windows
            /\ "label" \in windows <=> focus = "label"
            /\ InMainWindow
        BY <2>1, Waiting
      <3>2. UNCHANGED <<focus, todo>>
        BY <2>1, <2>3
      <3>3. InMainWindow' /\ Back'
        BY <2>1, <3>1, <3>2, LoopAssumption DEF InMainWindow, ServesMain, MainLoop,
             MainAccel, Back, Loop!Children
      <3>4. AtMain'
        BY <2>1, <3>2, <3>3, NoMessage DEF AtMain
      <3>5. DialogKnown'
        BY <2>1, <3>2, PlainMessages, PlainStays
      <3> QED BY <1>t, <2>1, <3>1, <3>2, <3>4, <3>5 DEF LoopInv, LoopTypes, LabelKnown
    <2> QED BY <2>2, <2>3
  <1>18. CASE Loop!Quit
    BY <1>18, QuitKeeps
  <1>19. CASE UNCHANGED Loop!vars
    BY <1>19 DEF Loop!vars, LoopInv, LoopTypes, Destroyed, DialogKnown, LabelKnown, AtAbout,
         AtOther, AtMain, InMainWindow, Saved, Back, ServesMain, MainLoop, ServesAbout,
         AboutLoop, MainAccel, Loop!Deliver, Loop!Quiet
  <1> QED
    BY <1>1, <1>2, <1>3, <1>4, <1>5, <1>6, <1>7, <1>8, <1>9, <1>10, <1>11, <1>12, <1>13, <1>14,
       <1>15, <1>16, <1>17, <1>18, <1>19 DEF Loop!Next

\* The messages to come are messages.
LEMMA LoopTyped == LoopInv => Loop!TypeOK
  <1> SUFFICES ASSUME LoopInv PROVE Loop!TypeOK
    OBVIOUS
  <1> DEFINE M == Loop!Messages
  <1>1. \A a \in M : <<a>> \in Seq(M)
    OBVIOUS
  <1>2. \A a, b \in M : <<a, b>> \in Seq(M)
    OBVIOUS
  <1>3. \A a, b, c \in M : <<a, b, c>> \in Seq(M)
    OBVIOUS
  <1>4. \A a, b, c, d \in M : <<a, b, c, d>> \in Seq(M)
    OBVIOUS
  <1>5. \A a, b, c, d, e \in M : <<a, b, c, d, e>> \in Seq(M)
    OBVIOUS
  <1>6. \A a, b, c, d, e, f \in M : <<a, b, c, d, e, f>> \in Seq(M)
    OBVIOUS
  <1>m. /\ "mainOn" \in M /\ "mainOff" \in M /\ "mainOnMinimized" \in M /\ "mainOffMinimized" \in M
        /\ "mainDestroy" \in M /\ "aboutInit" \in M /\ "aboutOn" \in M /\ "aboutOff" \in M
        /\ "aboutDestroy" \in M /\ "treeSet" \in M /\ "treeKill" \in M /\ "labelKill" \in M
        /\ "focusAbout" \in M /\ "focusElsewhere" \in M
    BY DEF Loop!Messages
  <1>e. <<>> \in Seq(M)
    OBVIOUS
  <1> HIDE DEF M
  <1>7. AtAbout => todo \in Seq(M)
    <2>1. <<"aboutInit", "mainOff", "aboutOn", "focusAbout">> \in Seq(M)
      BY <1>4, <1>m
    <2>2. <<"mainOff", "aboutOn", "focusAbout">> \in Seq(M) /\ <<"aboutOn", "focusAbout">> \in Seq(M)
      BY <1>2, <1>3, <1>m
    <2>3. <<"focusAbout">> \in Seq(M) /\ <<"treeKill">> \in Seq(M) /\ <<"labelKill">> \in Seq(M)
      BY <1>1, <1>m
    <2> QED BY <2>1, <2>2, <2>3, <1>e DEF AtAbout
  <1>8. Leave \in Seq(M) /\ DestroyAndLeave \in Seq(M) /\ OnDestroyAndLeave \in Seq(M)
        /\ SetDestroyAndLeave \in Seq(M) /\ OffOnDestroyAndLeave \in Seq(M)
    BY <1>3, <1>4, <1>5, <1>6, <1>m DEF Leave, DestroyAndLeave, OnDestroyAndLeave,
         SetDestroyAndLeave, OffOnDestroyAndLeave
  <1>9. AtOther => todo \in Seq(M)
    BY <1>1, <1>2, <1>3, <1>m, <1>e, <1>8, ZenonT(40) DEF AtOther
  <1>10. AtMain => todo \in Seq(M)
    BY <1>1, <1>2, <1>3, <1>m, <1>e, <1>8 DEF AtMain
  <1>11. todo \in Seq(M)
    BY <1>7, <1>9, <1>10, <1>e DEF LoopInv, Destroyed
  <1>12. ServesMain \/ ServesAbout
    <2>1. AtAbout => ServesMain \/ ServesAbout
      BY DEF AtAbout, InMainWindow
    <2>2. AtOther => ServesMain \/ ServesAbout
      BY DEF AtOther, InMainWindow
    <2>3. AtMain => ServesMain \/ ServesAbout
      BY DEF AtMain, InMainWindow
    <2> QED BY <2>1, <2>2, <2>3 DEF LoopInv, Destroyed
  <1>13. loop \in [hWnd : {"main", "about", NULL}, hAccel : {"main", "tree", NULL},
                   hWndPrev : {"main", "about", NULL}, hAccelPrev : {"main", "tree", NULL}]
    BY <1>12 DEF ServesMain, MainLoop, ServesAbout, AboutLoop
  <1> QED BY <1>11, <1>13 DEF M, LoopInv, LoopTypes, Loop!TypeOK

\* What the invariant says when the last message has been handled, and before.
LEMMA LoopPromises ==
  LoopInv => /\ Loop!LoopServesActive /\ Loop!AcceleratorsFollowFocus
             /\ Loop!NoDeadAbout /\ Loop!FocusComesBack
  <1> SUFFICES ASSUME LoopInv
               PROVE  /\ Loop!LoopServesActive /\ Loop!AcceleratorsFollowFocus
                      /\ Loop!NoDeadAbout /\ Loop!FocusComesBack
    OBVIOUS
  <1>1. Loop!LoopServesActive
    <2> SUFFICES ASSUME todo = <<>>, "main" \in windows
                 PROVE  IF active = "about" THEN loop.hWnd = "about" /\ loop.hAccel = NULL
                                            ELSE loop.hWnd = "main"
      BY DEF Loop!LoopServesActive, Loop!Quiet
    <2> QED BY Waiting DEF InMainWindow, ServesMain, MainLoop, ServesAbout, AboutLoop
  <1>2. Loop!AcceleratorsFollowFocus
    <2> SUFFICES ASSUME todo = <<>>, "main" \in windows, active = "main"
                 PROVE  loop.hAccel = IF focus = "tree" THEN "tree" ELSE "main"
      BY DEF Loop!AcceleratorsFollowFocus, Loop!Quiet
    <2>1. InMainWindow
      BY Waiting
    <2> QED BY <2>1 DEF InMainWindow, ServesMain, MainLoop, MainAccel
  <1>3. Loop!NoDeadAbout
    <2> SUFFICES ASSUME "about" \notin windows
                 PROVE  hWndAbout = NULL /\ "about" \notin {loop.hWnd, loop.hWndPrev}
      BY DEF Loop!NoDeadAbout
    <2>1. hWndAbout = NULL /\ ServesMain
      BY DEF LoopInv, DialogKnown, Destroyed
    <2> QED BY <2>1, LoopAssumption DEF ServesMain, MainLoop
  <1>4. Loop!FocusComesBack
    <2> SUFFICES ASSUME todo = <<>>, active = "main", left \in Loop!Children \cap windows
                 PROVE  focus = left
      BY DEF Loop!FocusComesBack, Loop!Quiet
    <2>1. Back
      BY Waiting
    <2> QED BY <2>1 DEF Back
  <1> QED BY <1>1, <1>2, <1>3, <1>4

\* Between the steps of the user the loop serves the active window, with the
\* accelerators of the control that has the focus, the focus comes back to the
\* control it left, and no handle names a dialog that is gone (AppBase.c,
\* AboutWindow.c, MainWmActivate).
THEOREM LoopIsRight == Loop!Spec => []LoopRight
  <1>1. LoopInv /\ [Loop!Next]_(Loop!vars) => LoopInv'
    BY LoopKeeps
  <1>2. LoopInv => LoopRight
    BY LoopTyped, LoopPromises DEF LoopRight
  <1> QED BY LoopStarts, <1>1, <1>2, PTL DEF Loop!Spec

-----------------------------------------------------------------------------
(* The window as a whole: whatever its parts do side by side, each keeps   *)
(* what it promises.                                                       *)

\* Each part starts in an initial state of its own ...
LEMMA WindowStarts == WindowInit => Init /\ Loop!Init /\ Menu!Init /\ Detail!Init /\ Drop!Init
  BY DEF WindowInit

\* ... and every step is one of a part or leaves it alone.
LEMMA WindowSteps ==
  [WindowNext]_allVars =>
    /\ [Next]_vars /\ [Loop!Next]_(Loop!vars) /\ [Menu!Next]_(Menu!vars)
    /\ [Detail!Next]_(Detail!vars) /\ [Drop!Next]_(Drop!vars)
  <1> SUFFICES ASSUME [WindowNext]_allVars
               PROVE  /\ [Next]_vars /\ [Loop!Next]_(Loop!vars) /\ [Menu!Next]_(Menu!vars)
                      /\ [Detail!Next]_(Detail!vars) /\ [Drop!Next]_(Drop!vars)
    OBVIOUS
  <1> USE DEF SplitterStep, LoopStep, MenuStep, DetailStep, DropStep, vars, loopVars,
       menuVars, detailVars, dropVars, Loop!vars, Menu!vars, Detail!vars, Drop!vars
  <1>1. CASE SplitterStep
    BY <1>1
  <1>2. CASE LoopStep
    BY <1>2
  <1>3. CASE MenuStep
    BY <1>3
  <1>4. CASE DetailStep
    BY <1>4
  <1>5. CASE DropStep
    BY <1>5
  <1>6. CASE UNCHANGED allVars
    BY <1>6 DEF allVars
  <1> QED BY <1>1, <1>2, <1>3, <1>4, <1>5, <1>6 DEF WindowNext

\* All the window promises that does not depend on reads.
THEOREM WindowIsRight == WindowSpec => SplitterRight /\ []LoopRight /\ OffersKept /\ DropRight
  <1>1. WindowSpec => Spec /\ Loop!Spec /\ Menu!Spec /\ Drop!Spec
    BY WindowStarts, WindowSteps, PTL DEF WindowSpec, Spec, Loop!Spec, Menu!Spec, Drop!Spec
  <1> QED BY <1>1, SplitterIsRight, LoopIsRight, OffersAreKept, DropTargetIsRight, PTL

\* All it promises of the selected record, as long as no read fails.
THEOREM WindowShowsRecord ==
  ASSUME ~ReadsFail
  PROVE  WindowSpec => []DetailsRight /\ DetailsFollow
  <1>1. WindowSpec => Detail!Spec
    BY WindowStarts, WindowSteps, PTL DEF WindowSpec, Detail!Spec
  <1> QED BY <1>1, DetailsAreRight, DetailsFollowRecords, PTL
=============================================================================
