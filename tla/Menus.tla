-------------------------------- MODULE Menus --------------------------------
(* The commands of the main window (MainWindow.c): what the File menu, the   *)
(* Edit menu and the context menu of the tree view offer, and what a chosen  *)
(* command does.  A menu is computed from the state when it drops down; the  *)
(* command is dispatched later, on the window that has the focus then, and   *)
(* its handler checks nothing: only the menu keeps a command from a file,    *)
(* a record or a control it must not touch.  Editor.tla takes the conditions *)
(* of the menus as the guards of its operations; this module shows they are. *)
(*                                                                           *)
(* An accelerator key passes through the same menu: Windows sends the main   *)
(* window WM_INITMENUPOPUP first and drops a key whose item is grayed.       *)
EXTENDS Naturals, FiniteSets

CONSTANTS MaxRecordCount, MaxLevelDepth

VARIABLES
    file,      \* "none", "read" or "write": e->db and DbIsReadWrite
    changed,   \* IsFileModified
    items,     \* DbGetItemCount
    caret,     \* the selected item of the tree view, or NoItem
    focus,     \* GetFocus; "label" is the tree view's own edit control
    readonly,  \* ES_READONLY of the notes control
    selection, \* what is selected in the notes control and in the label
    popup,     \* the menu that is dropped down
    enabled,   \* its commands that are not grayed
    did        \* what the step's command did, Nothing for any other step

vars == <<file, changed, items, caret, focus, readonly, selection, popup,
          enabled, did>>

NoItem == [level |-> 0, readonly |-> FALSE]
Items == [level : 1..MaxLevelDepth, readonly : BOOLEAN]
Nothing == [command |-> "none", from |-> "none", op |-> "none", on |-> "none"]

FileCommands == {"new", "open", "save", "properties", "close"}
TextCommands == {"undo", "cut", "copy", "paste", "delete", "selectAll"}
TreeCommands == {"newItem", "newSubitem", "rename", "delete", "readonly"}
Controls == {"edit", "label"}
Selections == {"empty", "none", "part", "all"}

TypeOK ==
    /\ file \in {"none", "read", "write"} /\ changed \in BOOLEAN
    /\ items \in 0..MaxRecordCount /\ caret \in Items \cup {NoItem}
    /\ (items = 0 \/ file = "none") => caret = NoItem
    /\ focus \in {"tree", "edit", "label", "list", "none"}
    /\ file = "none" => focus = "none"
    /\ readonly \in BOOLEAN
    /\ selection \in [Controls -> Selections]
    /\ popup \in {"none", "file", "edit", "tree"}
    /\ enabled \subseteq FileCommands \cup TextCommands \cup TreeCommands
    /\ did \in [command : FileCommands \cup TextCommands \cup TreeCommands,
                from : {"file", "edit", "tree"},
                op : FileCommands \cup TextCommands \cup TreeCommands \cup {"none"},
                on : {"file", "tree", "none"} \cup Controls] \cup {Nothing}

-----------------------------------------------------------------------------
(* What the menus offer                                                      *)

FileMenu ==
    {"new", "open"}
      \cup (IF file # "none" THEN {"properties", "close"} ELSE {})
      \cup (IF file # "none" /\ changed THEN {"save"} ELSE {})

\* GetEditControlSelectionLength and WM_GETTEXTLENGTH tell four cases apart.
InitMenuStateForEdit(control, canUndo, clipboard) ==
    LET some == selection[control] \in {"part", "all"}
        writable == control = "label" \/ ~readonly
    IN (IF some THEN {"copy"} ELSE {})
         \cup (IF selection[control] \in {"none", "part"} THEN {"selectAll"} ELSE {})
         \cup (IF some /\ writable THEN {"cut", "delete"} ELSE {})
         \cup (IF canUndo /\ writable THEN {"undo"} ELSE {})
         \cup (IF clipboard /\ writable THEN {"paste"} ELSE {})

CanAddItem == file = "write" /\ items < MaxRecordCount

ItemCommands ==
    (IF CanAddItem /\ caret.level < MaxLevelDepth THEN {"newSubitem"} ELSE {})
      \cup (IF file = "write" THEN {"delete", "readonly"} ELSE {})
      \cup (IF file = "write" /\ ~caret.readonly THEN {"rename"} ELSE {})

\* MainWmContextMenuTreeView and the part of the Edit menu for the tree view.
TreeMenu ==
    (IF CanAddItem THEN {"newItem"} ELSE {})
      \cup (IF file # "none" /\ caret # NoItem THEN ItemCommands ELSE {})

\* Mutant: the commands on items are offered with the focus in the notes.
EditMenu_TreeAlways(canUndo, clipboard) ==
    IF focus \in Controls
    THEN InitMenuStateForEdit(focus, canUndo, clipboard) \cup TreeMenu
    ELSE IF focus = "tree" THEN TreeMenu ELSE {}

EditMenu(canUndo, clipboard) ==
    CASE focus = "tree" -> TreeMenu
      [] focus = "edit" ->
           InitMenuStateForEdit("edit", canUndo, clipboard)
             \cup (IF caret # NoItem /\ file = "write" THEN {"readonly"} ELSE {})
      [] focus = "label" -> InitMenuStateForEdit("label", canUndo, clipboard)
      [] OTHER -> {}

Drop(menu, offered) ==
    /\ popup = "none"
    /\ popup' = menu /\ enabled' = offered /\ did' = Nothing
    /\ UNCHANGED <<file, changed, items, caret, focus, readonly, selection>>

\* The system menu and the Help menu are left to DefWindowProc.
MainWmInitMenuPopup ==
    \/ Drop("file", FileMenu)
    \/ \E canUndo, clipboard \in BOOLEAN : Drop("edit", EditMenu(canUndo, clipboard))

\* By keyboard the tree view has the focus.  A right click selects the item
\* under the mouse first (NM_RCLICK); whether it also moves the focus is the
\* control's affair, so the focus may be anywhere.  TPM_NONOTIFY keeps the
\* main window from initializing this popup as if it were the File menu.
MainWmContextMenuTreeView == file # "none" /\ Drop("tree", TreeMenu)

Dismiss ==
    /\ popup # "none"
    /\ popup' = "none" /\ enabled' = {} /\ did' = Nothing
    /\ UNCHANGED <<file, changed, items, caret, focus, readonly, selection>>
-----------------------------------------------------------------------------
(* What a command does                                                       *)

\* TVN_BEGINLABELEDIT: the tree view asks whether a label may be edited.
MainWmNotifyTvnBeginLabelEdit ==
    IF file = "write" /\ caret # NoItem /\ ~caret.readonly
    THEN focus' = "label" /\ \E s \in {"empty", "all"} : selection' = [selection EXCEPT !["label"] = s]
    ELSE UNCHANGED <<focus, selection>>

\* The record may fail to be added; else it is selected, its label edited.
AppTreeViewNewItem(level) ==
    \/ UNCHANGED <<items, changed, caret, readonly, file, focus, selection>>
    \/ /\ items' = items + 1 /\ changed' = TRUE
       /\ caret' = [level |-> level, readonly |-> FALSE] /\ readonly' = FALSE
       /\ focus' = "label" /\ selection' = [selection EXCEPT !["label"] = "all"]
       /\ UNCHANGED file

\* The message box asks first.  The records below the item go with it; the
\* selection goes to a neighbour.  With the last item gone the notes control
\* is made read-only.
AppTreeViewDeleteItem ==
    \/ UNCHANGED <<items, changed, caret, readonly, file, focus, selection>>
    \/ /\ items > 0 /\ caret # NoItem
       /\ \E left \in 0..items - 1 :
            /\ items' = left
            /\ \/ left = 0 /\ caret' = NoItem /\ readonly' = TRUE
               \/ left > 0 /\ caret' \in Items /\ readonly' = (caret'.readonly \/ file = "read")
       /\ changed' = TRUE /\ UNCHANGED <<file, focus, selection>>

AppTreeViewSetReadOnlyItem ==
    IF caret = NoItem
    THEN UNCHANGED <<items, changed, caret, readonly, file, focus, selection>>
    ELSE /\ caret' = [caret EXCEPT !.readonly = ~caret.readonly]
         /\ readonly' = caret'.readonly /\ changed' = TRUE
         /\ UNCHANGED <<items, file, focus, selection>>

ProcessMenuCommandForTreeView(c) ==
    \/ c = "newItem" /\ AppTreeViewNewItem(IF caret = NoItem THEN 1 ELSE caret.level)
    \/ c = "newSubitem" /\ AppTreeViewNewItem(caret.level + 1)
    \/ c = "rename" /\ MainWmNotifyTvnBeginLabelEdit
         /\ UNCHANGED <<items, changed, caret, readonly, file>>
    \/ c = "delete" /\ AppTreeViewDeleteItem
    \/ c = "readonly" /\ AppTreeViewSetReadOnlyItem
    \/ c \notin TreeCommands
         /\ UNCHANGED <<items, changed, caret, readonly, file, focus, selection>>

\* The message goes to the control; what it selects and whether it changes
\* text is the control's affair, but a read-only one does not change.
ProcessMenuCommandForEdit(control, c) ==
    /\ \/ c \in {"undo", "cut", "paste", "delete"} /\ (control = "label" \/ ~readonly)
          /\ \E s \in Selections : selection' = [selection EXCEPT ![control] = s]
          /\ changed' = (changed \/ control = "edit")
       \/ c = "selectAll" /\ UNCHANGED changed
          /\ selection' = [selection EXCEPT ![control] = IF @ = "empty" THEN @ ELSE "all"]
       \/ c = "copy" /\ UNCHANGED <<selection, changed>>
       \/ c \in {"undo", "cut", "paste", "delete"} /\ control = "edit" /\ readonly
          /\ UNCHANGED <<selection, changed>>
       \/ c \notin TextCommands /\ UNCHANGED <<selection, changed>>
    /\ UNCHANGED <<items, caret, readonly, file, focus>>

Did(c, from, on) ==
    did' = [command |-> c, from |-> from, op |-> IF on = "none" THEN "none" ELSE c, on |-> on]

AppEditCommand(c, from) ==
    \/ /\ focus \in Controls /\ c \in TextCommands
       /\ Did(c, from, focus) /\ ProcessMenuCommandForEdit(focus, c)
    \/ /\ focus = "edit" /\ c = "readonly"
       /\ Did(c, from, "tree") /\ AppTreeViewSetReadOnlyItem
    \/ /\ focus = "tree"
       /\ Did(c, from, IF c \in TreeCommands THEN "tree" ELSE "none")
       /\ ProcessMenuCommandForTreeView(c)
    \/ /\ \/ focus \in {"list", "none"}
          \/ focus = "edit" /\ c \notin TextCommands \cup {"readonly"}
          \/ focus = "label" /\ c \notin TextCommands
       /\ Did(c, from, "none")
       /\ UNCHANGED <<items, changed, caret, readonly, file, focus, selection>>

\* A file is shown with its first item selected (OpenFileInternal,
\* AppNewFile); the notes control is writable when the file and the item are.
ShowFile ==
    /\ file' \in {"read", "write"} /\ changed' = FALSE /\ focus' = "tree"
    /\ items' \in 0..MaxRecordCount
    /\ \/ items' = 0 /\ caret' = NoItem /\ readonly' \in BOOLEAN
       \/ /\ items' > 0
          /\ caret' \in [level : {1}, readonly : BOOLEAN]
          /\ readonly' = (caret'.readonly \/ file' = "read")
    /\ selection' = [selection EXCEPT !["edit"] = "none"]

\* The workspace is disabled, and Windows takes the focus from a window that
\* is.  With an item selected a last TVN_SELCHANGED may come while the tree is
\* emptied and show record 0 in the notes control, whose style then stays.
AppCloseFile ==
    /\ file' = "none" /\ items' = 0 /\ caret' = NoItem /\ focus' = "none"
    /\ changed' = FALSE
    /\ readonly' \in {readonly} \cup IF caret = NoItem THEN {} ELSE {file = "read"}
    /\ selection' = [c \in Controls |-> "empty"]

FileCommand(c) ==
    /\ did' = [command |-> c, from |-> "file", op |-> c, on |-> "file"]
    /\ \/ UNCHANGED <<items, changed, caret, readonly, file, focus, selection>>
       \/ c \in {"new", "open"} /\ ShowFile
       \/ c = "close" /\ AppCloseFile
       \/ c = "save" /\ changed' = FALSE
          /\ UNCHANGED <<items, caret, readonly, file, focus, selection>>
       \/ c = "properties" /\ file = "write" /\ changed' = TRUE
          /\ UNCHANGED <<items, caret, readonly, file, focus, selection>>

\* WM_COMMAND.
MainWindowProc(c, from) ==
    IF c \in FileCommands THEN FileCommand(c) ELSE AppEditCommand(c, from)

Choose ==
    /\ popup # "none"
    /\ \E c \in enabled : MainWindowProc(c, popup)
    /\ popup' = "none" /\ enabled' = {}

TreeKeys == {"delete", "newItem", "rename"}

\* NM_SETFOCUS and NM_KILLFOCUS of the tree view choose the table.
SetActiveAccel == {"new", "open", "save"} \cup (IF focus = "tree" THEN TreeKeys ELSE {})

Accelerator ==
    /\ popup = "none"
    /\ \E c \in SetActiveAccel, canUndo, clipboard \in BOOLEAN :
         \/ c \in FileMenu /\ MainWindowProc(c, "file")
         \/ c \in EditMenu(canUndo, clipboard) /\ MainWindowProc(c, "edit")
    /\ UNCHANGED <<popup, enabled>>
-----------------------------------------------------------------------------
(* What the user does besides                                                *)

Aside == popup = "none" /\ did' = Nothing /\ UNCHANGED <<popup, enabled, file, items>>

\* The focus leaves a label when its editing ends.
SetFocus ==
    /\ file # "none" /\ focus' \in {"tree", "edit", "list"}
    /\ Aside /\ UNCHANGED <<changed, caret, readonly, selection>>

\* The focus stays; in the tree view the user may also click the item again.
SelectItem ==
    /\ items > 0 /\ focus # "label" /\ caret' \in Items
    /\ readonly' = (caret'.readonly \/ file = "read")
    /\ selection' = [selection EXCEPT !["edit"] = "none"]
    /\ Aside /\ UNCHANGED <<changed, focus>>

ClickLabel ==
    /\ focus = "tree" /\ caret # NoItem /\ MainWmNotifyTvnBeginLabelEdit
    /\ Aside /\ UNCHANGED <<changed, caret, readonly>>

TypeOrSelect ==
    /\ focus \in Controls
    /\ \E s \in Selections : selection' = [selection EXCEPT ![focus] = s]
    /\ changed' \in {changed, changed \/ (focus = "edit" /\ ~readonly)}
    /\ Aside /\ UNCHANGED <<caret, readonly, focus>>

Init ==
    /\ file = "none" /\ changed = FALSE /\ items = 0 /\ caret = NoItem
    /\ focus = "none" /\ readonly = TRUE
    /\ selection = [c \in Controls |-> "empty"]
    /\ popup = "none" /\ enabled = {} /\ did = Nothing

Next ==
    \/ MainWmInitMenuPopup \/ MainWmContextMenuTreeView \/ Dismiss
    \/ Choose \/ Accelerator
    \/ SetFocus \/ SelectItem \/ ClickLabel \/ TypeOrSelect

Spec == Init /\ [][Next]_vars
-----------------------------------------------------------------------------
(* Properties                                                                *)

\* The handlers of the items check neither the number of records nor the
\* depth: no sequence of commands passes the limits of the file.
LimitsKept == items <= MaxRecordCount /\ caret.level <= MaxLevelDepth

\* A command that was offered is carried out, by the window its menu was
\* computed for, although menu and dispatch decide it in different functions:
\* none is lost, none hits another control.  The tree view's own menu speaks
\* for the tree view, so it holds for it while the tree view has the focus.
OfferedIsDone ==
    [][did' # Nothing /\ did'.from # "file" /\ (did'.from = "tree" => focus = "tree") =>
         /\ did'.op = did'.command
         /\ did'.on = focus \/ (did'.on = "tree" /\ did'.command = "readonly")]_vars

\* Wherever the focus is when a command arrives, no operation on the records
\* starts unless a file is open for writing.
OnlyWriteFileWritten ==
    [][did'.on = "tree" /\ did'.op # "none" => file = "write"]_vars

\* Rename opens the label: the menu never offers it for an item for which
\* MainWmNotifyTvnBeginLabelEdit then refuses.
RenameStartsEdit ==
    [][did'.on = "tree" /\ did'.op = "rename" => focus' = "label"]_vars

\* The Delete key and the Delete command remove an item only while the tree
\* view has the focus: in a label or in the notes they remove text.
ItemDeletedOnlyFromTree == [][items' < items /\ file' = file /\ did'.from # "file" => focus = "tree"]_vars
=============================================================================
