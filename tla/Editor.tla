------------------------------- MODULE Editor -------------------------------
(***************************************************************************)
(* MainWindow.c: the tree view, the notes edit control and the commands    *)
(* that act on them, over the record table of the open file.               *)
(*                                                                         *)
(* Three views of one table have to stay together: the table in the open   *)
(* connection (work), the tree view, which loads children lazily and knows *)
(* a record only by the id in its lParam, and the edit control, which      *)
(* holds the notes of the selected record and writes them back when the    *)
(* selection moves, on Save, or on closing with Yes.                       *)
(*                                                                         *)
(* The program is single threaded and its notifications are synchronous:   *)
(* each action is one command with every notification it causes.  The data *)
(* store is taken from DataStore: statements succeed, DbIsDirty is dirty.  *)
(* The order of siblings on the screen is left out.                        *)
(***************************************************************************)
EXTENDS Records

CONSTANTS
    Typed,           \* what the user can type
    Trim,            \* TrimWhiteSpace, [Typed -> Texts]
    Files,           \* contents of the files the user can open
    MaxLevelDepth,   \* MAX_RECORD_LEVEL_DEPTH
    MaxRecordCount   \* MAX_RECORD_COUNT

\* DbGetRecordLevel and DbGetItemCount as the menus read them.
WithinLimitsContent(c) ==
    /\ Cardinality(Items(c)) <= MaxRecordCount
    /\ \A i \in Items(c) : RecordLevel(c, i) \in 1 .. MaxLevelDepth

ASSUME LimitsAssumption == MaxLevelDepth \in Nat \ {0} /\ MaxRecordCount \in Nat \ {0}
\* A text that was trimmed has nothing more to trim (TrimText).
ASSUME TrimAssumption ==
    /\ Trim \in [Typed -> Texts]
    /\ \A t \in Typed : Trim[t] \in Typed => Trim[Trim[t]] = Trim[t]
ASSUME FilesAssumption ==
    /\ Files # {}
    /\ \A c \in Files :
          /\ IsContent(c)
          /\ c.schema = DbSchemaVersion => WellFormedTree(c) /\ WithinLimitsContent(c)
          /\ c.schema \in {0, DbSchemaVersion}
          /\ c.schema = 0 => c = EmptyContent

VARIABLES
    open,    \* e->db is set and the workspace is enabled
    rw,      \* DbIsReadWrite
    work,    \* the content as the connection sees it
    dirty,   \* DbIsDirty
    nodes,   \* tree view: [record id -> parent in the tree, EXPANDEDONCE]
    caret,   \* lParam of the selected item
    label,   \* the item whose label is being edited
    edit,    \* edit control: text, EM_GETMODIFY, ES_READONLY, whose notes
    command  \* the command that ran last, as far as a property needs it

vars == <<open, rw, work, dirty, nodes, caret, label, edit, command>>

\* A missing tree item has lParam 0, which is also the id of the record
\* that holds the file's own title and description.
NoItem == FileRecord

ItemIds == RecordIds \ {RootRecord, FileRecord}

EditTexts == Texts \cup Typed

Commands == {"open", "save", "rekey", "closeYes", "closeNo", "closeUnasked", "other"}

Trimmed(text) == IF text \in Typed THEN Trim[text] ELSE text

TypeOK ==
    /\ open \in BOOLEAN
    /\ rw \in BOOLEAN
    /\ IsContent(work)
    /\ dirty \in BOOLEAN
    /\ DOMAIN nodes \subseteq ItemIds
    /\ nodes \in [DOMAIN nodes -> [under : RecordIds \ {RootRecord}, expanded : BOOLEAN]]
    /\ caret \in DOMAIN nodes \cup {NoItem}
    /\ label \in {NoItem, caret}
    /\ edit \in [text : EditTexts, modified : BOOLEAN, readonly : BOOLEAN,
                 of : RecordIds \ {RootRecord}]
    /\ command \in Commands

-----------------------------------------------------------------------------
(* The tree view.  It is external; what it does on each message is taken   *)
(* from how MainWindow.c uses it.                                          *)

EmptyTree == [i \in {} |-> {}]

Node(under) == [under |-> under, expanded |-> FALSE]

Inserted(tree, ids, under) ==
    [i \in DOMAIN tree \cup ids |-> IF i \in ids THEN Node(under) ELSE tree[i]]

Kids(tree, id) == {i \in DOMAIN tree : tree[i].under = id}

\* An item and everything shown below it.
Hanging(tree, id) ==
    {i \in DOMAIN tree :
        \A S \in SUBSET DOMAIN tree :
            (id \in S /\ \A j \in DOMAIN tree : tree[j].under \in S => j \in S)
                => i \in S}

\* TVM_DELETEITEM.  Whether an item that lost its last child keeps
\* TVIS_EXPANDEDONCE is the control's affair.
Deleted(tree, id) ==
    LET rest == [i \in DOMAIN tree \ Hanging(tree, id) |-> tree[i]]
        parent == tree[id].under
    IN  IF parent # NoItem /\ Kids(rest, parent) = {}
        THEN {rest, [rest EXCEPT ![parent].expanded = FALSE]}
        ELSE {rest}

\* The selection moves to a sibling of the deleted item, or to its parent.
SelectedAfterDelete(tree, id) ==
    LET siblings == Kids(tree, tree[id].under) \ {id}
    IN  IF siblings # {} THEN siblings ELSE {tree[id].under}

\* Mutant: children are inserted TVI_LAST, the oldest record comes first.
FirstChild_InsertedLast(c, id) ==
    CHOOSE i \in ChildIds(c, id) : \A j \in ChildIds(c, id) : i <= j

\* TVGN_CHILD after LoadChildNodes: rows come by id and each is inserted
\* TVI_FIRST, so the newest record is the first child.
FirstChild(c, id) == CHOOSE i \in ChildIds(c, id) : \A j \in ChildIds(c, id) : j <= i

\* LoadChildNodes; the control then marks the item expanded once.
LoadChildNodes(tree, c, id) ==
    LET loaded == Inserted(tree, ChildIds(c, id), id)
    IN  IF id = NoItem THEN loaded ELSE [loaded EXCEPT ![id].expanded = TRUE]

-----------------------------------------------------------------------------
(* The edit control *)

\* ClearWorkspace, AppTreeViewEditItem: WM_SETTEXT clears EM_GETMODIFY.
ClearedEdit(readonly) ==
    [text |-> EmptyText, modified |-> FALSE, readonly |-> readonly, of |-> NoItem]

\* RecordCallbackProc: the control takes the notes of a record.
RecordCallback(c, id, readWrite) ==
    [text |-> c.table[id].notes, modified |-> FALSE,
     readonly |-> c.table[id].readonly \/ ~readWrite, of |-> id]

\* SaveNotesChanges: c with the text typed since the control was filled
\* written, trimmed, to record id.
SaveNotesChanges(c, id) ==
    IF edit.modified /\ id \in Ids(c) THEN UpdateNotes(c, id, Trimmed(edit.text)) ELSE c

\* Mutant: the notes go to the item that gets the selection.
NotesSavedOnSelChange_NewItem(c, new) == IF rw THEN SaveNotesChanges(c, new) ELSE c

\* MainWmNotifyTvnSelChanged: first the old item's notes are saved.  With no
\* old item its lParam is 0, and record 0 exists.
NotesSavedOnSelChange(c, new) == IF rw THEN SaveNotesChanges(c, caret) ELSE c

\* The selection is now new in a table c; c' with the notes written.
SelChanged(c, new) ==
    LET written == NotesSavedOnSelChange(c, new) IN
    /\ caret' = new
    /\ edit' = RecordCallback(written, new, rw)
    /\ work' = written

\* Mutant: the typed notes are not saved.
SaveNotesIfModified_Never(c) == c

\* SaveNotesIfModified needs a selected item.
SaveNotesIfModified(c) == IF caret = NoItem THEN c ELSE SaveNotesChanges(c, caret)

AfterSaveNotesIfModified ==
    IF caret = NoItem THEN edit ELSE [edit EXCEPT !.modified = FALSE]

\* Every statement of DataStore marks the file when it changes a row.
MarkDirty == dirty' = (dirty \/ work' # work)

-----------------------------------------------------------------------------
(* Opening and closing *)

\* Mutant: EM_GETMODIFY is not looked at.
IsFileModified_OnlyDb == dirty

IsFileModified == edit.modified \/ dirty

\* DbUpgradeSchema gives a new file its table.
Upgraded(c) == IF c.schema = 0 THEN CreateSchema ELSE c

RootIds(c) == ChildIds(c, FileRecord)

\* LoadRootNodes selects the first root; an empty file leaves the edit
\* control as it is.
LoadRootNodes(c) ==
    /\ nodes' = LoadChildNodes(EmptyTree, c, NoItem)
    /\ IF RootIds(c) = {}
       THEN caret' = NoItem /\ UNCHANGED edit
       ELSE /\ caret' = FirstChild(c, FileRecord)
            /\ edit' = RecordCallback(c, FirstChild(c, FileRecord), rw')

\* OpenFileInternal, once the password is accepted.  A new file cannot be
\* upgraded read-only.
OpenFileInternal(file, readWrite) ==
    /\ ~open
    /\ file.schema = 0 => readWrite
    /\ open' = TRUE
    /\ rw' = readWrite
    /\ work' = Upgraded(file)
    /\ dirty' = (Upgraded(file) # file)
    /\ LoadRootNodes(Upgraded(file))
    /\ label' = NoItem
    /\ command' = "open"

\* AppNewFile after its dialogs; the file may exist already.  Title and
\* description go to record 0, and a file without items gets one.
AppNewFile(file, readWrite, title, description) ==
    LET details == IF readWrite
                   THEN UpdateFileDetails(Upgraded(file), title, description)
                   ELSE file
        addItem == Items(details) = {} /\ readWrite /\ details.seq < MaxRecordId
        content == IF addItem THEN InsertItem(details, FileRecord, NewItemTitle)
                   ELSE details
    IN  /\ ~open
        /\ file.schema = 0 => readWrite
        /\ Items(details) = {} /\ readWrite => addItem
        /\ open' = TRUE
        /\ rw' = readWrite
        /\ work' = content
        /\ dirty' = (content # file)
        /\ LoadRootNodes(content)
        /\ label' = IF addItem THEN content.seq ELSE NoItem
        /\ command' = "open"

\* What emptying the tree leaves in the edit control.  With an item selected
\* a last TVN_SELCHANGED may come, with no new item, which shows record 0;
\* the text is cleared after it, the read-only style is not.  An empty tree
\* sends nothing.
EditAfterClear ==
    {ClearedEdit(edit.readonly)} \cup IF caret = NoItem THEN {} ELSE {ClearedEdit(~rw)}

\* Mutant: the label editing outlives the tree.
ClearWorkspace_KeepsLabel ==
    /\ nodes' = EmptyTree
    /\ caret' = NoItem
    /\ UNCHANGED label
    /\ edit' \in EditAfterClear

\* ClearWorkspace and EnableWorkspace(FALSE).
ClearWorkspace ==
    /\ nodes' = EmptyTree
    /\ caret' = NoItem
    /\ label' = NoItem
    /\ edit' \in EditAfterClear

\* DbClose(e->db, FALSE) rolls back.  It leaves the table of a file that is
\* not dirty (CleanMeansSaved of DataStore), and of a dirty one something
\* older, for which the empty table stands.
RolledBack == IF dirty THEN CreateSchema ELSE work

\* DbClose.  What it leaves in the file is kept in work until another one is
\* opened.
DbClose(content) ==
    /\ open' = FALSE
    /\ work' = content
    /\ dirty' = FALSE
    /\ UNCHANGED rw

\* AppCloseFile: File Close, New, Open, a dropped file, closing the window.
AppCloseFile ==
    /\ open
    /\ ClearWorkspace
    /\ \/ IsFileModified /\ DbClose(SaveNotesIfModified(work)) /\ command' = "closeYes"
       \/ IsFileModified /\ DbClose(RolledBack) /\ command' = "closeNo"
       \/ ~IsFileModified /\ DbClose(RolledBack) /\ command' = "closeUnasked"

-----------------------------------------------------------------------------
(* The user works in the tree.  While a label is edited the focus is in    *)
(* its edit box, so these commands wait for EndLabelEdit.                  *)

InTree == open /\ label = NoItem

Select(id) ==
    /\ InTree
    /\ id \in DOMAIN nodes \ {caret}
    /\ SelChanged(work, id)
    /\ MarkDirty
    /\ command' = "other"
    /\ UNCHANGED <<open, rw, nodes, label>>

\* MainWmNotifyTvnItemExpanding, the first time.
Expand(id) ==
    /\ InTree
    /\ id \in DOMAIN nodes
    /\ ~nodes[id].expanded
    /\ ChildIds(work, id) # {}
    /\ nodes' = LoadChildNodes(nodes, work, id)
    /\ command' = "other"
    /\ UNCHANGED <<open, rw, work, dirty, caret, label, edit>>

\* MainWmInitMenuPopup and the context menu: New item is enabled.
CanAddItem == rw /\ Cardinality(Items(work)) < MaxRecordCount

\* Mutant: one level too many.
CanAddSubitem_OneMore ==
    /\ CanAddItem
    /\ caret # NoItem
    /\ RecordLevel(work, caret) \in 1 .. MaxLevelDepth

\* New subitem is enabled.
CanAddSubitem ==
    /\ CanAddItem
    /\ caret # NoItem
    /\ RecordLevel(work, caret) \in 1 .. MaxLevelDepth - 1

\* AppTreeViewNewItem(sibling = TRUE)
NewItem ==
    LET under == IF caret = NoItem THEN NoItem ELSE nodes[caret].under
        added == InsertItem(work, under, NewItemTitle)
    IN  /\ InTree
        /\ CanAddItem
        /\ work.seq < MaxRecordId
        /\ nodes' = Inserted(nodes, {added.seq}, under)
        /\ SelChanged(added, added.seq)
        /\ label' = added.seq
        /\ MarkDirty
        /\ command' = "other"
        /\ UNCHANGED <<open, rw>>

\* Mutant: EXPANDEDONCE is not looked at, the item is always inserted.
TreeWithSubitem_NotExpanded(c, parent) == Inserted(nodes, {c.seq}, parent)

\* A parent that was never expanded is expanded now and reads the new record
\* from the table with the others.
TreeWithSubitem(c, parent) ==
    IF nodes[parent].expanded THEN Inserted(nodes, {c.seq}, parent)
    ELSE LoadChildNodes(nodes, c, parent)

\* AppTreeViewNewItem(sibling = FALSE)
NewSubitem ==
    LET added == InsertItem(work, caret, NewItemTitle)
        new == IF nodes[caret].expanded THEN added.seq ELSE FirstChild(added, caret)
    IN  /\ InTree
        /\ CanAddSubitem
        /\ work.seq < MaxRecordId
        /\ nodes' = TreeWithSubitem(added, caret)
        /\ SelChanged(added, new)
        /\ label' = new
        /\ MarkDirty
        /\ command' = "other"
        /\ UNCHANGED <<open, rw>>

\* AppTreeViewEditItem(remove) after the user confirmed: the tree item goes
\* first, and with it the selection; then the record and its children.
DeleteItem ==
    /\ InTree
    /\ rw
    /\ caret # NoItem
    /\ nodes' \in Deleted(nodes, caret)
    /\ caret' \in SelectedAfterDelete(nodes, caret)
    /\ LET written == NotesSavedOnSelChange(work, caret') IN
       /\ work' = RemoveItem(written, caret)
       /\ edit' = IF DOMAIN nodes' = {} THEN ClearedEdit(TRUE)
                  ELSE RecordCallback(written, caret', rw)
    /\ MarkDirty
    /\ command' = "other"
    /\ UNCHANGED <<open, rw, label>>

\* EM_SETREADONLY; what was typed before stays, and stays modified.
EditAfterToggle(readonly) == [edit EXCEPT !.readonly = readonly]

\* AppTreeViewSetReadOnlyItem
ToggleReadOnly ==
    LET readonly == ~work.table[caret].readonly IN
    /\ InTree
    /\ rw
    /\ caret # NoItem
    /\ work' = SetReadOnly(work, caret, readonly)
    /\ edit' = EditAfterToggle(readonly)
    /\ MarkDirty
    /\ command' = "other"
    /\ UNCHANGED <<open, rw, nodes, caret, label>>

\* Rename and MainWmNotifyTvnBeginLabelEdit
BeginLabelEdit ==
    /\ InTree
    /\ rw
    /\ caret # NoItem
    /\ ~work.table[caret].readonly
    /\ label' = caret
    /\ command' = "other"
    /\ UNCHANGED <<open, rw, work, dirty, nodes, caret, edit>>

\* MainWmNotifyTvnEndLabelEdit: an empty title is refused.
EndLabelEdit(text) ==
    /\ open
    /\ label # NoItem
    /\ label' = NoItem
    /\ work' = IF Trim[text] = EmptyText THEN work ELSE UpdateTitle(work, label, Trim[text])
    /\ MarkDirty
    /\ command' = "other"
    /\ UNCHANGED <<open, rw, nodes, caret, edit>>

\* The user types into the edit control, which may be writable with nothing
\* selected in the tree.
Type(text) ==
    /\ InTree
    /\ ~edit.readonly
    /\ edit' = [edit EXCEPT !.text = text, !.modified = TRUE]
    /\ command' = "other"
    /\ UNCHANGED <<open, rw, work, dirty, nodes, caret, label>>

-----------------------------------------------------------------------------
(* Saving and the file's properties *)

\* AppSaveFile; the menu item is enabled when the file is modified.  A label
\* being edited stays so.
AppSaveFile ==
    /\ open
    /\ IsFileModified
    /\ work' = SaveNotesIfModified(work)
    /\ edit' = AfterSaveNotesIfModified
    /\ dirty' = IF rw THEN FALSE ELSE dirty
    /\ command' = "save"
    /\ UNCHANGED <<open, rw, nodes, caret, label>>

\* FilePropertiesMsg without a new password, or with No as the answer.
FileProperties(title, description) ==
    /\ InTree
    /\ rw
    /\ work' = UpdateFileDetails(work, title, description)
    /\ MarkDirty
    /\ command' = "other"
    /\ UNCHANGED <<open, rw, nodes, caret, label, edit>>

\* FilePropertiesMsg with a new password: DbSave if the file is modified and
\* the user agrees, then DbRekey.
ChangePassword(title, description) ==
    /\ InTree
    /\ rw
    /\ work' = UpdateFileDetails(work, title, description)
    /\ dirty' = FALSE
    /\ command' = "rekey"
    /\ UNCHANGED <<open, rw, nodes, caret, label, edit>>

-----------------------------------------------------------------------------
Init ==
    /\ open = FALSE
    /\ rw = FALSE
    /\ work = CreateSchema
    /\ dirty = FALSE
    /\ nodes = EmptyTree
    /\ caret = NoItem
    /\ label = NoItem
    /\ edit = ClearedEdit(TRUE)
    /\ command = "other"

OpenOrClose ==
    \/ \E file \in Files, readWrite \in BOOLEAN : OpenFileInternal(file, readWrite)
    \/ \E file \in Files, readWrite \in BOOLEAN, title, description \in Texts :
          AppNewFile(file, readWrite, title, description)
    \/ AppCloseFile

Work ==
    \/ \E id \in ItemIds : Select(id)
    \/ \E id \in ItemIds : Expand(id)
    \/ NewItem
    \/ NewSubitem
    \/ DeleteItem
    \/ ToggleReadOnly
    \/ BeginLabelEdit
    \/ \E text \in Typed : EndLabelEdit(text)
    \/ \E text \in Typed : Type(text)

SaveOrProperties ==
    \/ AppSaveFile
    \/ \E title, description \in Texts : FileProperties(title, description)
    \/ \E title, description \in Texts : ChangePassword(title, description)

Next == OpenOrClose \/ Work \/ SaveOrProperties

Spec == Init /\ [][Next]_vars

-----------------------------------------------------------------------------
(* Properties *)

\* The lazily loaded tree shows the table: all roots, all children of an
\* item that was expanded and none of one that was not, each once and under
\* its parent, after any mix of loading, inserting and deleting.
TreeShowsRecords ==
    open =>
        /\ RootIds(work) \subseteq DOMAIN nodes
        /\ \A i \in DOMAIN nodes :
              /\ i \in Items(work)
              /\ nodes[i].under = work.table[i].parent
              /\ Kids(nodes, i) = IF nodes[i].expanded THEN ChildIds(work, i) ELSE {}
        /\ caret = NoItem <=> nodes = EmptyTree

\* The edit control shows the selected record, can be written exactly when
\* the record can, and what was typed was typed over that record's notes.
EditShowsSelected ==
    open /\ caret # NoItem =>
        /\ edit.of = caret
        /\ edit.readonly <=> work.table[caret].readonly \/ ~rw
        /\ ~edit.modified => Trimmed(edit.text) = Trimmed(work.table[caret].notes)

\* Table, tree and edit control stay together through every command.
ViewsAgree == TreeShowsRecords /\ EditShowsSelected

\* The menus alone keep DbAddNewItem within MAX_RECORD_LEVEL_DEPTH and
\* MAX_RECORD_COUNT; DbAddNewItem itself checks nothing.
WithinLimits == open => WithinLimitsContent(work)

\* A file opened read-only is not written to and cannot be typed into.
ReadOnlyFileUntouched == [][open /\ open' /\ ~rw => work' = work]_vars

\* Text typed over a record's notes reaches that record, or the user threw
\* it away: by answering No, or by deleting the record.  No command that
\* clears EM_GETMODIFY may forget the text.
TypedTextArrives ==
    [][(/\ open /\ caret # NoItem
        /\ edit.modified /\ ~edit'.modified
        /\ command' # "closeNo"
        /\ caret \in Items(work'))
          => work'.table[caret].notes = Trimmed(edit.text)]_vars

\* And it reaches no other record: notes change only by being typed over
\* while their record is selected (record 0 apart, see the README).
OtherNotesUntouched ==
    [][open /\ command' # "open" /\ command' # "closeNo" =>
          \A i \in Items(work) \cap Items(work') :
              work'.table[i].notes # work.table[i].notes => caret = i /\ edit.modified]_vars

\* A command writes to no file that is read-only and to no notes but those
\* that were typed over.
NothingElseChanges == ReadOnlyFileUntouched /\ OtherNotesUntouched

\* A new record is the one selected, whichever way the tree got it, and
\* its label is being edited.
NewRecordSelected ==
    [][open /\ work'.seq > work.seq /\ command' = "other"
          => caret' = work'.seq /\ label' = caret']_vars

\* The content c has what the user sees: the items of the tree under their
\* parents, nothing else where an item was expanded, and the text in the
\* edit control as the notes of the selected item - whatever EM_GETMODIFY
\* says of that text.
Seen(c) ==
    /\ RootIds(c) \subseteq DOMAIN nodes
    /\ \A i \in DOMAIN nodes :
          /\ i \in Items(c)
          /\ c.table[i].parent = nodes[i].under
          /\ nodes[i].expanded => ChildIds(c, i) = Kids(nodes, i)
    /\ caret # NoItem => Trimmed(c.table[caret].notes) = Trimmed(edit.text)

\* After Save, after closing with Yes and after closing without a question
\* the file has what the user saw.  Whether to ask, and what to write, is
\* decided by two flags kept in two places (EM_GETMODIFY and the change
\* counter), which different commands reset.
SavedMeansSeen ==
    [][open /\ command' \in {"save", "closeYes", "closeUnasked"} => Seen(work')]_vars

\* With nothing selected the edit control cannot be typed into (the TODO in
\* MainWmNotifyTvnSelChanged; AppTreeViewEditItem does it for an emptied tree).
EditReadOnlyWithoutItem == open /\ caret = NoItem => edit.readonly

\* All changes to the file are saved before its password is changed
\* (IDS_SAVE_CHANGES_BEFORE_REKEY_MSG).
RekeyAfterSave == [][command' = "rekey" => ~edit'.modified]_vars
=============================================================================
