------------------------------- MODULE Details -------------------------------
(* What the main window shows of the selected record (MainWindow.c): the four *)
(* rows of the property list and the notes, while statements of DataStore.c   *)
(* fail.  The rows are never read back from the table: each operation on the  *)
(* record sets the rows it changes, and most operations ignore whether their  *)
(* statement succeeded.  Editor.tla has the tree, the limits and the commands *)
(* with statements that succeed; here the records are a flat list.            *)
EXTENDS Naturals, FiniteSets

CONSTANTS
    MaxRecordId,  \* records added beyond it are left out
    Titles,       \* what a record can be called; new ones get NewItemTitle
    NewItemTitle,
    WritesFail,   \* an INSERT, UPDATE or DELETE may fail
    ReadsFail     \* the SELECT of DbGetItem may fail

VARIABLES
    file,   \* "none", "read" or "write"
    table,  \* Records: [id -> [title, notes, changed, readonly]]
    tree,   \* the records that have an item in the tree view
    caret,  \* lParam of the selected item, or NoItem
    edit,   \* the notes control: [text, modified, readonly]
    rows,   \* the second column of the list
    last    \* the operation of the last step, and whether it failed

vars == <<file, table, tree, caret, edit, rows, last>>

NoItem == 0
Ids == 1..MaxRecordId

\* A text is known by the record over whose notes it was typed.
Texts == [of : Ids, version : {0, 1}]
EmptyText == [of |-> NoItem, version |-> 0]
Stored == [title : Titles, notes : Texts, changed : 0..2, readonly : BOOLEAN]

\* IDS_READONLY_YES, IDS_READONLY_NO
GetReadOnlyValue(readonly) == IF readonly THEN "yes" ELSE "no"

\* A later time than the one given, cut to three.
GetDateTimeNow(time) == (time + 1) % 3

TypeOK ==
    /\ file \in {"none", "read", "write"}
    /\ DOMAIN table \subseteq Ids /\ \A i \in DOMAIN table : table[i] \in Stored
    /\ tree \subseteq Ids /\ caret \in tree \cup {NoItem}
    /\ edit \in [text : Texts \cup {EmptyText}, modified : BOOLEAN, readonly : BOOLEAN]
    /\ rows \in [title : Titles \cup {""}, changed : 0..2, readonly : {"yes", "no", ""}]
    /\ last \in [op : {"open", "close", "select", "add", "delete", "rename",
                       "readonly", "type", "save"}, failed : BOOLEAN]

Rows(record) ==
    [title |-> record.title, changed |-> record.changed,
     readonly |-> GetReadOnlyValue(record.readonly)]
BlankRows == [title |-> "", changed |-> 0, readonly |-> ""]

\* The outcomes of a statement.
Write == IF WritesFail THEN BOOLEAN ELSE {TRUE}
Read == IF ReadsFail THEN BOOLEAN ELSE {TRUE}
Step(op, succeeded) == last' = [op |-> op, failed |-> ~succeeded]
-----------------------------------------------------------------------------
(* DataStore.c                                                               *)

\* An id that is no record's, 0 of no selection among them, gets nothing.
DbItemExists(t, id) == id \in DOMAIN t

\* A row that has the text already is not written, and keeps its time.
DbUpdateItemNotes(t, id, text) ==
    IF DbItemExists(t, id) /\ t[id].notes # text
    THEN [t EXCEPT ![id].notes = text, ![id].changed = GetDateTimeNow(@)]
    ELSE t

DbUpdateItemTitle(id, title) ==
    [table EXCEPT ![id].title = title, ![id].changed = GetDateTimeNow(@)]

DbSetReadOnlyItem(id, readonly) ==
    [table EXCEPT ![id].readonly = readonly, ![id].changed = GetDateTimeNow(@)]

DbRemoveItem(t, id) == [i \in DOMAIN t \ {id} |-> t[i]]

DbAddNewItem(id) ==
    [i \in DOMAIN table \cup {id} |->
        IF i \in DOMAIN table THEN table[i]
        ELSE [title |-> NewItemTitle, notes |-> [of |-> id, version |-> 0],
              changed |-> 0, readonly |-> FALSE]]
-----------------------------------------------------------------------------
(* MainWindow.c                                                              *)

\* SaveNotesChanges ignores the result of the statement; what the caller then
\* does with EM_GETMODIFY is the same.
SaveNotesChanges(t, id, succeeds) ==
    IF edit.modified /\ succeeds THEN DbUpdateItemNotes(t, id, edit.text) ELSE t

\* RecordCallbackProc fills rows and notes together.
RecordCallbackProc(record) ==
    /\ rows' = Rows(record)
    /\ edit' = [text |-> record.notes, modified |-> FALSE,
                readonly |-> record.readonly \/ file = "read"]

\* Mutant: the notes of the item left go to the item entered.
SelChanged_New(t, new, written, found) ==
    LET kept == IF file = "write" THEN SaveNotesChanges(t, new, written) ELSE t
    IN  /\ caret' = new /\ table' = kept
        /\ IF found /\ new \in DOMAIN kept THEN RecordCallbackProc(kept[new])
           ELSE edit' = [edit EXCEPT !.modified = FALSE] /\ UNCHANGED rows

\* MainWmNotifyTvnSelChanged: DbGetItem fills the views only when it finds the
\* record; else they keep what they show, EM_GETMODIFY cleared by the save.
SelChanged(t, new, written, found) ==
    LET writes == file = "write" /\ DbItemExists(t, caret)
        kept == IF writes THEN SaveNotesChanges(t, caret, written) ELSE t
    IN  /\ caret' = new /\ table' = kept
        /\ IF found /\ new \in DOMAIN kept THEN RecordCallbackProc(kept[new])
           ELSE /\ edit' = [edit EXCEPT !.modified = @ /\ ~writes]
                /\ UNCHANGED rows

Select ==
    /\ file # "none"
    /\ \E new \in tree \ {caret}, written \in Write, found \in Read :
         /\ SelChanged(table, new, written, found)
         /\ Step("select", written /\ found)
    /\ UNCHANGED <<file, tree>>

\* A record that was not added gets no item.  Ids are never used again.
AppTreeViewNewItem ==
    /\ file = "write"
    /\ \E id \in Ids \ DOMAIN table, added, written \in Write, found \in Read :
         /\ \A i \in DOMAIN table : i < id
         /\ Step("add", added /\ written /\ found)
         /\ IF added
            THEN tree' = tree \cup {id} /\ SelChanged(DbAddNewItem(id), id, written, found)
            ELSE UNCHANGED <<tree, table, caret, edit, rows>>
    /\ UNCHANGED file

ClearedEdit == [text |-> EmptyText, modified |-> FALSE, readonly |-> TRUE]

\* With the last item gone nothing is selected and the views are emptied.
EmptyViews == rows' = BlankRows /\ edit' = ClearedEdit /\ caret' = NoItem

\* AppTreeViewEditItem(remove): the item goes first, which moves the
\* selection and saves the notes; the record goes next, or stays.
AppTreeViewDeleteItem ==
    /\ file = "write" /\ caret # NoItem
    /\ tree' = tree \ {caret}
    /\ \E written, removed \in Write, found \in Read :
         LET Remove(t) == IF removed THEN DbRemoveItem(t, caret) ELSE t IN
         /\ Step("delete", written /\ removed /\ found)
         /\ IF tree' = {}
            THEN /\ EmptyViews
                 /\ table' = Remove(SaveNotesChanges(table, caret, written))
            ELSE /\ caret' \in tree'
                 /\ LET kept == SaveNotesChanges(table, caret, written) IN
                    /\ table' = Remove(kept)
                    /\ IF found THEN RecordCallbackProc(kept[caret'])
                       ELSE edit' = [edit EXCEPT !.modified = FALSE] /\ UNCHANGED rows
    /\ UNCHANGED file

\* Mutant: the time shown is not the one written.
MainWmNotifyTvnEndLabelEdit_NoDate(title) ==
    \E updated \in Write :
         IF updated /\ table[caret].title # title
         THEN table' = DbUpdateItemTitle(caret, title) /\ rows' = [rows EXCEPT !.title = title]
         ELSE UNCHANGED <<table, rows>>

\* The rows are set only if a row of the table changed, and then like it.
MainWmNotifyTvnEndLabelEdit(title) ==
    \E updated \in Write :
         IF updated /\ table[caret].title # title
         THEN /\ table' = DbUpdateItemTitle(caret, title)
              /\ rows' = [rows EXCEPT !.title = title, !.changed = table'[caret].changed]
         ELSE UNCHANGED <<table, rows>>

\* A label is edited only with its item selected, and not if it is read-only.
Rename ==
    /\ file = "write" /\ caret \in DOMAIN table /\ ~table[caret].readonly
    /\ \E title \in Titles : MainWmNotifyTvnEndLabelEdit(title)
    /\ Step("rename", TRUE) /\ UNCHANGED <<file, tree, caret, edit>>

\* DbIsReadOnlyItem answers first; the views change only if the record did.
AppTreeViewSetReadOnlyItem ==
    /\ file = "write" /\ caret \in DOMAIN table
    /\ \E updated \in Write :
         LET readonly == ~table[caret].readonly IN
         /\ Step("readonly", updated)
         /\ IF updated
            THEN /\ table' = DbSetReadOnlyItem(caret, readonly)
                 /\ rows' = [rows EXCEPT !.changed = table'[caret].changed,
                                        !.readonly = GetReadOnlyValue(readonly)]
                 /\ edit' = [edit EXCEPT !.readonly = readonly]
            ELSE UNCHANGED <<table, rows, edit>>
    /\ UNCHANGED <<file, tree, caret>>

\* The user types over the text shown, whose record's it remains.  That a new
\* file without items can be typed into is in Editor.tla.
Type ==
    /\ file # "none" /\ ~edit.readonly /\ caret # NoItem
    /\ edit' = [edit EXCEPT !.text.version = 1 - @, !.modified = TRUE]
    /\ Step("type", TRUE) /\ UNCHANGED <<file, table, tree, caret, rows>>

\* AppSaveFile: SaveNotesIfModified, then the commit.
AppSaveFile ==
    /\ file = "write"
    /\ \E written \in Write :
         /\ Step("save", written)
         /\ table' = IF caret = NoItem THEN table ELSE SaveNotesChanges(table, caret, written)
    /\ edit' = [edit EXCEPT !.modified = @ /\ caret = NoItem]
    /\ UNCHANGED <<file, tree, caret, rows>>

\* With an item selected a last TVN_SELCHANGED may come while the tree is
\* emptied, and show record 0; text and rows are blanked after it, ES_READONLY
\* stays.
ClearWorkspace ==
    /\ tree' = {} /\ rows' = BlankRows
    /\ edit' \in {[text |-> EmptyText, modified |-> FALSE, readonly |-> r] :
                   r \in {edit.readonly} \cup IF caret = NoItem THEN {} ELSE {file = "read"}}

NewFile == [i \in {} |-> BlankRows]

\* Records that failed to be removed are in the file when it is opened again.
\* What No rolls back is DataStore's; here a new file is opened after it.
AppCloseFile ==
    /\ file # "none"
    /\ \E written \in Write, yes \in BOOLEAN :
         /\ Step("close", written)
         /\ table' = IF ~yes THEN NewFile
                     ELSE IF caret # NoItem THEN SaveNotesChanges(table, caret, written)
                     ELSE table
    /\ ClearWorkspace /\ caret' = NoItem /\ file' = "none"

\* OpenFileInternal: all items are loaded and the first one is selected.
OpenFileInternal ==
    /\ file = "none" /\ file' \in {"read", "write"}
    /\ tree' = DOMAIN table
    /\ \E found \in Read :
         /\ Step("open", found)
         /\ IF tree' = {} THEN caret' = NoItem /\ UNCHANGED <<edit, rows>>
            ELSE /\ caret' = CHOOSE i \in tree' : \A j \in tree' : i <= j
                 /\ IF found
                    THEN /\ rows' = Rows(table[caret'])
                         /\ edit' = [text |-> table[caret'].notes, modified |-> FALSE,
                                     readonly |-> table[caret'].readonly \/ file' = "read"]
                    ELSE UNCHANGED <<edit, rows>>
    /\ UNCHANGED table

Init ==
    /\ file = "none" /\ tree = {} /\ caret = NoItem
    /\ table = NewFile
    /\ edit = ClearedEdit /\ rows = BlankRows
    /\ last = [op |-> "close", failed |-> FALSE]

Next ==
    \/ OpenFileInternal \/ AppCloseFile \/ AppSaveFile
    \/ Select \/ AppTreeViewNewItem \/ AppTreeViewDeleteItem
    \/ Rename \/ AppTreeViewSetReadOnlyItem \/ Type

Spec == Init /\ [][Next]_vars
-----------------------------------------------------------------------------
(* Properties                                                                *)

RowsShowItem == rows = IF caret \in DOMAIN table THEN Rows(table[caret]) ELSE BlankRows

\* The list shows the selected record as the table has it, or nothing; a
\* failing statement does not part them.  One operation does: saving notes
\* whose record stays selected writes a new time that the list does not get.
RowsFollowRecord ==
    [][RowsShowItem /\ ~RowsShowItem' => last'.op = "save" /\ edit.modified]_vars

\* Except for that time, which the list shows until the selection moves, the
\* list is right whatever statements fail.
RowsRight ==
    /\ rows.title = (IF caret \in DOMAIN table THEN table[caret].title ELSE "")
    /\ rows.readonly = (IF caret \in DOMAIN table
                        THEN GetReadOnlyValue(table[caret].readonly) ELSE "")

\* No record gets notes that were typed over another's, also when the
\* statement that should have saved them failed and the selection moved on.
NotesOfOwnRecord == \A i \in DOMAIN table : table[i].notes.of = i

\* Every item of the tree view has its record; a record whose removal failed
\* has lost its item, and no other record has.
TreeWithinTable ==
    [][/\ tree \subseteq DOMAIN table => tree' \subseteq DOMAIN table'
       /\ file # "none" /\ file' # "none" /\ ~last'.failed
            => DOMAIN table' \ tree' \subseteq DOMAIN table \ tree]_vars

\* The TODO in MainWmNotifyTvnSelChanged: a record that cannot be loaded
\* leaves an empty list and notes that cannot be typed into.
FailedLoadShowsNothing ==
    last.op = "select" /\ ~RowsShowItem => rows = BlankRows /\ edit.readonly
=============================================================================
