------------------------------ MODULE Records ------------------------------
(***************************************************************************)
(* The logical content of a SafeEditor file and what each SQL statement of *)
(* DataStore.c does to it.                                                 *)
(*                                                                         *)
(* The file holds one table, Records(RecordId, ParentRecordId, Title,      *)
(* Notes, IsReadOnly, ...), the AUTOINCREMENT sequence of that table and   *)
(* the schema version (PRAGMA user_version).  Record -1 is the root of the *)
(* parent relation, record 0 holds the file's own title and description,   *)
(* every other record is an item of the user's tree.  Dates and the random *)
(* token columns carry no control and are left out.                        *)
(*                                                                         *)
(* This module has no state: DataStore keeps two contents (on disk, and as *)
(* the open connection sees it) and applies these operators to them.       *)
(***************************************************************************)
EXTENDS Integers, FiniteSets

CONSTANTS
    Texts,         \* titles and notes the user can type
    EmptyText,     \* the column default ''
    NewItemTitle,  \* IDS_NEWITEM, the title given to a new item
    MaxRecordId    \* bound on the AUTOINCREMENT ids handed out

ASSUME TextsAssumption == EmptyText \in Texts /\ NewItemTitle \in Texts
ASSUME MaxRecordIdAssumption == MaxRecordId \in Nat

RootRecord == -1
FileRecord == 0
DbSchemaVersion == 1        \* DBSCHEMAVERSION

RecordIds == RootRecord .. MaxRecordId

Record == [parent : RecordIds, title : Texts, notes : Texts, readonly : BOOLEAN]

IsTable(t) == DOMAIN t \subseteq RecordIds /\ t \in [DOMAIN t -> Record]

\* Schema 0 is a file SQLite has just created; 2 stands for any version
\* written by a newer SafeEditor.
IsContent(c) ==
    /\ c \in [schema : 0 .. 2, table : {c.table}, seq : 0 .. MaxRecordId]
    /\ IsTable(c.table)

EmptyContent == [schema |-> 0, table |-> [i \in {} |-> {}], seq |-> 0]

Row(parent, title) ==
    [parent |-> parent, title |-> title, notes |-> EmptyText, readonly |-> FALSE]

-----------------------------------------------------------------------------
(* Queries *)

Ids(c) == DOMAIN c.table

Items(c) == {i \in Ids(c) : i > FileRecord}

ChildIds(c, id) == {i \in Ids(c) : c.table[i].parent = id}

\* What ON DELETE CASCADE removes with record id: the least set of records
\* that holds id and, with a record, its children.
Subtree(c, id) ==
    {i \in Ids(c) :
        \A S \in SUBSET Ids(c) :
            (id \in S /\ \A j \in Ids(c) : c.table[j].parent \in S => j \in S)
                => i \in S}

\* DbGetRecordLevel: climbs from the record towards the roots, one level per
\* parent that is not the root record; the items below record 0 are level 1.
RecordLevel(c, id) ==
    LET climb[i \in Ids(c)] ==
            LET p == c.table[i].parent IN
            IF p = RootRecord THEN 0
            ELSE IF p = FileRecord THEN 1
            ELSE 1 + climb[p]
    IN  IF id \in Ids(c) THEN climb[id] ELSE 0

-----------------------------------------------------------------------------
(* Statements *)

\* DbCreateSchema and DbSetVersion: the table with its two root records.
CreateSchema ==
    [schema |-> DbSchemaVersion,
     table  |-> [i \in {RootRecord, FileRecord} |-> Row(RootRecord, EmptyText)],
     seq    |-> 0]

\* INSERT INTO Records ...: AUTOINCREMENT never reuses an id.
InsertItem(c, parent, title) ==
    LET new == c.seq + 1 IN
    [schema |-> c.schema,
     table  |-> [i \in Ids(c) \cup {new} |->
                    IF i = new THEN Row(parent, title) ELSE c.table[i]],
     seq    |-> new]

UpdateTitle(c, id, title) ==
    [c EXCEPT !.table = [c.table EXCEPT ![id].title = title]]

UpdateNotes(c, id, notes) ==
    [c EXCEPT !.table = [c.table EXCEPT ![id].notes = notes]]

UpdateFileDetails(c, title, notes) ==
    UpdateNotes(UpdateTitle(c, FileRecord, title), FileRecord, notes)

SetReadOnly(c, id, readonly) ==
    [c EXCEPT !.table = [c.table EXCEPT ![id].readonly = readonly]]

\* Mutant: foreign keys off (SQLITE_DEFAULT_FOREIGN_KEYS 0), no cascade.
RemoveItem_NoCascade(c, id) ==
    [c EXCEPT !.table = [i \in Ids(c) \ {id} |-> c.table[i]]]

\* DELETE FROM Records WHERE RecordId = id, with the cascade.
RemoveItem(c, id) ==
    [c EXCEPT !.table = [i \in Ids(c) \ Subtree(c, id) |-> c.table[i]]]

-----------------------------------------------------------------------------
(* What the schema and the program promise of every content. *)

HasRoots(c) ==
    /\ {RootRecord, FileRecord} \subseteq Ids(c)
    /\ c.table[RootRecord].parent = RootRecord
    /\ c.table[FileRecord].parent = RootRecord

\* Every item hangs below record 0 or an older item, and no id is ahead of
\* the sequence: the parent relation is a tree, and a climb to the root ends.
WellFormedTree(c) ==
    /\ HasRoots(c)
    /\ \A i \in Items(c) :
          /\ c.table[i].parent \in Ids(c)
          /\ FileRecord <= c.table[i].parent
          /\ c.table[i].parent < i
          /\ i <= c.seq

IntegrityOK(c) == c.schema = DbSchemaVersion => WellFormedTree(c)
=============================================================================
