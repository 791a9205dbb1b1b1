----------------------------- MODULE DataStore -----------------------------
(***************************************************************************)
(* DataStore.c: one SQLite connection to one encrypted file, the changed   *)
(* flag kept beside it, and the transaction that holds unsaved edits.      *)
(*                                                                         *)
(* The program keeps an EXCLUSIVE transaction open for as long as a file   *)
(* is being edited; Save commits it and begins the next one.  The actions  *)
(* are the Db* functions, in the orders MainWindow.c calls them (phase).   *)
(* SQLite is external: its failures are the members of Faults.             *)
(***************************************************************************)
EXTENDS Records

CONSTANTS
    Passwords,   \* passwords the user can type
    Faults,      \* the failures of SQLite a run considers
    MaxChanges   \* bound on the rows one connection changes

FaultKinds ==
    {"busy",            \* another process holds the file
     "stmtFail",        \* a statement fails and is undone
     "stmtRollback",    \* a statement fails and SQLite rolls the transaction back
     "commitFail",      \* COMMIT fails, the transaction stays open
     "commitRollback",  \* COMMIT fails and SQLite rolls the transaction back
     "beginFail",       \* BEGIN EXCLUSIVE fails after a save
     "upgradeFail",     \* creating the schema fails
     "rekeyFail"}       \* rewriting the file under a new key fails

\* The failures after which a connection may go on outside a transaction; a
\* change of password that succeeds can leave it there as well (DbRekey).
TransactionFaults == {"stmtRollback", "commitRollback", "beginFail"}

ASSUME FaultsAssumption == Faults \subseteq FaultKinds
ASSUME MaxChangesAssumption == MaxChanges \in Nat

VARIABLES
    phase,        \* where MainWindow is with the handle, see Phases
    readWrite,    \* ~sqlite3_db_readonly
    connKey,      \* key given to sqlite3_key / sqlite3_rekey
    inTx,         \* DbIsInTransaction: ~sqlite3_get_autocommit
    totalChanges, \* sqlite3_total_changes, never undone by a rollback
    lastSavedTotalChanges, isDirty, lastState,   \* DBCONTEXT
    work,         \* the content as the connection sees it
    disk,         \* the committed content
    diskKey,      \* the key the file is encrypted with
    status,       \* status bar: what DbFileChanged last made of a callback
    lastCall      \* the Db* function that returned last, and its result

context == <<lastSavedTotalChanges, isDirty, lastState>>
file == <<disk, diskKey>>
vars == <<phase, readWrite, connKey, inTx, totalChanges, lastSavedTotalChanges,
          isDirty, lastState, work, disk, diskKey, status, lastCall>>

Phases ==
    {"none",      \* e->db is NULL
     "opened",    \* DbOpen and DbSetChangedCallback done
     "keyed",     \* DbKey done, the password not yet known to be right
     "locked",    \* the key reads the file and, if read-write, we hold it
     "failed",    \* an error or the user ended the opening; DbClose follows
     "ready",     \* the workspace is loaded and enabled
     "rekeying"}  \* FilePropertiesMsg is about to call DbRekey

Call(op, ok) == [op |-> op, ok |-> ok]

Ops == {"none", "DbOpen", "DbKey", "DbGetVersionInfo", "DbAcquireExclusiveAccess",
        "DbUpgradeSchema", "statement", "DbSave", "DbRekey", "DbClose", "DbCloseSave"}

TypeOK ==
    /\ phase \in Phases
    /\ readWrite \in BOOLEAN
    /\ connKey \in Passwords
    /\ inTx \in BOOLEAN
    /\ totalChanges \in Nat
    /\ lastSavedTotalChanges \in Nat
    /\ isDirty \in BOOLEAN
    /\ lastState \in {"none", "dirty", "saved"}
    /\ IsContent(work)
    /\ IsContent(disk)
    /\ diskKey \in Passwords
    /\ status \in {"ready", "changed"}
    /\ lastCall \in [op : Ops, ok : BOOLEAN]

-----------------------------------------------------------------------------
(* Helpers of DataStore.c *)

DbIsInTransaction == inTx

DbIsDirty == isDirty \/ lastSavedTotalChanges # totalChanges

\* Mutant: lastState keeps its old value.
SetSavedState_KeepsLastState ==
    /\ isDirty' = FALSE
    /\ lastSavedTotalChanges' = totalChanges
    /\ UNCHANGED lastState
    /\ status' = "ready"

\* SetSavedState and the SAVED callback that follows it (a save happens only
\* when dirty, so the callback always fires).
SetSavedState ==
    /\ isDirty' = FALSE
    /\ lastSavedTotalChanges' = totalChanges
    /\ lastState' = "saved"
    /\ status' = "ready"

\* Mutant: the status text is stored where the state belongs.
OnFileChanged_WrongConstant ==
    IF lastState # "dirty" /\ (isDirty' \/ lastSavedTotalChanges # totalChanges')
    THEN lastState' = "changed" /\ status' = "changed"
    ELSE UNCHANGED <<lastState, status>>

\* OnFileChanged, run after isDirty' and totalChanges' are known: one DIRTY
\* callback for the first change since the last save.
OnFileChanged ==
    IF lastState # "dirty" /\ (isDirty' \/ lastSavedTotalChanges # totalChanges')
    THEN lastState' = "dirty" /\ status' = "changed"
    ELSE UNCHANGED <<lastState, status>>

\* COMMIT makes the working content durable under the connection's key.
Commit ==
    /\ disk' = work
    /\ diskKey' = connKey

\* SQLite ends the transaction and drops its changes.
RollBack ==
    /\ work' = disk
    /\ inTx' = FALSE

-----------------------------------------------------------------------------
(* Opening a file: AppNewFile, OpenFileInternal, IsValidPassword *)

\* A new connection, or none: AllocClearBlock, FreeBlock.
FreshContext ==
    /\ inTx' = FALSE
    /\ totalChanges' = 0
    /\ lastSavedTotalChanges' = 0
    /\ isDirty' = FALSE
    /\ lastState' = "none"

\* DbOpen, then DbSetChangedCallback, whose INIT state DbFileChanged ignores.
\* A file asked for read-write may still open read-only.
DbOpen(rw) ==
    /\ phase = "none"
    /\ phase' = "opened"
    /\ readWrite' = rw
    /\ FreshContext
    /\ lastCall' = Call("DbOpen", TRUE)
    /\ UNCHANGED <<connKey, work, file, status>>

\* The password dialog may come back with another password.
DbKey(p) ==
    /\ phase \in {"opened", "keyed"}
    /\ phase' = "keyed"
    /\ connKey' = p
    /\ lastCall' = Call("DbKey", TRUE)
    /\ UNCHANGED <<readWrite, inTx, totalChanges, context, work, file, status>>

\* An empty file has no header to decrypt: any password reads it.
KeyReadsFile == disk.schema = 0 \/ connKey = diskKey

\* DbGetVersionInfo with the wrong key, or DbAcquireExclusiveAccess while
\* another process has the file: the dialog stays (keyed).
ValidateFails ==
    /\ phase = "keyed"
    /\ \/ ~KeyReadsFile /\ lastCall' = Call("DbGetVersionInfo", FALSE)
       \/ KeyReadsFile /\ readWrite /\ "busy" \in Faults
             /\ lastCall' = Call("DbAcquireExclusiveAccess", FALSE)
    /\ UNCHANGED <<phase, readWrite, connKey, inTx, totalChanges, context, work,
                   file, status>>

\* Mutant: BEGIN is not sent.
DbAcquireExclusiveAccess_NoBegin ==
    /\ phase = "keyed"
    /\ KeyReadsFile
    /\ ~DbIsInTransaction
    /\ phase' = "locked"
    /\ lastCall' = Call("DbAcquireExclusiveAccess", TRUE)
    /\ UNCHANGED <<readWrite, connKey, inTx, totalChanges, context, work, file, status>>

\* Mutant: the result of DbGetVersionInfo is not looked at.
DbAcquireExclusiveAccess_AnyKey ==
    /\ phase = "keyed"
    /\ ~DbIsInTransaction
    /\ phase' = "locked"
    /\ inTx' = readWrite
    /\ lastCall' = Call("DbAcquireExclusiveAccess", TRUE)
    /\ UNCHANGED <<readWrite, connKey, totalChanges, context, work, file, status>>

\* IsValidPassword returns VARESULT_OK: a read-write file is now inside
\* BEGIN EXCLUSIVE TRANSACTION.
DbAcquireExclusiveAccess ==
    /\ phase = "keyed"
    /\ KeyReadsFile
    /\ ~DbIsInTransaction
    /\ phase' = "locked"
    /\ inTx' = readWrite
    /\ lastCall' = Call("DbAcquireExclusiveAccess", TRUE)
    /\ UNCHANGED <<readWrite, connKey, totalChanges, context, work, file, status>>

\* The file is current: LoadRootNodes fills and enables the workspace.
LoadRootNodes ==
    /\ phase = "locked"
    /\ work.schema = DbSchemaVersion
    /\ phase' = "ready"
    /\ UNCHANGED <<readWrite, connKey, inTx, totalChanges, context, work, file,
                   status, lastCall>>

\* The version is newer, or old in a file that cannot be written.
RejectVersion ==
    /\ phase = "locked"
    /\ work.schema > DbSchemaVersion \/ (work.schema < DbSchemaVersion /\ ~readWrite)
    /\ phase' = "failed"
    /\ UNCHANGED <<readWrite, connKey, inTx, totalChanges, context, work, file,
                   status, lastCall>>

\* DbUpgradeSchema inside SAVEPOINT InitDB: two root rows are inserted.
DbUpgradeSchema ==
    /\ phase = "locked"
    /\ readWrite
    /\ work.schema = 0
    /\ totalChanges + 2 <= MaxChanges
    /\ work' = CreateSchema
    /\ totalChanges' = totalChanges + 2
    /\ isDirty' = TRUE
    /\ OnFileChanged
    /\ phase' = "ready"
    /\ lastCall' = Call("DbUpgradeSchema", TRUE)
    /\ UNCHANGED <<readWrite, connKey, inTx, lastSavedTotalChanges, file>>

\* A failing step rolls back to the savepoint, a failing RELEASE does not;
\* the rows already counted stay counted, and no callback fires.
DbUpgradeSchemaFails ==
    /\ phase = "locked"
    /\ readWrite
    /\ work.schema = 0
    /\ "upgradeFail" \in Faults
    /\ \E n \in 0 .. 2 :
          /\ totalChanges + n <= MaxChanges
          /\ totalChanges' = totalChanges + n
          /\ work' \in IF n = 2 THEN {work, CreateSchema} ELSE {work}
    /\ phase' = "failed"
    /\ lastCall' = Call("DbUpgradeSchema", FALSE)
    /\ UNCHANGED <<readWrite, connKey, inTx, context, file, status>>

-----------------------------------------------------------------------------
(* Editing: every statement runs in the open transaction, or commits by    *)
(* itself when the connection has fallen back to autocommit mode.          *)

Editable == phase = "ready" /\ readWrite

\* A statement that reached SQLITE_DONE and changed n rows.
StatementDone(new, n) ==
    /\ totalChanges + n <= MaxChanges
    /\ totalChanges' = totalChanges + n
    /\ work' = new
    /\ disk' = IF DbIsInTransaction THEN disk ELSE new
    /\ lastCall' = Call("statement", TRUE)
    /\ UNCHANGED <<phase, readWrite, connKey, inTx, diskKey, isDirty,
                   lastSavedTotalChanges>>
    /\ OnFileChanged

RowsChanged(new) == IF new = work THEN 0 ELSE 1

DbAddNewItem(parent) ==
    /\ Editable
    /\ work.seq < MaxRecordId
    /\ parent \in Ids(work) \ {RootRecord}
    /\ StatementDone(InsertItem(work, parent, NewItemTitle), 1)

\* The notes of record 0 can be written too, see Editor.
DbUpdateItemNotes(id, notes) ==
    /\ Editable
    /\ id \in Ids(work) \ {RootRecord}
    /\ LET new == UpdateNotes(work, id, notes) IN StatementDone(new, RowsChanged(new))

DbUpdateItemTitle(id, title) ==
    /\ Editable
    /\ id \in Items(work)
    /\ LET new == UpdateTitle(work, id, title) IN StatementDone(new, RowsChanged(new))

DbUpdateFileDetails(title, notes) ==
    /\ Editable
    /\ FileRecord \in Ids(work)
    /\ LET new == UpdateFileDetails(work, title, notes)
       IN  StatementDone(new, RowsChanged(new))

\* Its WHERE clause does not compare: the row counts as changed.
DbSetReadOnlyItem(id, readonly) ==
    /\ Editable
    /\ id \in Items(work)
    /\ StatementDone(SetReadOnly(work, id, readonly), 1)

\* The rows the cascade deletes are counted with the record.
DbRemoveItem(id) ==
    /\ Editable
    /\ id \in Items(work)
    /\ StatementDone(RemoveItem(work, id), Cardinality(Subtree(work, id)))

\* Any of the statements above failing - always, when a rollback has taken
\* the new table away; OnFileChanged runs all the same.
StatementFails ==
    /\ Editable
    /\ \/ /\ ("stmtFail" \in Faults \/ Ids(work) = {})
          /\ UNCHANGED <<inTx, work>>
       \/ "stmtRollback" \in Faults /\ inTx /\ RollBack
    /\ UNCHANGED <<phase, readWrite, connKey, totalChanges, isDirty,
                   lastSavedTotalChanges, file>>
    /\ OnFileChanged
    /\ lastCall' = Call("statement", FALSE)

-----------------------------------------------------------------------------
(* Saving, changing the password, closing *)

\* DbSave ends by acquiring the file again and ignores the result.
ReacquireIgnored == inTx' \in IF "beginFail" \in Faults THEN BOOLEAN ELSE {TRUE}

\* DbSave returns TRUE.  FilePropertiesMsg calls it before DbRekey, the Save
\* command by itself.
DbSave(next) ==
    /\ Editable
    /\ IF DbIsInTransaction /\ DbIsDirty
       THEN Commit /\ SetSavedState /\ ReacquireIgnored
       ELSE /\ IF DbIsInTransaction THEN UNCHANGED inTx ELSE ReacquireIgnored
            /\ UNCHANGED <<file, context, status>>
    /\ phase' = next
    /\ lastCall' = Call("DbSave", TRUE)
    /\ UNCHANGED <<readWrite, connKey, totalChanges, work>>

\* Mutant: the saved state is set before the COMMIT is looked at.
DbSaveFails_SetsSavedFirst ==
    /\ Editable
    /\ DbIsInTransaction
    /\ DbIsDirty
    /\ "commitFail" \in Faults
    /\ SetSavedState
    /\ lastCall' = Call("DbSave", FALSE)
    /\ UNCHANGED <<phase, readWrite, connKey, inTx, totalChanges, work, file>>

\* Mutant: the result of COMMIT is ignored.
DbSaveFails_ReturnsTrue ==
    /\ Editable
    /\ DbIsInTransaction
    /\ DbIsDirty
    /\ "commitFail" \in Faults
    /\ lastCall' = Call("DbSave", TRUE)
    /\ UNCHANGED <<phase, readWrite, connKey, inTx, totalChanges, context, work, file,
                   status>>

\* COMMIT fails: DbSave returns FALSE and leaves its fields alone.
DbSaveFails ==
    /\ Editable
    /\ DbIsInTransaction
    /\ DbIsDirty
    /\ \/ "commitFail" \in Faults /\ UNCHANGED <<inTx, work>>
       \/ "commitRollback" \in Faults /\ RollBack
    /\ lastCall' = Call("DbSave", FALSE)
    /\ UNCHANGED <<phase, readWrite, connKey, totalChanges, context, file, status>>

\* Mutant: IsFileModified is not asked.
PropertiesUnmodified_NotAsked ==
    /\ Editable
    /\ phase' = "rekeying"
    /\ UNCHANGED <<readWrite, connKey, inTx, totalChanges, context, work, file,
                   status, lastCall>>

\* FilePropertiesMsg goes straight to DbRekey when nothing is modified.
PropertiesUnmodified ==
    /\ Editable
    /\ ~DbIsDirty
    /\ phase' = "rekeying"
    /\ UNCHANGED <<readWrite, connKey, inTx, totalChanges, context, work, file,
                   status, lastCall>>

\* "This method commits any already running transaction": after a success the
\* connection may be outside its transaction (sqlite3_rekey is external, both
\* outcomes are kept), and nobody begins the next one until a DbSave.
DbRekey(p) ==
    /\ phase = "rekeying"
    /\ connKey' = p
    /\ diskKey' = p
    /\ disk' = work
    /\ inTx' \in {FALSE, inTx}
    /\ phase' = "ready"
    /\ lastCall' = Call("DbRekey", TRUE)
    /\ UNCHANGED <<readWrite, totalChanges, context, work, status>>

DbRekeyFails ==
    /\ phase = "rekeying"
    /\ "rekeyFail" \in Faults
    /\ phase' = "ready"
    /\ lastCall' = Call("DbRekey", FALSE)
    /\ UNCHANGED <<readWrite, connKey, inTx, totalChanges, context, work, file, status>>

\* sqlite3_close rolls back what is open; the CLOSED callback sets the
\* status bar to Ready, and the context is freed.
HandleClosed ==
    /\ phase' = "none"
    /\ readWrite' = FALSE
    /\ FreshContext
    /\ status' = "ready"
    /\ work' = disk'
    /\ UNCHANGED connKey

\* DbClose(db, TRUE): AppCloseFile after the answer Yes.  A failing COMMIT
\* goes unreported.
DbCloseSave ==
    /\ Editable
    /\ \/ DbIsInTransaction /\ DbIsDirty /\ Commit
       \/ /\ DbIsInTransaction /\ DbIsDirty
          /\ {"commitFail", "commitRollback"} \cap Faults # {}
          /\ UNCHANGED file
       \/ ~(DbIsInTransaction /\ DbIsDirty) /\ UNCHANGED file
    /\ HandleClosed
    /\ lastCall' = Call("DbCloseSave", TRUE)

\* DbClose(db, FALSE): the answer No, nothing to save, or a failed opening.
DbClose ==
    /\ phase \in Phases \ {"none", "rekeying"}
    /\ UNCHANGED file
    /\ HandleClosed
    /\ lastCall' = Call("DbClose", TRUE)

\* The process ends at any point; SQLite recovers the last commit.
Crash ==
    /\ phase # "none"
    /\ UNCHANGED file
    /\ HandleClosed
    /\ lastCall' = Call("none", TRUE)

-----------------------------------------------------------------------------
\* A file SQLite has just created, or one an earlier session left behind.
InitialContents ==
    {EmptyContent, CreateSchema, [CreateSchema EXCEPT !.schema = 2]}
        \cup IF MaxRecordId = 0 THEN {}
             ELSE {InsertItem(CreateSchema, FileRecord, NewItemTitle)}

Init ==
    /\ phase = "none"
    /\ readWrite = FALSE
    /\ connKey \in Passwords
    /\ inTx = FALSE
    /\ totalChanges = 0
    /\ lastSavedTotalChanges = 0
    /\ isDirty = FALSE
    /\ lastState = "none"
    /\ disk \in InitialContents
    /\ diskKey \in Passwords
    /\ work = disk
    /\ status = "ready"
    /\ lastCall = Call("none", TRUE)

Open ==
    \/ \E rw \in BOOLEAN : DbOpen(rw)
    \/ \E p \in Passwords : DbKey(p)
    \/ ValidateFails
    \/ DbAcquireExclusiveAccess
    \/ LoadRootNodes
    \/ RejectVersion
    \/ DbUpgradeSchema
    \/ DbUpgradeSchemaFails

Edit ==
    \/ \E id \in RecordIds : DbAddNewItem(id)
    \/ \E id \in RecordIds, text \in Texts : DbUpdateItemNotes(id, text)
    \/ \E id \in RecordIds, text \in Texts : DbUpdateItemTitle(id, text)
    \/ \E title, notes \in Texts : DbUpdateFileDetails(title, notes)
    \/ \E id \in RecordIds, readonly \in BOOLEAN : DbSetReadOnlyItem(id, readonly)
    \/ \E id \in RecordIds : DbRemoveItem(id)
    \/ StatementFails

SaveOrClose ==
    \/ DbSave("ready")
    \/ DbSave("rekeying")
    \/ DbSaveFails
    \/ PropertiesUnmodified
    \/ \E p \in Passwords : DbRekey(p)
    \/ DbRekeyFails
    \/ DbCloseSave
    \/ DbClose
    \/ Crash

Next == Open \/ Edit \/ SaveOrClose

Spec == Init /\ [][Next]_vars

-----------------------------------------------------------------------------
(* Properties *)

\* While the user can edit, "not dirty" (DbIsDirty, the test behind the
\* prompt in AppCloseFile and the Save command) means that nothing is
\* unsaved: closing without a question loses nothing.  The flag is computed
\* from a counter no rollback rewinds, a boolean and a snapshot.
CleanMeansSaved ==
    phase \in {"ready", "rekeying"} /\ ~DbIsDirty => work = disk

\* What can be pending, and where: nothing outside a transaction, whatever
\* ended it (a failure of SQLite, a change of password, a close); nothing
\* before the schema is current; a file about to get its schema is inside
\* the transaction IsValidPassword began; and the snapshot the dirty test
\* compares with never overtakes the counter, so a later change is seen.
PendingOnlyInTransaction ==
    /\ ~DbIsInTransaction => work = disk
    /\ phase \in {"none", "opened", "keyed", "locked"} => work = disk
    /\ phase = "locked" /\ readWrite => DbIsInTransaction
    /\ lastSavedTotalChanges <= totalChanges

\* DbSave answering TRUE means the file holds what the editor shows, also
\* when it returned without a COMMIT because the connection was in
\* autocommit mode after a failure or a change of password.
SaveMeansDurable == lastCall = Call("DbSave", TRUE) => disk = work

\* The status bar (DbFileChanged) says "changed" exactly while DbIsDirty.
StatusShowsDirty == phase \in {"ready", "rekeying"} => (status = "changed" <=> DbIsDirty)

\* The parent relation of both contents is a tree under record 0 whatever is
\* inserted, cascaded, rolled back or lost.
Integrity == IntegrityOK(work) /\ IntegrityOK(disk)

\* The password of the session opens the file that the session wrote:
\* a change of password leaves file and connection with the same key.
SessionKeyOpensFile ==
    phase \in {"locked", "ready", "rekeying"} => KeyReadsFile

\* Answering Yes to "Do you want to save changes?" (IDS_SAVE_CHANGES_MSG)
\* saves them.
CloseYesSaves == [][lastCall'.op = "DbCloseSave" => disk' = work]_vars

\* A changed file "needs to be saved" (IDS_FILE_CHANGED_STATUS): what is stored
\* changes only when the user saves, so that the answer No gives the rest up.
OnlySavingWrites == [][disk' # disk => lastCall'.op \in {"DbSave", "DbCloseSave"}]_vars

\* DataStore implements Document, under every failure: a file open for
\* writing is direct while its connection is in autocommit mode.
Doc == INSTANCE Document WITH
          Reliable <- Faults \cap TransactionFaults = {},
          open <- phase # "none",
          direct <- phase \in {"ready", "rekeying"} /\ readWrite /\ ~DbIsInTransaction,
          saved <- disk,
          password <- IF disk.schema = 0 THEN {} ELSE {diskKey},
          working <- work

ImplementsDocument == Doc!DocSpec
=============================================================================
