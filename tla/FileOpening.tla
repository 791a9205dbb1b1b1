----------------------------- MODULE FileOpening -----------------------------
(* Creating, opening and closing a file (AppNewFile, AppOpenFile, OpenDbFile, *)
(* AppCloseFile of MainWindow.c), one call at a time, where every call that   *)
(* can fail may fail: the file dialog, the database file, its password, its   *)
(* lock, its version, the upgrade and the loading of the records.  A dialog   *)
(* runs its own message loop between two steps, so what the window shows in   *)
(* between is seen by the user.  DataStore.tla has the connection itself and  *)
(* Editor.tla the records; here the file is what the window knows of it.      *)
EXTENDS Naturals, FiniteSets

CONSTANT Paths

ASSUME PathsAssumption == "none" \notin Paths

VARIABLES
    pc,      \* the next call of the command, "idle" between two commands
    command, \* "new", "open", "start" (OpenDbFile), "close" or "exit"
    path,    \* ofn->lpstrFile, or the argument of the command line
    flag,    \* what DbOpen is asked for: "write" or "read"
    db,      \* e->db, NoFile for NULL
    changed, \* IsFileModified
    tree,    \* whose records the workspace shows
    enabled, \* the workspace takes input
    title,   \* the file the title bar names
    errMsgId, exit, \* the two locals every failing call sets
    held,    \* the blocks a command has allocated: the name, the properties
    boxes    \* the error messages of this command so far

vars == <<pc, command, path, flag, db, changed, tree, enabled, title,
          errMsgId, exit, held, boxes>>

None == "none"
DBSCHEMAVERSION == 1
NoFile == [path |-> None, rw |-> FALSE, key |-> "unset", locked |-> FALSE, schema |-> 0]
Files == [path : Paths, rw : BOOLEAN, key : {"unset", "right", "wrong"},
          locked : BOOLEAN, schema : 0..2]
Errors == {"UNEXPECTEDERROR", "OPENFILEFAILED", "SAVEFILEFAILED", "SETKEYFAILED",
           "FILEINUSE", "FILEORPASSWORDINVALID", "FILEVERSIONNOTSUPPORTED",
           "READONLYFILESCHEMAUPDATE", "SCHEMAUPDATEFAILED", "CORRUPTEDFILE"}

TypeOK ==
    /\ pc \in {"idle", "close", "name", "choose", "open", "access", "props", "key",
               "version", "upgrade", "details", "load", "item", "end", "gone"}
    /\ command \in {None, "new", "open", "start", "close", "exit"}
    /\ path \in Paths \cup {None} /\ flag \in {"write", "read"}
    /\ db \in Files \cup {NoFile}
    /\ changed \in BOOLEAN /\ enabled \in BOOLEAN /\ exit \in BOOLEAN
    /\ tree \in Paths \cup {None} /\ title \in Paths \cup {None}
    /\ errMsgId \in Errors \cup {None}
    /\ held \subseteq {"ofn", "props"} /\ boxes \in 0..1

Init ==
    /\ pc \in {"idle", "close"}
    /\ command = (IF pc = "idle" THEN None ELSE "start")
    /\ path \in (IF pc = "idle" THEN {None} ELSE Paths)
    /\ flag = "write" /\ db = NoFile /\ changed = FALSE
    /\ tree = None /\ enabled = FALSE /\ title = None
    /\ errMsgId = None /\ exit = FALSE /\ held = {} /\ boxes = 0

Shows(p, on) == tree' = p /\ enabled' = on
Goto(label) == pc' = label /\ UNCHANGED <<errMsgId, exit>>
Fail(error) == pc' = "end" /\ errMsgId' = error /\ UNCHANGED exit
Cancelled == pc' = "end" /\ exit' = TRUE /\ UNCHANGED errMsgId

window == <<tree, enabled, title>>
request == <<command, path, flag, held, boxes>>

-----------------------------------------------------------------------------
(* Between two commands                                                      *)

\* The user edits a file that is open for writing.
Edit ==
    /\ pc = "idle" /\ enabled /\ db.rw /\ changed' = TRUE
    /\ UNCHANGED <<pc, command, path, flag, db, window, errMsgId, exit, held, boxes>>

\* What the user changed is committed; a failing save leaves it changed.
AppSaveFile ==
    /\ pc = "idle" /\ changed /\ changed' = FALSE
    /\ UNCHANGED <<pc, command, path, flag, db, window, errMsgId, exit, held, boxes>>

MainWmCommand ==
    /\ pc = "idle" /\ pc' = "close" /\ path' = None /\ flag' = "write"
    /\ errMsgId' = None /\ exit' = FALSE /\ boxes' = 0
    /\ command' \in {"new", "open", "exit"} \cup (IF db # NoFile THEN {"close"} ELSE {})
    /\ UNCHANGED <<db, changed, window, held>>

\* What a command does when AppCloseFile returns.
AfterClose ==
    pc' = CASE command = "close" -> "idle" [] command = "exit" -> "gone"
            [] command = "start" -> "open" [] OTHER -> "name"

\* IDCANCEL leaves all as it was; the program then ends the command.
AppCloseFile ==
    /\ pc = "close"
    /\ \/ db = NoFile /\ AfterClose /\ UNCHANGED <<db, changed, window>>
       \/ db # NoFile /\ AfterClose /\ db' = NoFile /\ changed' = FALSE
          /\ Shows(None, FALSE) /\ title' = None
       \/ db # NoFile /\ changed /\ pc' = "idle" /\ UNCHANGED <<db, changed, window>>
    /\ UNCHANGED <<request, errMsgId, exit>>

-----------------------------------------------------------------------------
(* The name and the file                                                     *)

\* A string or memory may be missing.
CreateOpenFileNameInfo ==
    /\ pc = "name"
    /\ \/ held' = {"ofn"} /\ Goto("choose")
       \/ UNCHANGED held /\ Fail("UNEXPECTEDERROR")
    /\ UNCHANGED <<command, path, flag, boxes, db, changed, window>>

\* GetOpenFileName and GetSaveFileName return FALSE for Cancel and for errors;
\* CommDlgExtendedError tells them apart.  Only Open has a read-only box.
ChooseFile ==
    /\ pc = "choose"
    /\ \/ /\ path' \in Paths /\ flag' \in (IF command = "open" THEN {"read", "write"} ELSE {"write"})
          /\ Goto("open")
       \/ UNCHANGED <<path, flag>> /\ (Goto("end") \/ Fail("UNEXPECTEDERROR"))
    /\ UNCHANGED <<command, held, boxes, db, changed, window>>

\* The file may be one that cannot be written although it was asked for.
DbOpen ==
    /\ pc = "open"
    /\ \/ \E rw \in (IF flag = "write" THEN BOOLEAN ELSE {FALSE}), schema \in 0..2 :
             /\ db' = [NoFile EXCEPT !.path = path, !.rw = rw, !.schema = schema]
             /\ Goto(IF command = "new" THEN "props" ELSE "access")
       \/ /\ UNCHANGED db
          /\ Fail(IF command = "new" THEN "SAVEFILEFAILED" ELSE "OPENFILEFAILED")
    /\ UNCHANGED <<request, changed, window>>

\* Mutant: a file whose password is right is let in without its lock.
IsValidPassword_NoLock == db' = [db EXCEPT !.key = "right"]

\* VARESULT_OK: keyed, and locked when it can be written.  An empty file takes
\* any key for right.
IsValidPassword == db' = [db EXCEPT !.key = "right", !.locked = db.rw]

\* The key of the last attempt stays set: a wrong one, or the right one of a file
\* that is in use.
KeyTried == \E k \in {"unset", "right", "wrong"} : db' = [db EXCEPT !.key = k]

\* The dialog asks until IsValidPassword is satisfied, the user gives up or an
\* error ends it.
ShowFileAccess ==
    /\ pc = "access"
    /\ \/ IsValidPassword /\ Goto("version")
       \/ KeyTried /\ Cancelled
       \/ KeyTried /\ Fail("UNEXPECTEDERROR")
    /\ UNCHANGED <<request, changed, window>>

ShowFileProp ==
    /\ pc = "props"
    /\ \/ UNCHANGED held /\ Fail("UNEXPECTEDERROR")  \* CreateFilePropInfo
       \/ held' = held \cup {"props"} /\ (Goto("key") \/ Cancelled \/ Fail("UNEXPECTEDERROR"))
    /\ UNCHANGED <<command, path, flag, boxes, db, changed, window>>

\* DbKey, DbGetVersionInfo and DbAcquireExclusiveAccess of a new file, which may
\* be one that exists and has another password.
KeyNewFile ==
    /\ pc = "key"
    /\ \/ UNCHANGED db /\ Fail("SETKEYFAILED")
       \/ /\ db' = [db EXCEPT !.key = "wrong"]
          /\ Fail("FILEINUSE") \/ Fail("FILEORPASSWORDINVALID")
       \/ db' = [db EXCEPT !.key = "right"] /\ db.rw /\ Fail("FILEINUSE")
       \/ db' = [db EXCEPT !.key = "right", !.locked = db.rw] /\ Goto("version")
    /\ UNCHANGED <<request, changed, window>>

-----------------------------------------------------------------------------
(* Its version and its records                                               *)

AfterVersion == Goto(IF command = "new" THEN "details" ELSE "load")

\* A new file that cannot be written is not asked again.
GetVersion ==
    /\ pc = "version"
    /\ \/ command = "new" /\ db.rw /\ Fail("FILEORPASSWORDINVALID")
       \/ command # "new" /\ Fail("FILEVERSIONNOTSUPPORTED")
       \/ db.schema > DBSCHEMAVERSION /\ Fail("FILEVERSIONNOTSUPPORTED")
       \/ db.schema < DBSCHEMAVERSION /\ Goto("upgrade")
       \/ db.schema = DBSCHEMAVERSION /\ AfterVersion
    /\ UNCHANGED <<request, db, changed, window>>

\* Only version 0 is below DBSCHEMAVERSION, so the user is never asked.  What
\* DbUpgradeSchema changed before it failed is in the transaction.
Upgrade ==
    /\ pc = "upgrade"
    /\ \/ ~db.rw /\ UNCHANGED <<db, changed>> /\ Fail("READONLYFILESCHEMAUPDATE")
       \/ /\ db.rw /\ db' = [db EXCEPT !.schema = DBSCHEMAVERSION]
          /\ changed' = TRUE /\ AfterVersion
       \/ /\ db.rw /\ changed' \in BOOLEAN
          /\ UNCHANGED db /\ Fail("SCHEMAUPDATEFAILED")
    /\ UNCHANGED <<request, window>>

\* DbUpdateFileDetails: a failure is a warning and nothing else.
UpdateDetails ==
    /\ pc = "details" /\ changed' \in {changed, db.rw} /\ Goto("load")
    /\ UNCHANGED <<request, db, window>>

LoadRootNodes ==
    /\ pc = "load"
    /\ \/ Shows(db.path, TRUE) /\ Goto(IF command = "new" THEN "item" ELSE "end")
       \/ Shows(None, FALSE) /\ Fail("CORRUPTEDFILE")
    /\ UNCHANGED <<request, db, changed, title>>

\* A file without records gets one, whose insertion may fail.
NewItemOfNewFile ==
    /\ pc = "item" /\ changed' \in {changed, db.rw} /\ Goto("end")
    /\ UNCHANGED <<request, db, window>>

-----------------------------------------------------------------------------
(* The end of a command                                                      *)

\* SetAppTitle falls back to the program's name when it has no memory.
SetAppTitle(p) == title' \in {p, None}

\* Mutant: an error closes the file, leaving the dialog does not.
CloseUnopened_ErrorsOnly == errMsgId # None /\ db # NoFile

CloseUnopened == (errMsgId # None \/ exit) /\ db # NoFile

ReleaseBlocks == held' = {}

\* OpenDbFile returns the error to wWinMain, which shows nothing.
ErrorBox == boxes' = IF errMsgId # None /\ command # "start" THEN 1 ELSE 0

Finish ==
    /\ pc = "end" /\ pc' = "idle"
    /\ IF CloseUnopened
       THEN db' = NoFile /\ changed' = FALSE /\ UNCHANGED title
       ELSE UNCHANGED <<db, changed>>
            /\ IF db # NoFile THEN SetAppTitle(db.path) ELSE UNCHANGED title
    /\ ReleaseBlocks /\ ErrorBox
    /\ UNCHANGED <<command, path, flag, tree, enabled, errMsgId, exit>>

Next ==
    \/ Edit \/ AppSaveFile \/ MainWmCommand \/ AppCloseFile
    \/ CreateOpenFileNameInfo \/ ChooseFile \/ DbOpen
    \/ ShowFileAccess \/ ShowFileProp \/ KeyNewFile
    \/ GetVersion \/ Upgrade \/ UpdateDetails \/ LoadRootNodes \/ NewItemOfNewFile
    \/ Finish

Spec == Init /\ [][Next]_vars

-----------------------------------------------------------------------------
(* Properties                                                                *)

\* Records are shown, and the workspace takes input, only while their file is
\* open with the right password, in the version the program reads and, when it
\* can be written, locked against other programs (OpenFileInternal, AppNewFile).
ShownOnlyWhenSafe ==
    /\ enabled => tree # None
    /\ tree # None => /\ tree = db.path /\ db.key = "right"
                      /\ db.schema = DBSCHEMAVERSION
                      /\ (db.rw => db.locked)

\* Between two commands a file is open exactly when its records are shown and
\* can be edited: no failure, no dialog left and no cancelled question leaves
\* the connection and the workspace apart (AppNewFile, AppOpenFile).
WholeOrNothing ==
    pc = "idle" => /\ (db = NoFile) = (tree = None)
                   /\ (db = NoFile) = ~enabled

\* The title bar never names a file that is not the open one, in no dialog
\* either (SetAppTitle comes last in opening, before DbClose in closing).
TitleNamesFile == title # None => title = db.path

\* A command that was given a file and opened none has told the user why,
\* unless the user left it (errMsgId of AppNewFile and AppOpenFile).  Of a file
\* named on the command line nobody is told: AppBase.c:329 ignores the result.
FailureIsTold ==
    (pc = "idle" /\ command \in {"new", "open"} /\ path # None /\ db = NoFile /\ ~exit)
        => boxes = 1

\* Nothing is changed, by the upgrade neither, in a file that is not open for
\* writing, locked and decrypted.
ChangedOnlyLocked == changed => db.rw /\ db.locked /\ db.key = "right"

\* The block with the file's name and the one with the new password are freed
\* on every way out of a command (FreeBlock, DestroyFilePropInfo).
NothingHeld == pc = "idle" => held = {}

\* What is shown and changed belongs to a file that was let in completely, and the
\* title to the open one.
OpenIsSafe == ShownOnlyWhenSafe /\ ChangedOnlyLocked /\ TitleNamesFile

\* A command ends with all of it done or none, its memory released, and the user
\* told of what failed.
EndsWhole == WholeOrNothing /\ NothingHeld /\ FailureIsTold

\* A file is let go, and its lock with it, before another one is opened: two
\* connections are never held through the one handle e->db.
OneFileAtATime == [][pc = "open" => db = NoFile]_vars
=============================================================================
