------------------------------- MODULE Opening -------------------------------
(* FileOpening with its two dialogs: while OpenFileInternal waits in          *)
(* ShowFileAccess the password dialog of FileAccess.tla runs, and while       *)
(* AppNewFile waits in ShowFileProp, or FilePropertiesMsg shows an open file, *)
(* the property sheet of FileProperties.tla runs, each with its own message   *)
(* loop; the main window is disabled and keeps its state.  The result of the  *)
(* dialog decides how the command goes on.                                    *)
EXTENDS FileOpening

CONSTANTS
    Passwords, \* what may be typed as a password, without the empty text
    Key,       \* the password of the files
    Titles     \* titles, with the empty one

\* The password of a file is one that can be typed, and none is empty.
ASSUME KeyAssumption == Key \in Passwords /\ "" \notin Passwords

\* A file may be without a title.
ASSUME TitlesAssumption == "" \in Titles

VARIABLES
    empty, accessPc, field, checked, hidden, passwordChar, widePassBuffer,  \* FileAccess
    utf8PassBuffer, passLen, hasPass, answer, opened, accessResult,
    propPc, readonly, passExists, propTitle, cue, passwordLength,    \* FileProperties
    key, fields, titleField, buffers, propResult

dialogVars == <<accessPc, field, checked, hidden, passwordChar, widePassBuffer,
                utf8PassBuffer, passLen, hasPass, answer, opened, accessResult>>
accessVars == <<empty, dialogVars>>
propVars == <<propPc, readonly, passExists, propTitle, cue, passwordLength,
              key, fields, titleField, buffers, propResult>>
dialogs == <<accessVars, propVars>>

Access == INSTANCE FileAccess WITH pc <- accessPc, result <- accessResult
Props == INSTANCE FileProperties WITH pc <- propPc, title <- propTitle, result <- propResult

OpeningInit == Init /\ Access!Init /\ Props!Init

-----------------------------------------------------------------------------
(* Commands                                                                  *)

\* No property sheet of an open file is in front of the main window.
NoSheet == propPc \in {"start", "freed"}

\* A command that opens a file makes the dialogs' blocks anew.
NewDialogs ==
    /\ accessPc' = "start" /\ field' = "" /\ checked' = FALSE /\ hidden' = TRUE
    /\ passwordChar' = FALSE /\ widePassBuffer' = "" /\ utf8PassBuffer' = ""
    /\ passLen' \in BOOLEAN /\ hasPass' = FALSE
    /\ answer' = "none" /\ opened' = "" /\ accessResult' = "none"
    /\ propPc' = "start" /\ readonly' = FALSE /\ passExists' = FALSE
    /\ propTitle' = <<"", FALSE>> /\ titleField' = <<"", FALSE>>
    /\ cue' = [track |-> FALSE, hasText |-> <<FALSE, FALSE>>, shown |-> {}]
    /\ passwordLength' = FALSE /\ propResult' = "none"
    /\ UNCHANGED <<empty, key, fields, buffers>>

Begin == NoSheet /\ MainWmCommand /\ NewDialogs

\* The steps of a command outside its dialogs, and what the user does between
\* two commands.
Proceed ==
    /\ NoSheet \/ pc # "idle"
    /\ \/ Edit \/ AppSaveFile \/ AppCloseFile
       \/ CreateOpenFileNameInfo \/ ChooseFile
       \/ GetVersion \/ Upgrade \/ UpdateDetails \/ LoadRootNodes \/ NewItemOfNewFile
    /\ UNCHANGED dialogs

\* An empty file has no version yet, which reads as 0.
OpenConnection ==
    /\ DbOpen
    /\ empty' \in IF db'.schema = 0 THEN BOOLEAN ELSE {FALSE}
    /\ UNCHANGED <<dialogVars, propVars>>

-----------------------------------------------------------------------------
(* The password of a file that is opened                                     *)

AccessDialog == pc = "access" /\ Access!Next /\ UNCHANGED <<vars, propVars>>

\* IDOK, IDCANCEL or nothing; no key is set before the first OK of the user.
AccessReturns ==
    /\ accessPc = "freed" /\ ShowFileAccess
    /\ (pc' = "version") = (accessResult = "ok")
    /\ exit' = (accessResult = "cancel")
    /\ (answer = "none" => db' = db)
    /\ UNCHANGED dialogs

-----------------------------------------------------------------------------
(* The properties of a new file                                              *)

\* CreateFilePropInfo may find no memory.
PropsMissing ==
    /\ propPc = "start" /\ ShowFileProp /\ held' = held /\ UNCHANGED dialogs

PropsDialog ==
    /\ pc = "props" /\ propPc # "done" /\ Props!Next
    /\ ~readonly' /\ ~passExists'
    /\ UNCHANGED <<vars, accessVars>>

\* The result of ShowFileProp is positive, 0 or negative.
PropsReturns ==
    /\ propPc = "done" /\ ShowFileProp /\ held' # held
    /\ (pc' = "key") = (propResult = "ok")
    /\ exit' = (propResult = "cancel")
    /\ UNCHANGED dialogs

\* KeyNewFile reads the key of the sheet, which is still held.
KeyProceeds == KeyNewFile /\ UNCHANGED dialogs

\* The sheet's block is wiped and freed with the command.
FinishCommand ==
    /\ Finish
    /\ IF "props" \in held THEN Props!DestroyFilePropInfo ELSE UNCHANGED propVars
    /\ UNCHANGED accessVars

-----------------------------------------------------------------------------
(* The properties of an open file                                            *)

\* FilePropertiesMsg, with a new block; an error box before the sheet changes
\* nothing.
FilePropertiesMsg ==
    /\ pc = "idle" /\ NoSheet /\ db # NoFile
    /\ propPc' = "ready" /\ readonly' = ~db.rw /\ passExists' = TRUE
    /\ propTitle' \in Titles \X BOOLEAN /\ titleField' = <<"", FALSE>>
    /\ cue' = [track |-> FALSE, hasText |-> <<FALSE, FALSE>>, shown |-> {}]
    /\ passwordLength' = FALSE /\ propResult' = "none"
    /\ UNCHANGED <<vars, accessVars, key, fields, buffers>>

SheetOfOpenFile ==
    /\ pc = "idle" /\ propPc \in {"ready", "open"} /\ Props!Next
    /\ UNCHANGED <<vars, accessVars>>

\* Mutant: a read-only file's properties are written like any other's.
SheetReturns_ReadOnlyToo ==
    /\ pc = "idle" /\ propPc = "done" /\ Props!DestroyFilePropInfo
    /\ IF propResult = "ok"
       THEN changed' = TRUE /\ UNCHANGED <<pc, command, path, flag, db, window, errMsgId, exit, held, boxes>>
       ELSE UNCHANGED vars
    /\ UNCHANGED accessVars

\* OK on a file that can be written changes its title (or fails to); with a new
\* password the file is saved first, if the user agrees, and rekeyed.
SheetReturns ==
    /\ pc = "idle" /\ propPc = "done" /\ Props!DestroyFilePropInfo
    /\ \/ propResult = "ok" /\ ~readonly /\ Edit
       \/ propResult = "ok" /\ ~readonly /\ key # "" /\ AppSaveFile
       \/ UNCHANGED vars
    /\ UNCHANGED accessVars

OpeningNext ==
    \/ Begin \/ Proceed \/ OpenConnection
    \/ AccessDialog \/ AccessReturns
    \/ PropsMissing \/ PropsDialog \/ PropsReturns \/ KeyProceeds \/ FinishCommand
    \/ FilePropertiesMsg \/ SheetOfOpenFile \/ SheetReturns

OpeningSpec == OpeningInit /\ [][OpeningNext]_<<vars, dialogs>>

-----------------------------------------------------------------------------
(* Properties                                                                *)

\* The password dialog succeeds only with the password the file accepted last
\* (any but the empty one, if the file is empty), which is the one in its field,
\* and its buffers hold a password only while the file is asked; the sheet's key
\* is one that was typed twice, a new file gets one, and the cue "leave blank to
\* keep" stands for a password that is kept (FileAccessWindow.c,
\* FilePropertiesWindow.c).
DialogsRight ==
    /\ Access!TypeOK /\ Access!OkMeansAccepted /\ Access!PasswordOnlyWhileAsked
    /\ Props!TypeOK /\ Props!KeyIsTypedTwice /\ Props!NewFileGetsPassword
    /\ Props!CueMeansKeep

\* A file that was opened got to its version with its own password typed, or
\* with any but the empty one if it was empty, a new one to its key with a
\* password typed twice and still in the sheet's block: no other way through the
\* dialogs leads there (OpenFileInternal, AppNewFile).
LetInByPassword ==
    /\ pc \in {"version", "upgrade", "load"} /\ command # "new" => Access!Opens(opened)
    /\ pc = "key" => key # "" /\ fields = <<key, key>>

\* Between two commands, whatever was typed, refused, accepted or cancelled in
\* them, no password is left in a field, a buffer or a freed block; and after a
\* refused attempt none is left unseen in a field that hides its text.
SecretsGone ==
    /\ [](pc = "idle" /\ NoSheet =>
             /\ field = "" /\ widePassBuffer = "" /\ utf8PassBuffer = ""
             /\ buffers = {} /\ key = "" /\ fields = <<"", "">>)
    /\ Access!NoHiddenLeftover

\* With its dialogs run step by step a command does what FileOpening says, where
\* each dialog is one step with any outcome: what is proved there holds here.
ImplementsFileOpening == Spec
=============================================================================
