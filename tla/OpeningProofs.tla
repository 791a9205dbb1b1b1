--------------------------- MODULE OpeningProofs ---------------------------
(***************************************************************************)
(* However a command that opens a file ends, the window and the connection *)
(* agree, for every set of files.  Three parts:                            *)
(*   - the command without its dialogs (FileOpening): the invariant says   *)
(*     for each call of the sequence what has been shown, keyed and locked *)
(*     when it is reached;                                                 *)
(*   - with the password dialog and the property sheet run step by step    *)
(*     the commands are those of FileOpening seen from outside, so that    *)
(*     what is proved of FileOpening holds while the dialogs are open;     *)
(*   - the dialogs: what each keeps to itself, and where both are before   *)
(*     each call of a command.                                             *)
(***************************************************************************)
EXTENDS Opening, TLAPS

NothingShown == tree = None /\ ~enabled /\ title = None
AllShown == db # NoFile /\ tree = db.path /\ enabled
Succeeding == errMsgId = None /\ ~exit

\* What the window shows before each call.
Between == pc \in {"idle", "close"} => (db = NoFile /\ NothingShown) \/ AllShown
Naming == pc \in {"name", "choose", "open", "gone"} => db = NoFile /\ NothingShown
Entering ==
    pc \in {"access", "props", "key", "version", "upgrade", "details", "load"}
        => db # NoFile /\ NothingShown
Entered == pc = "item" => AllShown /\ title = None
Failed == pc = "end" /\ ~Succeeding => NothingShown
Ending == pc = "end" /\ Succeeding => title = None /\ ((db = NoFile /\ NothingShown) \/ AllShown)
NoErrorYet == pc \notin {"idle", "end", "gone"} => Succeeding
Phase == Between /\ Naming /\ Entering /\ Entered /\ Failed /\ Ending /\ NoErrorYet

\* How far the file is let in before each call.
LetIn ==
    /\ (pc \in {"access", "props", "key"} => db.key = "unset")
    /\ (pc \in {"version", "upgrade", "details", "load", "item"} \/ tree # None
          => db.key = "right" /\ (db.rw => db.locked))
    /\ (pc \in {"details", "load", "item"} \/ tree # None => db.schema = DBSCHEMAVERSION)

\* A command that has its file's name succeeds only with the file open.
Told ==
    /\ (pc \in {"name", "choose"} => path = None)
    /\ (pc = "open" \/ (pc = "close" /\ command = "start") => path # None)
    /\ (pc = "close" /\ command # "start" => path = None)
    /\ (pc = "end" /\ path # None /\ Succeeding => db # NoFile)
    /\ (pc \in {"close", "gone"} => held = {})

IInv == TypeOK /\ Phase /\ LetIn /\ TitleNamesFile /\ ChangedOnlyLocked
          /\ Told /\ FailureIsTold /\ NothingHeld

-----------------------------------------------------------------------------
\* NULL is no file.
LEMMA NoFileIsNone == NoFile \notin Files
BY PathsAssumption DEF NoFile, Files, None

\* A file stays one when its key and its lock are set.
LEMMA SetKey ==
  ASSUME NEW f \in Files, NEW k \in {"unset", "right", "wrong"}, NEW l \in BOOLEAN
  PROVE  /\ [f EXCEPT !.key = k] \in Files
         /\ [f EXCEPT !.key = k, !.locked = l] \in Files
BY DEF Files

\* A handle is NULL or a file, whose fields have their types either way.
LEMMA HandleTypes ==
  ASSUME TypeOK
  PROVE  /\ db.rw \in BOOLEAN /\ db.locked \in BOOLEAN
         /\ (db # NoFile => db \in Files /\ db.path \in Paths)
<1>1. db = NoFile \/ db \in Files
  BY DEF TypeOK
<1>2. NoFile.rw \in BOOLEAN /\ NoFile.locked \in BOOLEAN
  BY DEF NoFile
<1>3. db \in Files => db.rw \in BOOLEAN /\ db.locked \in BOOLEAN /\ db.path \in Paths
  BY DEF Files
<1> QED BY <1>1, <1>2, <1>3

-----------------------------------------------------------------------------
\* At first no file is open and nothing is shown.
LEMMA InitIInv == Init => IInv
<1> SUFFICES ASSUME Init PROVE IInv
  OBVIOUS
<1>1. TypeOK
  <2>1. /\ pc \in {"idle", "close"} /\ command \in {None, "start"} /\ path \in Paths \cup {None}
        /\ flag = "write" /\ db = NoFile /\ errMsgId = None /\ held = {} /\ boxes = 0
    BY DEF Init
  <2>2. /\ changed \in BOOLEAN /\ enabled \in BOOLEAN /\ exit \in BOOLEAN
        /\ tree = None /\ title = None
    BY DEF Init
  <2> QED BY <2>1, <2>2 DEF TypeOK
<1> USE PathsAssumption DEF Init, None, NoFile
<1>2. Phase /\ LetIn /\ Told
  BY DEF Phase, Between, Naming, Entering, Entered, Failed, Ending, NoErrorYet, LetIn, Told,
         NothingShown, Succeeding
<1>3. TitleNamesFile /\ ChangedOnlyLocked /\ FailureIsTold /\ NothingHeld
  BY DEF TitleNamesFile, ChangedOnlyLocked, FailureIsTold, NothingHeld
<1> QED BY <1>1, <1>2, <1>3 DEF IInv

\* Typing changes a file that is shown.
LEMMA EditKeeps ==
  ASSUME IInv, Edit
  PROVE  IInv'
<1> USE PathsAssumption DEF Edit,
        None, NoFile, DBSCHEMAVERSION, request, window
<1>1. TypeOK'
  <2>1. db' \in Files \cup {NoFile}
    BY DEF IInv, TypeOK, Files
  <2>2. changed' \in BOOLEAN /\ enabled' \in BOOLEAN /\ exit' \in BOOLEAN
    BY DEF IInv, TypeOK, Files
  <2>3. tree' \in Paths \cup {None} /\ title' \in Paths \cup {None}
    BY DEF IInv, TypeOK, Files, Phase, Entering
  <2>4. errMsgId' \in Errors \cup {None} /\ held' \subseteq {"ofn", "props"} /\ boxes' \in 0..1
    BY DEF IInv, TypeOK, Errors
  <2> QED BY <2>1, <2>2, <2>3, <2>4 DEF IInv, TypeOK
<1>2. Phase'
  <2>1. Between' /\ Naming'
    BY DEF IInv, Files, TypeOK, Phase, Between, Naming, Entered, Failed, Ending,
           NothingShown, AllShown, Succeeding, TitleNamesFile
  <2>2. Entering' /\ Entered'
    BY DEF IInv, Files, TypeOK, Phase, Entering, Entered, Naming, NothingShown, AllShown
  <2>3. Failed' /\ Ending'
    BY DEF IInv, Phase, Naming, Entering, Entered, NoErrorYet, Failed, Ending,
           NothingShown, AllShown, Succeeding
  <2>4. NoErrorYet'
    BY DEF IInv, Phase, NoErrorYet, Succeeding
  <2> QED BY <2>1, <2>2, <2>3, <2>4 DEF Phase
<1>3. LetIn'
  BY DEF IInv, TypeOK, Files, Phase, Between, Naming, Entering, Entered, LetIn,
         NothingShown, AllShown
<1>4. TitleNamesFile' /\ ChangedOnlyLocked'
  BY DEF IInv, TypeOK, Files, Phase, Entering, Ending, LetIn, TitleNamesFile,
         ChangedOnlyLocked,
         NothingShown, AllShown, Succeeding, Naming, Between, Entered
<1>5. Told'
  BY DEF IInv, TypeOK, Phase, Entering, NoErrorYet, Told, NothingHeld, Succeeding, Errors
<1>6. FailureIsTold' /\ NothingHeld'
  BY DEF IInv, Phase, Told, FailureIsTold, NothingHeld, Succeeding
<1> QED BY <1>1, <1>2, <1>3, <1>4, <1>5, <1>6 DEF IInv

\* Saving leaves nothing changed.
LEMMA AppSaveFileKeeps ==
  ASSUME IInv, AppSaveFile
  PROVE  IInv'
<1> USE PathsAssumption DEF AppSaveFile,
        None, NoFile, DBSCHEMAVERSION, request, window
<1>1. TypeOK'
  <2>1. db' \in Files \cup {NoFile}
    BY DEF IInv, TypeOK, Files
  <2>2. changed' \in BOOLEAN /\ enabled' \in BOOLEAN /\ exit' \in BOOLEAN
    BY DEF IInv, TypeOK, Files
  <2>3. tree' \in Paths \cup {None} /\ title' \in Paths \cup {None}
    BY DEF IInv, TypeOK, Files, Phase, Entering
  <2>4. errMsgId' \in Errors \cup {None} /\ held' \subseteq {"ofn", "props"} /\ boxes' \in 0..1
    BY DEF IInv, TypeOK, Errors
  <2> QED BY <2>1, <2>2, <2>3, <2>4 DEF IInv, TypeOK
<1>2. Phase'
  <2>1. Between' /\ Naming'
    BY DEF IInv, Files, TypeOK, Phase, Between, Naming, Entered, Failed, Ending,
           NothingShown, AllShown, Succeeding, TitleNamesFile
  <2>2. Entering' /\ Entered'
    BY DEF IInv, Files, TypeOK, Phase, Entering, Entered, Naming, NothingShown, AllShown
  <2>3. Failed' /\ Ending'
    BY DEF IInv, Phase, Naming, Entering, Entered, NoErrorYet, Failed, Ending,
           NothingShown, AllShown, Succeeding
  <2>4. NoErrorYet'
    BY DEF IInv, Phase, NoErrorYet, Succeeding
  <2> QED BY <2>1, <2>2, <2>3, <2>4 DEF Phase
<1>3. LetIn'
  BY DEF IInv, TypeOK, Files, Phase, Between, Naming, Entering, Entered, LetIn,
         NothingShown, AllShown
<1>4. TitleNamesFile' /\ ChangedOnlyLocked'
  BY DEF IInv, TypeOK, Files, Phase, Entering, Ending, LetIn, TitleNamesFile,
         ChangedOnlyLocked,
         NothingShown, AllShown, Succeeding, Naming, Between, Entered
<1>5. Told'
  BY DEF IInv, TypeOK, Phase, Entering, NoErrorYet, Told, NothingHeld, Succeeding, Errors
<1>6. FailureIsTold' /\ NothingHeld'
  BY DEF IInv, Phase, Told, FailureIsTold, NothingHeld, Succeeding
<1> QED BY <1>1, <1>2, <1>3, <1>4, <1>5, <1>6 DEF IInv

\* A command starts between two others.
LEMMA MainWmCommandKeeps ==
  ASSUME IInv, MainWmCommand
  PROVE  IInv'
<1> USE PathsAssumption DEF MainWmCommand,
        None, NoFile, DBSCHEMAVERSION, request, window
<1>1. TypeOK'
  <2>1. db' \in Files \cup {NoFile}
    BY DEF IInv, TypeOK, Files
  <2>2. changed' \in BOOLEAN /\ enabled' \in BOOLEAN /\ exit' \in BOOLEAN
    BY DEF IInv, TypeOK, Files
  <2>3. tree' \in Paths \cup {None} /\ title' \in Paths \cup {None}
    BY DEF IInv, TypeOK, Files, Phase, Entering
  <2>4. errMsgId' \in Errors \cup {None} /\ held' \subseteq {"ofn", "props"} /\ boxes' \in 0..1
    BY DEF IInv, TypeOK, Errors
  <2> QED BY <2>1, <2>2, <2>3, <2>4 DEF IInv, TypeOK
<1>2. Phase'
  <2>1. Between' /\ Naming'
    BY DEF IInv, Files, TypeOK, Phase, Between, Naming, Entered, Failed, Ending,
           NothingShown, AllShown, Succeeding, TitleNamesFile
  <2>2. Entering' /\ Entered'
    BY DEF IInv, Files, TypeOK, Phase, Entering, Entered, Naming, NothingShown, AllShown
  <2>3. Failed' /\ Ending'
    BY DEF IInv, Phase, Naming, Entering, Entered, NoErrorYet, Failed, Ending,
           NothingShown, AllShown, Succeeding
  <2>4. NoErrorYet'
    BY DEF IInv, Phase, NoErrorYet, Succeeding
  <2> QED BY <2>1, <2>2, <2>3, <2>4 DEF Phase
<1>3. LetIn'
  BY DEF IInv, TypeOK, Files, Phase, Between, Naming, Entering, Entered, LetIn,
         NothingShown, AllShown
<1>4. TitleNamesFile' /\ ChangedOnlyLocked'
  BY DEF IInv, TypeOK, Files, Phase, Entering, Ending, LetIn, TitleNamesFile,
         ChangedOnlyLocked,
         NothingShown, AllShown, Succeeding, Naming, Between, Entered
<1>5. Told'
  BY DEF IInv, TypeOK, Phase, Entering, NoErrorYet, Told, NothingHeld, Succeeding, Errors
<1>6. FailureIsTold' /\ NothingHeld'
  BY DEF IInv, Phase, Told, FailureIsTold, NothingHeld, Succeeding
<1> QED BY <1>1, <1>2, <1>3, <1>4, <1>5, <1>6 DEF IInv

\* The file that was open goes, or stays as it is.
LEMMA AppCloseFileKeeps ==
  ASSUME IInv, AppCloseFile
  PROVE  IInv'
<1> USE PathsAssumption DEF AppCloseFile, AfterClose, Shows,
        None, NoFile, DBSCHEMAVERSION, request, window
<1>1. TypeOK'
  <2>1. db' \in Files \cup {NoFile}
    BY DEF IInv, TypeOK, Files
  <2>2. changed' \in BOOLEAN /\ enabled' \in BOOLEAN /\ exit' \in BOOLEAN
    BY DEF IInv, TypeOK, Files
  <2>3. tree' \in Paths \cup {None} /\ title' \in Paths \cup {None}
    BY DEF IInv, TypeOK, Files, Phase, Entering
  <2>4. errMsgId' \in Errors \cup {None} /\ held' \subseteq {"ofn", "props"} /\ boxes' \in 0..1
    BY DEF IInv, TypeOK, Errors
  <2> QED BY <2>1, <2>2, <2>3, <2>4 DEF IInv, TypeOK
<1>2. Phase'
  <2>1. Between' /\ Naming'
    BY DEF IInv, Files, TypeOK, Phase, Between, Naming, Entered, Failed, Ending,
           NothingShown, AllShown, Succeeding, TitleNamesFile
  <2>2. Entering' /\ Entered'
    BY DEF IInv, Files, TypeOK, Phase, Entering, Entered, Naming, NothingShown, AllShown
  <2>3. Failed' /\ Ending'
    BY DEF IInv, Phase, Naming, Entering, Entered, NoErrorYet, Failed, Ending,
           NothingShown, AllShown, Succeeding
  <2>4. NoErrorYet'
    BY DEF IInv, Phase, NoErrorYet, Succeeding
  <2> QED BY <2>1, <2>2, <2>3, <2>4 DEF Phase
<1>3. LetIn'
  BY DEF IInv, TypeOK, Files, Phase, Between, Naming, Entering, Entered, LetIn,
         NothingShown, AllShown
<1>4. TitleNamesFile' /\ ChangedOnlyLocked'
  BY DEF IInv, TypeOK, Files, Phase, Entering, Ending, LetIn, TitleNamesFile,
         ChangedOnlyLocked,
         NothingShown, AllShown, Succeeding, Naming, Between, Entered
<1>5. Told'
  BY DEF IInv, TypeOK, Phase, Entering, NoErrorYet, Told, NothingHeld, Succeeding, Errors
<1>6. FailureIsTold' /\ NothingHeld'
  BY DEF IInv, Phase, Told, FailureIsTold, NothingHeld, Succeeding
<1> QED BY <1>1, <1>2, <1>3, <1>4, <1>5, <1>6 DEF IInv

\* The file dialog's block is there or not.
LEMMA CreateOpenFileNameInfoKeeps ==
  ASSUME IInv, CreateOpenFileNameInfo
  PROVE  IInv'
<1> USE PathsAssumption DEF CreateOpenFileNameInfo, Goto, Fail,
        None, NoFile, DBSCHEMAVERSION, request, window
<1>1. TypeOK'
  <2>1. db' \in Files \cup {NoFile}
    BY DEF IInv, TypeOK, Files
  <2>2. changed' \in BOOLEAN /\ enabled' \in BOOLEAN /\ exit' \in BOOLEAN
    BY DEF IInv, TypeOK, Files
  <2>3. tree' \in Paths \cup {None} /\ title' \in Paths \cup {None}
    BY DEF IInv, TypeOK, Files, Phase, Entering
  <2>4. errMsgId' \in Errors \cup {None} /\ held' \subseteq {"ofn", "props"} /\ boxes' \in 0..1
    BY DEF IInv, TypeOK, Errors
  <2> QED BY <2>1, <2>2, <2>3, <2>4 DEF IInv, TypeOK
<1>2. Phase'
  <2>1. Between' /\ Naming'
    BY DEF IInv, Files, TypeOK, Phase, Between, Naming, Entered, Failed, Ending,
           NothingShown, AllShown, Succeeding, TitleNamesFile
  <2>2. Entering' /\ Entered'
    BY DEF IInv, Files, TypeOK, Phase, Entering, Entered, Naming, NothingShown, AllShown
  <2>3. Failed' /\ Ending'
    BY DEF IInv, Phase, Naming, Entering, Entered, NoErrorYet, Failed, Ending,
           NothingShown, AllShown, Succeeding
  <2>4. NoErrorYet'
    BY DEF IInv, Phase, NoErrorYet, Succeeding
  <2> QED BY <2>1, <2>2, <2>3, <2>4 DEF Phase
<1>3. LetIn'
  BY DEF IInv, TypeOK, Files, Phase, Between, Naming, Entering, Entered, LetIn,
         NothingShown, AllShown
<1>4. TitleNamesFile' /\ ChangedOnlyLocked'
  BY DEF IInv, TypeOK, Files, Phase, Entering, Ending, LetIn, TitleNamesFile,
         ChangedOnlyLocked,
         NothingShown, AllShown, Succeeding, Naming, Between, Entered
<1>5. Told'
  BY DEF IInv, TypeOK, Phase, Entering, NoErrorYet, Told, NothingHeld, Succeeding, Errors
<1>6. FailureIsTold' /\ NothingHeld'
  BY DEF IInv, Phase, Told, FailureIsTold, NothingHeld, Succeeding
<1> QED BY <1>1, <1>2, <1>3, <1>4, <1>5, <1>6 DEF IInv

\* A name is chosen.
LEMMA ChooseFileKeeps ==
  ASSUME IInv, ChooseFile
  PROVE  IInv'
<1> USE PathsAssumption DEF ChooseFile, Goto, Fail,
        None, NoFile, DBSCHEMAVERSION, request, window
<1>1. TypeOK'
  <2>1. db' \in Files \cup {NoFile}
    BY DEF IInv, TypeOK, Files
  <2>2. changed' \in BOOLEAN /\ enabled' \in BOOLEAN /\ exit' \in BOOLEAN
    BY DEF IInv, TypeOK, Files
  <2>3. tree' \in Paths \cup {None} /\ title' \in Paths \cup {None}
    BY DEF IInv, TypeOK, Files, Phase, Entering
  <2>4. errMsgId' \in Errors \cup {None} /\ held' \subseteq {"ofn", "props"} /\ boxes' \in 0..1
    BY DEF IInv, TypeOK, Errors
  <2> QED BY <2>1, <2>2, <2>3, <2>4 DEF IInv, TypeOK
<1>2. Phase'
  <2>1. Between' /\ Naming'
    BY DEF IInv, Files, TypeOK, Phase, Between, Naming, Entered, Failed, Ending,
           NothingShown, AllShown, Succeeding, TitleNamesFile
  <2>2. Entering' /\ Entered'
    BY DEF IInv, Files, TypeOK, Phase, Entering, Entered, Naming, NothingShown, AllShown
  <2>3. Failed' /\ Ending'
    BY DEF IInv, Phase, Naming, Entering, Entered, NoErrorYet, Failed, Ending,
           NothingShown, AllShown, Succeeding
  <2>4. NoErrorYet'
    BY DEF IInv, Phase, NoErrorYet, Succeeding
  <2> QED BY <2>1, <2>2, <2>3, <2>4 DEF Phase
<1>3. LetIn'
  BY DEF IInv, TypeOK, Files, Phase, Between, Naming, Entering, Entered, LetIn,
         NothingShown, AllShown
<1>4. TitleNamesFile' /\ ChangedOnlyLocked'
  BY DEF IInv, TypeOK, Files, Phase, Entering, Ending, LetIn, TitleNamesFile,
         ChangedOnlyLocked,
         NothingShown, AllShown, Succeeding, Naming, Between, Entered
<1>5. Told'
  BY DEF IInv, TypeOK, Phase, Entering, NoErrorYet, Told, NothingHeld, Succeeding, Errors
<1>6. FailureIsTold' /\ NothingHeld'
  BY DEF IInv, Phase, Told, FailureIsTold, NothingHeld, Succeeding
<1> QED BY <1>1, <1>2, <1>3, <1>4, <1>5, <1>6 DEF IInv

\* The file is opened.
LEMMA DbOpenKeeps ==
  ASSUME IInv, DbOpen
  PROVE  IInv'
<1> USE PathsAssumption DEF DbOpen, Goto, Fail,
        None, NoFile, DBSCHEMAVERSION, request, window
<1>0. (UNCHANGED db /\ pc' = "end") \/ (db' \in Files /\ pc' \in {"access", "props"})
  <2>1. path \in Paths
    <3>1. path \in Paths \cup {None}
      BY DEF IInv, TypeOK
    <3>2. path # None
      BY DEF IInv, Told
    <3> QED BY <3>1, <3>2
  <2>2. ASSUME NEW rw \in BOOLEAN, NEW schema \in 0..2
        PROVE  [NoFile EXCEPT !.path = path, !.rw = rw, !.schema = schema] \in Files
    BY <2>1 DEF Files
  <2> QED BY <2>2
<1>1. TypeOK'
  <2>1. db' \in Files \cup {NoFile}
    BY <1>0 DEF IInv, TypeOK
  <2>2. changed' \in BOOLEAN /\ enabled' \in BOOLEAN /\ exit' \in BOOLEAN
    BY DEF IInv, TypeOK, Files
  <2>3. tree' \in Paths \cup {None} /\ title' \in Paths \cup {None}
    BY DEF IInv, TypeOK, Files, Phase, Entering
  <2>4. errMsgId' \in Errors \cup {None} /\ held' \subseteq {"ofn", "props"} /\ boxes' \in 0..1
    BY DEF IInv, TypeOK, Errors
  <2> QED BY <2>1, <2>2, <2>3, <2>4 DEF IInv, TypeOK
<1>2. Phase'
  <2>1. Between' /\ Naming'
    BY DEF IInv, Files, TypeOK, Phase, Between, Naming, Entered, Failed, Ending,
           NothingShown, AllShown, Succeeding, TitleNamesFile
  <2>2. Entering' /\ Entered'
    <3>1. NothingShown'
      BY DEF IInv, Phase, Naming, NothingShown
    <3> QED BY <1>0, <3>1, NoFileIsNone DEF Entering, Entered
  <2>3. Failed' /\ Ending'
    BY DEF IInv, Phase, Naming, Entering, Entered, NoErrorYet, Failed, Ending,
           NothingShown, AllShown, Succeeding
  <2>4. NoErrorYet'
    BY DEF IInv, Phase, NoErrorYet, Succeeding
  <2> QED BY <2>1, <2>2, <2>3, <2>4 DEF Phase
<1>3. LetIn'
  BY DEF IInv, TypeOK, Files, Phase, Between, Naming, Entering, Entered, LetIn,
         NothingShown, AllShown
<1>4. TitleNamesFile' /\ ChangedOnlyLocked'
  BY DEF IInv, TypeOK, Files, Phase, Entering, Ending, LetIn, TitleNamesFile,
         ChangedOnlyLocked,
         NothingShown, AllShown, Succeeding, Naming, Between, Entered
<1>5. Told'
  BY DEF IInv, TypeOK, Phase, Entering, NoErrorYet, Told, NothingHeld, Succeeding, Errors
<1>6. FailureIsTold' /\ NothingHeld'
  BY DEF IInv, Phase, Told, FailureIsTold, NothingHeld, Succeeding
<1> QED BY <1>1, <1>2, <1>3, <1>4, <1>5, <1>6 DEF IInv

\* The password of an existing file.
LEMMA ShowFileAccessKeeps ==
  ASSUME IInv, ShowFileAccess
  PROVE  IInv'
<1> USE PathsAssumption DEF ShowFileAccess, IsValidPassword, KeyTried, Goto, Cancelled, Fail,
        None, NoFile, DBSCHEMAVERSION, request, window
<1>0. db' \in Files
  <2>1. db \in Files /\ db.rw \in BOOLEAN
    BY HandleTypes DEF IInv, Phase, Entering
  <2> QED BY <2>1, SetKey
<1>1. TypeOK'
  <2>2. changed' \in BOOLEAN /\ enabled' \in BOOLEAN /\ exit' \in BOOLEAN
    BY DEF IInv, TypeOK, Files
  <2>3. tree' \in Paths \cup {None} /\ title' \in Paths \cup {None}
    BY DEF IInv, TypeOK, Files, Phase, Entering
  <2>4. errMsgId' \in Errors \cup {None} /\ held' \subseteq {"ofn", "props"} /\ boxes' \in 0..1
    BY DEF IInv, TypeOK, Errors
  <2> QED BY <1>0, <2>2, <2>3, <2>4 DEF IInv, TypeOK
<1>2. Phase'
  <2>1. Between' /\ Naming'
    BY DEF IInv, Files, TypeOK, Phase, Between, Naming, Entered, Failed, Ending,
           NothingShown, AllShown, Succeeding, TitleNamesFile
  <2>2. Entering' /\ Entered'
    BY <1>0, NoFileIsNone DEF IInv, Phase, Entering, Entered, NothingShown
  <2>3. Failed' /\ Ending'
    BY DEF IInv, Phase, Naming, Entering, Entered, NoErrorYet, Failed, Ending,
           NothingShown, AllShown, Succeeding
  <2>4. NoErrorYet'
    BY DEF IInv, Phase, NoErrorYet, Succeeding
  <2> QED BY <2>1, <2>2, <2>3, <2>4 DEF Phase
<1>3. LetIn'
  BY DEF IInv, TypeOK, Files, Phase, Between, Naming, Entering, Entered, LetIn,
         NothingShown, AllShown
<1>4. TitleNamesFile' /\ ChangedOnlyLocked'
  BY DEF IInv, TypeOK, Files, Phase, Entering, Ending, LetIn, TitleNamesFile,
         ChangedOnlyLocked,
         NothingShown, AllShown, Succeeding, Naming, Between, Entered
<1>5. Told'
  BY DEF IInv, TypeOK, Phase, Entering, NoErrorYet, Told, NothingHeld, Succeeding, Errors
<1>6. FailureIsTold' /\ NothingHeld'
  BY DEF IInv, Phase, Told, FailureIsTold, NothingHeld, Succeeding
<1> QED BY <1>1, <1>2, <1>3, <1>4, <1>5, <1>6 DEF IInv

\* The properties of a new one.
LEMMA ShowFilePropKeeps ==
  ASSUME IInv, ShowFileProp
  PROVE  IInv'
<1> USE PathsAssumption DEF ShowFileProp, Goto, Cancelled, Fail,
        None, NoFile, DBSCHEMAVERSION, request, window
<1>1. TypeOK'
  <2>1. db' \in Files \cup {NoFile}
    BY DEF IInv, TypeOK, Files
  <2>2. changed' \in BOOLEAN /\ enabled' \in BOOLEAN /\ exit' \in BOOLEAN
    BY DEF IInv, TypeOK, Files
  <2>3. tree' \in Paths \cup {None} /\ title' \in Paths \cup {None}
    BY DEF IInv, TypeOK, Files, Phase, Entering
  <2>4. errMsgId' \in Errors \cup {None} /\ held' \subseteq {"ofn", "props"} /\ boxes' \in 0..1
    BY DEF IInv, TypeOK, Errors
  <2> QED BY <2>1, <2>2, <2>3, <2>4 DEF IInv, TypeOK
<1>2. Phase'
  <2>1. Between' /\ Naming'
    BY DEF IInv, Files, TypeOK, Phase, Between, Naming, Entered, Failed, Ending,
           NothingShown, AllShown, Succeeding, TitleNamesFile
  <2>2. Entering' /\ Entered'
    BY DEF IInv, Files, TypeOK, Phase, Entering, Entered, Naming, NothingShown, AllShown
  <2>3. Failed' /\ Ending'
    BY DEF IInv, Phase, Naming, Entering, Entered, NoErrorYet, Failed, Ending,
           NothingShown, AllShown, Succeeding
  <2>4. NoErrorYet'
    BY DEF IInv, Phase, NoErrorYet, Succeeding
  <2> QED BY <2>1, <2>2, <2>3, <2>4 DEF Phase
<1>3. LetIn'
  BY DEF IInv, TypeOK, Files, Phase, Between, Naming, Entering, Entered, LetIn,
         NothingShown, AllShown
<1>4. TitleNamesFile' /\ ChangedOnlyLocked'
  BY DEF IInv, TypeOK, Files, Phase, Entering, Ending, LetIn, TitleNamesFile,
         ChangedOnlyLocked,
         NothingShown, AllShown, Succeeding, Naming, Between, Entered
<1>5. Told'
  BY DEF IInv, TypeOK, Phase, Entering, NoErrorYet, Told, NothingHeld, Succeeding, Errors
<1>6. FailureIsTold' /\ NothingHeld'
  BY DEF IInv, Phase, Told, FailureIsTold, NothingHeld, Succeeding
<1> QED BY <1>1, <1>2, <1>3, <1>4, <1>5, <1>6 DEF IInv

\* Its key, and its lock.
LEMMA KeyNewFileKeeps ==
  ASSUME IInv, KeyNewFile
  PROVE  IInv'
<1> USE PathsAssumption DEF KeyNewFile, Goto, Fail,
        None, NoFile, DBSCHEMAVERSION, request, window
<1>0. db' \in Files
  <2>1. db \in Files /\ db.rw \in BOOLEAN
    BY HandleTypes DEF IInv, Phase, Entering
  <2> QED BY <2>1, SetKey
<1>1. TypeOK'
  <2>2. changed' \in BOOLEAN /\ enabled' \in BOOLEAN /\ exit' \in BOOLEAN
    BY DEF IInv, TypeOK, Files
  <2>3. tree' \in Paths \cup {None} /\ title' \in Paths \cup {None}
    BY DEF IInv, TypeOK, Files, Phase, Entering
  <2>4. errMsgId' \in Errors \cup {None} /\ held' \subseteq {"ofn", "props"} /\ boxes' \in 0..1
    BY DEF IInv, TypeOK, Errors
  <2> QED BY <1>0, <2>2, <2>3, <2>4 DEF IInv, TypeOK
<1>2. Phase'
  <2>1. Between' /\ Naming'
    BY DEF IInv, Files, TypeOK, Phase, Between, Naming, Entered, Failed, Ending,
           NothingShown, AllShown, Succeeding, TitleNamesFile
  <2>2. Entering' /\ Entered'
    BY <1>0, NoFileIsNone DEF IInv, Phase, Entering, Entered, NothingShown
  <2>3. Failed' /\ Ending'
    BY DEF IInv, Phase, Naming, Entering, Entered, NoErrorYet, Failed, Ending,
           NothingShown, AllShown, Succeeding
  <2>4. NoErrorYet'
    BY DEF IInv, Phase, NoErrorYet, Succeeding
  <2> QED BY <2>1, <2>2, <2>3, <2>4 DEF Phase
<1>3. LetIn'
  BY DEF IInv, TypeOK, Files, Phase, Between, Naming, Entering, Entered, LetIn,
         NothingShown, AllShown
<1>4. TitleNamesFile' /\ ChangedOnlyLocked'
  BY DEF IInv, TypeOK, Files, Phase, Entering, Ending, LetIn, TitleNamesFile,
         ChangedOnlyLocked,
         NothingShown, AllShown, Succeeding, Naming, Between, Entered
<1>5. Told'
  BY DEF IInv, TypeOK, Phase, Entering, NoErrorYet, Told, NothingHeld, Succeeding, Errors
<1>6. FailureIsTold' /\ NothingHeld'
  BY DEF IInv, Phase, Told, FailureIsTold, NothingHeld, Succeeding
<1> QED BY <1>1, <1>2, <1>3, <1>4, <1>5, <1>6 DEF IInv

\* The version.
LEMMA GetVersionKeeps ==
  ASSUME IInv, GetVersion
  PROVE  IInv'
<1> USE PathsAssumption DEF GetVersion, AfterVersion, Goto, Fail,
        None, NoFile, DBSCHEMAVERSION, request, window
<1>1. TypeOK'
  <2>1. db' \in Files \cup {NoFile}
    BY DEF IInv, TypeOK, Files
  <2>2. changed' \in BOOLEAN /\ enabled' \in BOOLEAN /\ exit' \in BOOLEAN
    BY DEF IInv, TypeOK, Files
  <2>3. tree' \in Paths \cup {None} /\ title' \in Paths \cup {None}
    BY DEF IInv, TypeOK, Files, Phase, Entering
  <2>4. errMsgId' \in Errors \cup {None} /\ held' \subseteq {"ofn", "props"} /\ boxes' \in 0..1
    BY DEF IInv, TypeOK, Errors
  <2> QED BY <2>1, <2>2, <2>3, <2>4 DEF IInv, TypeOK
<1>2. Phase'
  <2>1. Between' /\ Naming'
    BY DEF IInv, Files, TypeOK, Phase, Between, Naming, Entered, Failed, Ending,
           NothingShown, AllShown, Succeeding, TitleNamesFile
  <2>2. Entering' /\ Entered'
    BY DEF IInv, Files, TypeOK, Phase, Entering, Entered, Naming, NothingShown, AllShown
  <2>3. Failed' /\ Ending'
    BY DEF IInv, Phase, Naming, Entering, Entered, NoErrorYet, Failed, Ending,
           NothingShown, AllShown, Succeeding
  <2>4. NoErrorYet'
    BY DEF IInv, Phase, NoErrorYet, Succeeding
  <2> QED BY <2>1, <2>2, <2>3, <2>4 DEF Phase
<1>3. LetIn'
  BY DEF IInv, TypeOK, Files, Phase, Between, Naming, Entering, Entered, LetIn,
         NothingShown, AllShown
<1>4. TitleNamesFile' /\ ChangedOnlyLocked'
  BY DEF IInv, TypeOK, Files, Phase, Entering, Ending, LetIn, TitleNamesFile,
         ChangedOnlyLocked,
         NothingShown, AllShown, Succeeding, Naming, Between, Entered
<1>5. Told'
  BY DEF IInv, TypeOK, Phase, Entering, NoErrorYet, Told, NothingHeld, Succeeding, Errors
<1>6. FailureIsTold' /\ NothingHeld'
  BY DEF IInv, Phase, Told, FailureIsTold, NothingHeld, Succeeding
<1> QED BY <1>1, <1>2, <1>3, <1>4, <1>5, <1>6 DEF IInv

\* The upgrade.
LEMMA UpgradeKeeps ==
  ASSUME IInv, Upgrade
  PROVE  IInv'
<1> USE PathsAssumption DEF Upgrade, AfterVersion, Goto, Fail,
        None, NoFile, DBSCHEMAVERSION, request, window
<1>1. TypeOK'
  <2>1. db' \in Files \cup {NoFile}
    BY DEF IInv, TypeOK, Files
  <2>2. changed' \in BOOLEAN /\ enabled' \in BOOLEAN /\ exit' \in BOOLEAN
    BY DEF IInv, TypeOK, Files
  <2>3. tree' \in Paths \cup {None} /\ title' \in Paths \cup {None}
    BY DEF IInv, TypeOK, Files, Phase, Entering
  <2>4. errMsgId' \in Errors \cup {None} /\ held' \subseteq {"ofn", "props"} /\ boxes' \in 0..1
    BY DEF IInv, TypeOK, Errors
  <2> QED BY <2>1, <2>2, <2>3, <2>4 DEF IInv, TypeOK
<1>2. Phase'
  <2>1. Between' /\ Naming'
    BY DEF IInv, Files, TypeOK, Phase, Between, Naming, Entered, Failed, Ending,
           NothingShown, AllShown, Succeeding, TitleNamesFile
  <2>2. Entering' /\ Entered'
    BY DEF IInv, Files, TypeOK, Phase, Entering, Entered, Naming, NothingShown, AllShown
  <2>3. Failed' /\ Ending'
    BY DEF IInv, Phase, Naming, Entering, Entered, NoErrorYet, Failed, Ending,
           NothingShown, AllShown, Succeeding
  <2>4. NoErrorYet'
    BY DEF IInv, Phase, NoErrorYet, Succeeding
  <2> QED BY <2>1, <2>2, <2>3, <2>4 DEF Phase
<1>3. LetIn'
  BY DEF IInv, TypeOK, Files, Phase, Between, Naming, Entering, Entered, LetIn,
         NothingShown, AllShown
<1>4. TitleNamesFile' /\ ChangedOnlyLocked'
  BY DEF IInv, TypeOK, Files, Phase, Entering, Ending, LetIn, TitleNamesFile,
         ChangedOnlyLocked,
         NothingShown, AllShown, Succeeding, Naming, Between, Entered
<1>5. Told'
  BY DEF IInv, TypeOK, Phase, Entering, NoErrorYet, Told, NothingHeld, Succeeding, Errors
<1>6. FailureIsTold' /\ NothingHeld'
  BY DEF IInv, Phase, Told, FailureIsTold, NothingHeld, Succeeding
<1> QED BY <1>1, <1>2, <1>3, <1>4, <1>5, <1>6 DEF IInv

\* The title and description of a new file.
LEMMA UpdateDetailsKeeps ==
  ASSUME IInv, UpdateDetails
  PROVE  IInv'
<1> USE PathsAssumption DEF UpdateDetails, Goto,
        None, NoFile, DBSCHEMAVERSION, request, window
<1>1. TypeOK'
  <2>1. db' \in Files \cup {NoFile}
    BY DEF IInv, TypeOK, Files
  <2>2. changed' \in BOOLEAN /\ enabled' \in BOOLEAN /\ exit' \in BOOLEAN
    BY HandleTypes DEF IInv, TypeOK
  <2>3. tree' \in Paths \cup {None} /\ title' \in Paths \cup {None}
    BY DEF IInv, TypeOK, Files, Phase, Entering
  <2>4. errMsgId' \in Errors \cup {None} /\ held' \subseteq {"ofn", "props"} /\ boxes' \in 0..1
    BY DEF IInv, TypeOK, Errors
  <2> QED BY <2>1, <2>2, <2>3, <2>4 DEF IInv, TypeOK
<1>2. Phase'
  <2>1. Between' /\ Naming'
    BY DEF IInv, Files, TypeOK, Phase, Between, Naming, Entered, Failed, Ending,
           NothingShown, AllShown, Succeeding, TitleNamesFile
  <2>2. Entering' /\ Entered'
    BY DEF IInv, Files, TypeOK, Phase, Entering, Entered, Naming, NothingShown, AllShown
  <2>3. Failed' /\ Ending'
    BY DEF IInv, Phase, Naming, Entering, Entered, NoErrorYet, Failed, Ending,
           NothingShown, AllShown, Succeeding
  <2>4. NoErrorYet'
    BY DEF IInv, Phase, NoErrorYet, Succeeding
  <2> QED BY <2>1, <2>2, <2>3, <2>4 DEF Phase
<1>3. LetIn'
  BY DEF IInv, TypeOK, Files, Phase, Between, Naming, Entering, Entered, LetIn,
         NothingShown, AllShown
<1>4. TitleNamesFile' /\ ChangedOnlyLocked'
  BY DEF IInv, TypeOK, Files, Phase, Entering, Ending, LetIn, TitleNamesFile,
         ChangedOnlyLocked,
         NothingShown, AllShown, Succeeding, Naming, Between, Entered
<1>5. Told'
  BY DEF IInv, TypeOK, Phase, Entering, NoErrorYet, Told, NothingHeld, Succeeding, Errors
<1>6. FailureIsTold' /\ NothingHeld'
  BY DEF IInv, Phase, Told, FailureIsTold, NothingHeld, Succeeding
<1> QED BY <1>1, <1>2, <1>3, <1>4, <1>5, <1>6 DEF IInv

\* The records are shown, or none.
LEMMA LoadRootNodesKeeps ==
  ASSUME IInv, LoadRootNodes
  PROVE  IInv'
<1> USE PathsAssumption DEF LoadRootNodes, Shows, Goto, Fail,
        None, NoFile, DBSCHEMAVERSION, request, window
<1>1. TypeOK'
  <2>1. db' \in Files \cup {NoFile}
    BY DEF IInv, TypeOK, Files
  <2>2. changed' \in BOOLEAN /\ enabled' \in BOOLEAN /\ exit' \in BOOLEAN
    BY DEF IInv, TypeOK, Files
  <2>3. tree' \in Paths \cup {None} /\ title' \in Paths \cup {None}
    BY DEF IInv, TypeOK, Files, Phase, Entering
  <2>4. errMsgId' \in Errors \cup {None} /\ held' \subseteq {"ofn", "props"} /\ boxes' \in 0..1
    BY DEF IInv, TypeOK, Errors
  <2> QED BY <2>1, <2>2, <2>3, <2>4 DEF IInv, TypeOK
<1>2. Phase'
  <2>1. Between' /\ Naming'
    BY DEF IInv, Files, TypeOK, Phase, Between, Naming, Entered, Failed, Ending,
           NothingShown, AllShown, Succeeding, TitleNamesFile
  <2>2. Entering' /\ Entered'
    BY DEF IInv, Files, TypeOK, Phase, Entering, Entered, Naming, NothingShown, AllShown
  <2>3. Failed' /\ Ending'
    BY DEF IInv, Phase, Naming, Entering, Entered, NoErrorYet, Failed, Ending,
           NothingShown, AllShown, Succeeding
  <2>4. NoErrorYet'
    BY DEF IInv, Phase, NoErrorYet, Succeeding
  <2> QED BY <2>1, <2>2, <2>3, <2>4 DEF Phase
<1>3. LetIn'
  BY DEF IInv, TypeOK, Files, Phase, Between, Naming, Entering, Entered, LetIn,
         NothingShown, AllShown
<1>4. TitleNamesFile' /\ ChangedOnlyLocked'
  BY DEF IInv, TypeOK, Files, Phase, Entering, Ending, LetIn, TitleNamesFile,
         ChangedOnlyLocked,
         NothingShown, AllShown, Succeeding, Naming, Between, Entered
<1>5. Told'
  BY DEF IInv, TypeOK, Phase, Entering, NoErrorYet, Told, NothingHeld, Succeeding, Errors
<1>6. FailureIsTold' /\ NothingHeld'
  BY DEF IInv, Phase, Told, FailureIsTold, NothingHeld, Succeeding
<1> QED BY <1>1, <1>2, <1>3, <1>4, <1>5, <1>6 DEF IInv

\* The first record of a new file.
LEMMA NewItemOfNewFileKeeps ==
  ASSUME IInv, NewItemOfNewFile
  PROVE  IInv'
<1> USE PathsAssumption DEF NewItemOfNewFile, Goto,
        None, NoFile, DBSCHEMAVERSION, request, window
<1>1. TypeOK'
  <2>1. db' \in Files \cup {NoFile}
    BY DEF IInv, TypeOK, Files
  <2>2. changed' \in BOOLEAN /\ enabled' \in BOOLEAN /\ exit' \in BOOLEAN
    BY HandleTypes DEF IInv, TypeOK
  <2>3. tree' \in Paths \cup {None} /\ title' \in Paths \cup {None}
    BY DEF IInv, TypeOK, Files, Phase, Entering
  <2>4. errMsgId' \in Errors \cup {None} /\ held' \subseteq {"ofn", "props"} /\ boxes' \in 0..1
    BY DEF IInv, TypeOK, Errors
  <2> QED BY <2>1, <2>2, <2>3, <2>4 DEF IInv, TypeOK
<1>2. Phase'
  <2>1. Between' /\ Naming'
    BY DEF IInv, Files, TypeOK, Phase, Between, Naming, Entered, Failed, Ending,
           NothingShown, AllShown, Succeeding, TitleNamesFile
  <2>2. Entering' /\ Entered'
    BY DEF IInv, Files, TypeOK, Phase, Entering, Entered, Naming, NothingShown, AllShown
  <2>3. Failed' /\ Ending'
    BY DEF IInv, Phase, Naming, Entering, Entered, NoErrorYet, Failed, Ending,
           NothingShown, AllShown, Succeeding
  <2>4. NoErrorYet'
    BY DEF IInv, Phase, NoErrorYet, Succeeding
  <2> QED BY <2>1, <2>2, <2>3, <2>4 DEF Phase
<1>3. LetIn'
  BY DEF IInv, TypeOK, Files, Phase, Between, Naming, Entering, Entered, LetIn,
         NothingShown, AllShown
<1>4. TitleNamesFile' /\ ChangedOnlyLocked'
  BY DEF IInv, TypeOK, Files, Phase, Entering, Ending, LetIn, TitleNamesFile,
         ChangedOnlyLocked,
         NothingShown, AllShown, Succeeding, Naming, Between, Entered
<1>5. Told'
  BY DEF IInv, Phase, Entered, AllShown, Told, Succeeding
<1>6. FailureIsTold' /\ NothingHeld'
  BY DEF IInv, Phase, Told, FailureIsTold, NothingHeld, Succeeding
<1> QED BY <1>1, <1>2, <1>3, <1>4, <1>5, <1>6 DEF IInv

\* The command ends.
LEMMA FinishKeeps ==
  ASSUME IInv, Finish
  PROVE  IInv'
<1> USE PathsAssumption DEF Finish, CloseUnopened, SetAppTitle, ReleaseBlocks, ErrorBox,
        None, NoFile, DBSCHEMAVERSION, request, window
<1>1. TypeOK'
  <2>1. db' \in Files \cup {NoFile}
    BY DEF IInv, TypeOK, Files
  <2>2. changed' \in BOOLEAN /\ enabled' \in BOOLEAN /\ exit' \in BOOLEAN
    BY DEF IInv, TypeOK, Files
  <2>3. tree' \in Paths \cup {None} /\ title' \in Paths \cup {None}
    BY DEF IInv, TypeOK, Files, Phase, Entering
  <2>4. errMsgId' \in Errors \cup {None} /\ held' \subseteq {"ofn", "props"} /\ boxes' \in 0..1
    BY DEF IInv, TypeOK, Errors
  <2> QED BY <2>1, <2>2, <2>3, <2>4 DEF IInv, TypeOK
<1>2. Phase'
  <2>1. Between' /\ Naming'
    BY DEF IInv, Files, TypeOK, Phase, Between, Naming, Entered, Failed, Ending,
           NothingShown, AllShown, Succeeding, TitleNamesFile
  <2>2. Entering' /\ Entered'
    BY DEF IInv, Files, TypeOK, Phase, Entering, Entered, Naming, NothingShown, AllShown
  <2>3. Failed' /\ Ending'
    BY DEF IInv, Phase, Naming, Entering, Entered, NoErrorYet, Failed, Ending,
           NothingShown, AllShown, Succeeding
  <2>4. NoErrorYet'
    BY DEF IInv, Phase, NoErrorYet, Succeeding
  <2> QED BY <2>1, <2>2, <2>3, <2>4 DEF Phase
<1>3. LetIn' /\ TitleNamesFile' /\ ChangedOnlyLocked'
  <2>1. CASE CloseUnopened
    <3>1. /\ db' = NoFile /\ changed' = FALSE /\ tree' = None /\ title' = None
          /\ pc' = "idle"
      BY <2>1 DEF IInv, Phase, Failed, NothingShown, Succeeding
    <3> QED BY <3>1 DEF LetIn, TitleNamesFile, ChangedOnlyLocked
  <2>2. CASE ~CloseUnopened
    <3>1. UNCHANGED <<db, changed, tree>> /\ pc' = "idle"
      BY <2>2
    <3>2. title' \in {db.path, title, None}
      BY <2>2
    <3>3. LetIn' /\ ChangedOnlyLocked'
      BY <3>1 DEF IInv, LetIn, ChangedOnlyLocked
    <3>4. TitleNamesFile'
      BY <3>1, <3>2 DEF IInv, TitleNamesFile
    <3> QED BY <3>3, <3>4
  <2> QED BY <2>1, <2>2
<1>4. Told'
  BY DEF IInv, TypeOK, Phase, Entering, NoErrorYet, Told, NothingHeld, Succeeding, Errors
<1>5. FailureIsTold' /\ NothingHeld'
  BY DEF IInv, Phase, Told, FailureIsTold, NothingHeld, Succeeding
<1> QED BY <1>1, <1>2, <1>3, <1>4, <1>5 DEF IInv

\* Every step keeps the invariant.
LEMMA NextIInv == IInv /\ [Next]_vars => IInv'
<1> SUFFICES ASSUME IInv, [Next]_vars PROVE IInv'
  OBVIOUS
<1>1. CASE UNCHANGED vars
  BY <1>1 DEF vars, IInv, TypeOK, Phase, Between, Naming, Entering, Entered, Failed, Ending,
              NoErrorYet, LetIn, TitleNamesFile, ChangedOnlyLocked, Told,
              FailureIsTold, NothingHeld, NothingShown, AllShown, Succeeding
<1> QED
  BY <1>1, EditKeeps, AppSaveFileKeeps, MainWmCommandKeeps, AppCloseFileKeeps, CreateOpenFileNameInfoKeeps,
     ChooseFileKeeps, DbOpenKeeps, ShowFileAccessKeeps, ShowFilePropKeeps, KeyNewFileKeeps,
     GetVersionKeeps, UpgradeKeeps, UpdateDetailsKeeps, LoadRootNodesKeeps,
     NewItemOfNewFileKeeps, FinishKeeps DEF Next

\* The invariant holds in every state of every command.
LEMMA SpecIInv == Spec => []IInv
BY InitIInv, NextIInv, PTL DEF Spec

-----------------------------------------------------------------------------
\* What the window knows of the file has its type, whatever the files.
THEOREM OpeningTypes == Spec => []TypeOK
BY SpecIInv, PTL DEF IInv

\* No record is shown of a file that is not decrypted, current and locked.
THEOREM RecordsShownOnlyWhenSafe == Spec => []ShownOnlyWhenSafe
<1>1. IInv => ShownOnlyWhenSafe
  <2> SUFFICES ASSUME IInv PROVE ShownOnlyWhenSafe
    OBVIOUS
  <2> USE DEF IInv
  <2>1. enabled => tree # None
    BY PathsAssumption DEF TypeOK, Files, Phase, Between, Naming, Entering, Entered, Failed, Ending,
           NothingShown, AllShown, Succeeding, None, NoFile
  <2>2. tree # None => tree = db.path
    BY DEF TypeOK, Phase, Between, Naming, Entering, Entered, Failed, Ending, NothingShown,
           AllShown, Succeeding
  <2> QED BY <2>1, <2>2 DEF ShownOnlyWhenSafe, LetIn
<1> QED BY <1>1, SpecIInv, PTL

\* After a command the file is open and shown, or neither.
THEOREM OpeningIsWholeOrNothing == Spec => []WholeOrNothing
<1>1. IInv => WholeOrNothing
  BY PathsAssumption
     DEF IInv, TypeOK, Files, Phase, Between, NothingShown, AllShown, WholeOrNothing, None, NoFile
<1> QED BY <1>1, SpecIInv, PTL

\* The title never names another file than the open one.
THEOREM TitleIsOfOpenFile == Spec => []TitleNamesFile
BY SpecIInv, PTL DEF IInv

\* A file that fails to open is never let go silently.
THEOREM FailuresAreTold == Spec => []FailureIsTold
BY SpecIInv, PTL DEF IInv

\* Only a decrypted, locked file that can be written is changed.
THEOREM OnlyLockedFilesChange == Spec => []ChangedOnlyLocked
BY SpecIInv, PTL DEF IInv

\* No block of a command outlives it.
THEOREM CommandsReleaseBlocks == Spec => []NothingHeld
BY SpecIInv, PTL DEF IInv

\* What the user sees and changes is a file that was let in, under its name.
THEOREM OpeningIsSafe == Spec => []OpenIsSafe
<1>1. TypeOK /\ ShownOnlyWhenSafe /\ ChangedOnlyLocked /\ TitleNamesFile => OpenIsSafe
  BY DEF OpenIsSafe
<1> QED
  BY <1>1, OpeningTypes, RecordsShownOnlyWhenSafe, OnlyLockedFilesChange, TitleIsOfOpenFile, PTL

\* Every command ends with all done or nothing, its memory released and its
\* failure told.
THEOREM CommandsEndWhole == Spec => []EndsWhole
<1>1. WholeOrNothing /\ NothingHeld /\ FailureIsTold => EndsWhole
  BY DEF EndsWhole
<1> QED
  BY <1>1, OpeningIsWholeOrNothing, CommandsReleaseBlocks, FailuresAreTold, PTL

\* A file is opened only when none is open.
THEOREM NeverTwoFiles == Spec => OneFileAtATime
<1>1. IInv => (pc = "open" => db = NoFile)
  BY DEF IInv, Phase, Naming
<1> QED BY <1>1, SpecIInv, PTL DEF OneFileAtATime

-----------------------------------------------------------------------------
(* The commands with their dialogs *)

\* At first the window knows of the file what FileOpening starts with.
LEMMA InitMaps == OpeningInit => Init
BY DEF OpeningInit

\* Every step of a command, of a dialog inside it and of a property sheet of an
\* open file is a step of FileOpening or leaves all of it as it was.
LEMMA StepMaps == [OpeningNext]_<<vars, dialogs>> => [Next]_vars
<1> SUFFICES ASSUME [OpeningNext]_<<vars, dialogs>> PROVE [Next]_vars
  OBVIOUS
<1>1. CASE Begin
  BY <1>1 DEF Begin, Next
<1>2. CASE Proceed
  BY <1>2 DEF Proceed, Next
<1>3. CASE AccessDialog
  BY <1>3 DEF AccessDialog
<1>4. CASE AccessReturns
  BY <1>4 DEF AccessReturns, Next
<1>5. CASE PropsMissing \/ PropsReturns
  BY <1>5 DEF PropsMissing, PropsReturns, Next
<1>6. CASE PropsDialog
  BY <1>6 DEF PropsDialog
<1>7. CASE KeyProceeds
  BY <1>7 DEF KeyProceeds, Next
<1>8. CASE FinishCommand
  BY <1>8 DEF FinishCommand, Next
<1>9. CASE FilePropertiesMsg
  BY <1>9 DEF FilePropertiesMsg
<1>10. CASE SheetOfOpenFile
  BY <1>10 DEF SheetOfOpenFile
<1>11. CASE SheetReturns
  BY <1>11 DEF SheetReturns, Next
<1>12. CASE OpenConnection
  BY <1>12 DEF OpenConnection, Next
<1>13. CASE UNCHANGED <<vars, dialogs>>
  BY <1>13
<1> QED
  BY <1>1, <1>2, <1>3, <1>4, <1>5, <1>6, <1>7, <1>8, <1>9, <1>10, <1>11, <1>12, <1>13
     DEF OpeningNext

\* The commands with their dialogs implement FileOpening, for every set of
\* files, passwords and titles (AppNewFile, OpenFileInternal, FilePropertiesMsg).
THEOREM DialogsImplementFileOpening == OpeningSpec => ImplementsFileOpening
BY InitMaps, StepMaps, PTL DEF OpeningSpec, ImplementsFileOpening, Spec

\* So nothing of a file is shown or changed before it is let in, while a dialog
\* is open or a sheet is, and no command ends half-way.
THEOREM OpeningWithDialogsIsSafe == OpeningSpec => [](OpenIsSafe /\ EndsWhole)
BY DialogsImplementFileOpening, OpeningIsSafe, CommandsEndWhole, PTL
   DEF ImplementsFileOpening

-----------------------------------------------------------------------------
(* The dialogs themselves                                                    *)

\* The password dialog: its result is known from its end on, the field is empty
\* outside it, and what is asked about is what the field showed.
AccessInv ==
    /\ Access!TypeOK /\ Access!OkMeansAccepted /\ Access!PasswordOnlyWhileAsked
    /\ (accessResult = "none" <=> accessPc \notin {"ended", "freed"})
    /\ (accessPc \in {"start", "freed"} => field = "")
    /\ (accessResult # "ok" => opened = "")
    /\ (accessPc = "asking" => utf8PassBuffer \in {field, ""})
    /\ (hidden <=> ~checked)
    /\ (accessPc \in {"idle", "asking", "message"} => passwordChar)
    /\ (accessPc = "asking" => (passLen <=> utf8PassBuffer # ""))
    /\ (accessPc \in {"asking", "message"} => (hasPass <=> field # ""))

\* The cue is watched where there is a password to keep, and shown while neither
\* field has a text.
CueFollowsFields ==
    /\ (cue.track <=> passExists /\ ~readonly)
    /\ (cue.track => (cue.hasText[1] <=> fields[1] # "") /\ (cue.hasText[2] <=> fields[2] # ""))
    /\ cue.shown = IF cue.track /\ ~cue.hasText[1] /\ ~cue.hasText[2] THEN {1, 2} ELSE {}

\* Before the sheet is open nothing is watched.
NoCue == ~cue.track /\ ~cue.hasText[1] /\ ~cue.hasText[2] /\ cue.shown = {}

\* The property sheet: no password outside it, and no key before its end.
PropsInv ==
    /\ Props!TypeOK /\ Props!KeyIsTypedTwice /\ Props!NewFileGetsPassword
    /\ (propPc \in {"start", "ready", "freed"} => fields = <<"", "">> /\ buffers = {})
    /\ (propPc # "done" => key = "")
    /\ (propPc \in {"start", "ready"} => NoCue)
    /\ (propPc = "open" => CueFollowsFields)
    /\ (propPc # "start" /\ readonly => passExists)

\* Where the dialogs of a command are before each of its calls.
Control ==
    /\ (pc = "idle" => "props" \notin held)
    /\ (pc # "access" => accessPc \in {"start", "freed"})
    /\ (pc \in {"close", "name", "choose", "open"} => accessPc = "start")
    /\ (pc \in {"close", "name", "choose", "open", "access"} => propPc = "start")
    /\ (pc = "props" => propPc \in {"start", "ready", "open", "done"} /\ "props" \notin held)
    /\ (pc \notin {"idle", "props"} =>
          /\ propPc \in {"start", "done"}
          /\ (propPc = "done" <=> "props" \in held))
    /\ (pc \in {"close", "name", "choose", "open", "access", "props", "key"}
          => ~passExists /\ ~readonly)
    /\ (pc \in {"props", "key"} => command = "new")
    /\ (pc = "key" => propPc = "done" /\ propResult = "ok")
    /\ (pc \in {"version", "upgrade", "details", "load"} /\ command # "new"
          => accessResult = "ok")

\* The inductive invariant of both dialogs and of the commands around them.
DInv == AccessInv /\ PropsInv /\ Control

\* Neither dialog has been opened at first.
LEMMA InitDInv == OpeningInit => DInv
<1> SUFFICES ASSUME OpeningInit PROVE DInv
  OBVIOUS
<1>1. AccessInv
  BY KeyAssumption
     DEF OpeningInit, Access!Init, AccessInv, Access!TypeOK, Access!Texts,
         Access!OkMeansAccepted, Access!Opens,
         Access!PasswordOnlyWhileAsked
<1>2. PropsInv
  <2> USE TitlesAssumption DEF OpeningInit, Props!Init
  <2>1. Props!TypeOK
    <3>1. cue \in [track : BOOLEAN, hasText : BOOLEAN \X BOOLEAN, shown : SUBSET {1, 2}]
      OBVIOUS
    <3>2. propTitle \in Props!Typed /\ titleField \in Props!Typed
      BY DEF Props!Typed
    <3>3. fields \in Props!Texts \X Props!Texts /\ key \in Props!Texts
      BY DEF Props!Texts
    <3> QED BY <3>1, <3>2, <3>3 DEF Props!TypeOK
  <2>2. Props!KeyIsTypedTwice /\ Props!NewFileGetsPassword /\ NoCue
    BY DEF Props!KeyIsTypedTwice, Props!NewFileGetsPassword, NoCue
  <2> QED BY <2>1, <2>2 DEF PropsInv
<1>3. Control
  BY DEF OpeningInit, Init, Access!Init, Props!Init, Control
<1> QED BY <1>1, <1>2, <1>3 DEF DInv

\* The password dialog keeps its invariant, whatever is typed and answered.
LEMMA NextAccess == AccessInv /\ [Access!Next]_accessVars => AccessInv'
<1> SUFFICES ASSUME AccessInv, [Access!Next]_accessVars PROVE AccessInv'
  OBVIOUS
<1> USE KeyAssumption
     DEF AccessInv, Access!TypeOK, Access!Texts, Access!OkMeansAccepted, Access!Opens,
         Access!PasswordOnlyWhileAsked, Access!look, Access!buffer
<1>1. CASE Access!ShowFileAccess
  BY <1>1 DEF Access!ShowFileAccess
<1>2. CASE Access!Type
  BY <1>2 DEF Access!Type
<1>3. CASE Access!FileAccessShowPasswordClicked
  BY <1>3 DEF Access!FileAccessShowPasswordClicked
<1>4. CASE Access!FileAccessValidatePassword
  BY <1>4 DEF Access!FileAccessValidatePassword
<1>5. CASE Access!CallbackReturns
  BY <1>5 DEF Access!CallbackReturns, Access!Answers, Access!Opens
<1>6. CASE Access!MessageClosed
  BY <1>6 DEF Access!MessageClosed
<1>7. CASE Access!Cancel
  BY <1>7 DEF Access!Cancel
<1>8. CASE Access!FreeDialog
  BY <1>8 DEF Access!FreeDialog
<1>9. CASE UNCHANGED accessVars
  BY <1>9 DEF accessVars, dialogVars
<1> QED
  BY <1>1, <1>2, <1>3, <1>4, <1>5, <1>6, <1>7, <1>8, <1>9 DEF Access!Next

\* The cue for itself: what it is, and when it is shown.
CueType == [track : BOOLEAN, hasText : BOOLEAN \X BOOLEAN, shown : SUBSET {1, 2}]
CueShown(c) == c.shown = IF c.track /\ ~c.hasText[1] /\ ~c.hasText[2] THEN {1, 2} ELSE {}

\* One part of a pair is replaced.
LEMMA PairExcept ==
    ASSUME NEW S, NEW p \in S \X S, NEW x \in S, NEW i \in {1, 2}
    PROVE  /\ [p EXCEPT ![i] = x] \in S \X S
           /\ [p EXCEPT ![i] = x][i] = x
           /\ \A j \in {1, 2} : j # i => [p EXCEPT ![i] = x][j] = p[j]
<1>1. CASE i = 1
  BY <1>1
<1>2. CASE i = 2
  BY <1>2
<1> QED BY <1>1, <1>2

\* A text in field i changes the cue from c to d: what is known of the other
\* field stays, and the cue is shown by what is known of both.
Follows(c, i, text, d) ==
    /\ d \in CueType /\ CueShown(d) /\ d.track = c.track
    /\ (c.track => /\ d.hasText[i] <=> text # ""
                   /\ \A j \in {1, 2} : j # i => d.hasText[j] = c.hasText[j])

\* A change of a field's text is such a change of the cue.
LEMMA CueFollows ==
    ASSUME NEW c \in CueType, NEW i \in {1, 2}, NEW text \in Props!Texts, CueShown(c)
    PROVE  Follows(c, i, text, Props!FileGeneralPasswordChanged(c, i, text))
<1> DEFINE d == Props!FileGeneralPasswordChanged(c, i, text)
<1> DEFINE h == [c.hasText EXCEPT ![i] = text # ""]
           prev == TRUE \in {c.hasText[1], c.hasText[2]}
           no == TRUE \in {h[1], h[2]}
           shown == IF prev = no THEN c.shown ELSE IF no THEN {} ELSE {1, 2}
<1> SUFFICES Follows(c, i, text, d)
  OBVIOUS
<1>1. CASE ~c.track
  <2>1. d = c
    BY <1>1 DEF Props!FileGeneralPasswordChanged
  <2> HIDE DEF d
  <2> QED BY <1>1, <2>1 DEF Follows
<1>2. CASE c.track
  <2>1. /\ h \in BOOLEAN \X BOOLEAN
        /\ h[i] = (text # "") /\ (\A j \in {1, 2} : j # i => h[j] = c.hasText[j])
    <3> DEFINE has == text # ""
    <3>1. c.hasText \in BOOLEAN \X BOOLEAN /\ has \in BOOLEAN
      BY DEF CueType
    <3>2. h = [c.hasText EXCEPT ![i] = has]
      OBVIOUS
    <3> HIDE DEF has, h
    <3>3. h \in BOOLEAN \X BOOLEAN /\ h[i] = has /\ (\A j \in {1, 2} : j # i => h[j] = c.hasText[j])
      BY <3>1, <3>2, PairExcept
    <3> QED BY <3>3 DEF has
  <2>2. shown = IF ~h[1] /\ ~h[2] THEN {1, 2} ELSE {}
    <3>1. prev <=> c.hasText[1] \/ c.hasText[2]
      BY DEF CueType
    <3>2. no <=> h[1] \/ h[2]
      BY <2>1
    <3> QED BY <3>1, <3>2, <1>2 DEF CueShown
  <2>3. d = [c EXCEPT !.hasText = h, !.shown = shown]
    BY <1>2 DEF Props!FileGeneralPasswordChanged
  <2>4. d \in CueType /\ d.track = c.track /\ d.hasText = h /\ d.shown = shown
    BY <2>1, <2>2, <2>3 DEF CueType
  <2> HIDE DEF d, h, shown
  <2>5. CueShown(d)
    BY <2>2, <2>4, <1>2 DEF CueShown
  <2>6. /\ d.hasText[i] <=> text # ""
        /\ \A j \in {1, 2} : j # i => d.hasText[j] = c.hasText[j]
    BY <2>1, <2>4
  <2> QED BY <2>4, <2>5, <2>6, <1>2 DEF Follows
<1> QED BY <1>1, <1>2

\* The property sheet keeps its invariant, whatever is typed and refused.
LEMMA NextProps == PropsInv /\ [Props!Next]_propVars => PropsInv'
<1> SUFFICES ASSUME PropsInv, [Props!Next]_propVars PROVE PropsInv'
  OBVIOUS
<1> USE DEF PropsInv, Props!TypeOK, Props!Texts, Props!Typed, Props!KeyIsTypedTwice,
            Props!NewFileGetsPassword, Props!given
<1>1. CASE Props!CreateFilePropInfo
  <2> USE TitlesAssumption DEF Props!CreateFilePropInfo
  <2>1. readonly' \in BOOLEAN /\ passExists' \in BOOLEAN /\ (readonly' => passExists')
    <3>1. PICK p \in {<<FALSE, FALSE>>, <<FALSE, TRUE>>, <<TRUE, TRUE>>} :
            readonly' = p[1] /\ passExists' = p[2]
      BY <1>1
    <3>2. CASE p = <<FALSE, FALSE>>
      BY <3>1, <3>2
    <3>3. CASE p = <<FALSE, TRUE>>
      BY <3>1, <3>3
    <3>4. CASE p = <<TRUE, TRUE>>
      BY <3>1, <3>4
    <3> QED BY <3>2, <3>3, <3>4
  <2>2. propTitle' \in Props!Typed
    <3>1. <<"", FALSE>> \in Titles \X BOOLEAN
      OBVIOUS
    <3> QED BY <1>1, <3>1
  <2>3. Props!TypeOK'
    BY <1>1, <2>1, <2>2
  <2> QED BY <1>1, <2>1, <2>3 DEF NoCue
<1>2. CASE Props!ShowFileProp
  <2> USE DEF Props!ShowFileProp
  <2>1. cue' \in CueType /\ CueFollowsFields'
    <3>1. fields = <<"", "">> /\ cue \in CueType /\ NoCue
      BY <1>2 DEF CueType
    <3>2. CASE ~readonly /\ passExists
      <4>1. cue' = [cue EXCEPT !.track = TRUE, !.shown = {1, 2}]
        BY <1>2, <3>2
      <4>2. /\ cue' \in CueType /\ cue'.track = TRUE /\ cue'.shown = {1, 2}
            /\ cue'.hasText = cue.hasText
        BY <3>1, <4>1 DEF CueType
      <4> QED BY <1>2, <3>1, <3>2, <4>2 DEF NoCue, CueFollowsFields
    <3>3. CASE ~(~readonly /\ passExists)
      BY <1>2, <3>1, <3>3 DEF NoCue, CueFollowsFields
    <3> QED BY <3>2, <3>3
  <2>2. Props!TypeOK'
    BY <1>2, <2>1 DEF CueType
  <2> QED BY <1>2, <2>1, <2>2
<1>3. CASE Props!TypePassword
  <2> USE DEF Props!TypePassword
  <2>1. PICK i \in {1, 2}, text \in Props!Texts :
          /\ fields' = [fields EXCEPT ![i] = text]
          /\ cue' = Props!FileGeneralPasswordChanged(cue, i, text)
    BY <1>3
  <2>2. /\ fields' \in Props!Texts \X Props!Texts
        /\ fields'[i] = text /\ (\A j \in {1, 2} : j # i => fields'[j] = fields[j])
    <3>1. fields \in Props!Texts \X Props!Texts
      OBVIOUS
    <3> HIDE DEF Props!Texts, PropsInv
    <3> QED BY <2>1, <3>1, PairExcept
  <2>3. cue \in CueType /\ CueShown(cue) /\ CueFollowsFields
    BY <1>3 DEF CueFollowsFields, CueShown, CueType
  <2>4. Follows(cue, i, text, cue')
    <3> HIDE DEF PropsInv, Props!Texts
    <3> QED BY <2>1, <2>3, CueFollows
  <2>5. CueFollowsFields'
    BY <1>3, <2>2, <2>3, <2>4 DEF CueFollowsFields, CueShown, Follows
  <2>6. Props!TypeOK'
    BY <1>3, <2>2, <2>4 DEF CueType, Follows
  <2> QED BY <1>3, <2>5, <2>6
<1>4. CASE Props!TypeTitle
  BY <1>4 DEF Props!TypeTitle, CueFollowsFields
<1>5. CASE Props!FileGeneralRefuses
  <2> USE DEF Props!FileGeneralRefuses
  <2> DEFINE c == Props!FileGeneralPasswordChanged(cue, 1, "")
  <2>1. cue \in CueType /\ CueShown(cue) /\ CueFollowsFields
    BY <1>5 DEF CueFollowsFields, CueShown, CueType
  <2>2. Follows(cue, 1, "", c)
    <3>1. "" \in Props!Texts
      OBVIOUS
    <3> HIDE DEF PropsInv, Props!Texts
    <3> QED BY <2>1, <3>1, CueFollows
  <2>3. Follows(c, 2, "", cue')
    <3>1. cue' = Props!FileGeneralPasswordChanged(c, 2, "") /\ "" \in Props!Texts
      BY <1>5
    <3>2. c \in CueType /\ CueShown(c)
      BY <2>2 DEF Follows
    <3> HIDE DEF PropsInv, Props!Texts, c
    <3> QED BY <3>1, <3>2, CueFollows
  <2>4. CueFollowsFields'
    BY <1>5, <2>1, <2>2, <2>3 DEF CueFollowsFields, CueShown, Follows
  <2>5. buffers' \subseteq Passwords
    BY <1>5 DEF Props!Secrets
  <2>6. Props!TypeOK'
    BY <1>5, <2>3, <2>5 DEF CueType, Follows
  <2> QED BY <1>5, <2>4, <2>6
<1>6. CASE Props!FilePropertiesOk
  <2> USE DEF Props!FilePropertiesOk
  <2>1. buffers' \subseteq Passwords
    BY <1>6 DEF Props!Secrets
  <2>2. propTitle' \in Props!Typed
    <3>1. titleField \in Titles \X BOOLEAN
      OBVIOUS
    <3>2. Props!TrimWhiteSpace(titleField) \in Titles \X BOOLEAN
      BY <3>1 DEF Props!TrimWhiteSpace
    <3> QED BY <1>6, <3>1, <3>2
  <2>3. Props!TypeOK'
    BY <1>6, <2>1, <2>2
  <2>4. Props!KeyIsTypedTwice' /\ Props!NewFileGetsPassword'
    <3>1. fields = <<fields[1], fields[2]>>
      <4>1. fields \in Props!Texts \X Props!Texts
        OBVIOUS
      <4> HIDE DEF PropsInv, Props!Texts
      <4> QED BY <4>1
    <3>2. CASE readonly
      BY <1>6, <3>2
    <3>3. CASE ~readonly
      <4>1. fields[1] = fields[2] /\ (passExists \/ fields[1] # "")
        BY <1>6, <3>3 DEF Props!Accepts
      <4>2. fields' = <<fields[1], fields[1]>>
        BY <1>6, <3>1, <4>1
      <4> QED BY <1>6, <3>3, <4>1, <4>2
    <3> QED BY <3>2, <3>3
  <2> QED BY <1>6, <2>3, <2>4
<1>7. CASE Props!FilePropertiesCancel
  BY <1>7 DEF Props!FilePropertiesCancel
<1>8. CASE Props!DestroyFilePropInfo
  BY <1>8 DEF Props!DestroyFilePropInfo
<1>9. CASE UNCHANGED propVars
  BY <1>9 DEF propVars, CueFollowsFields, NoCue
<1> QED
  BY <1>1, <1>2, <1>3, <1>4, <1>5, <1>6, <1>7, <1>8, <1>9 DEF Props!Next

\* A command starts with new dialogs, and nothing of the last ones is in them.
LEMMA BeginKeeps == DInv /\ Begin => DInv'
<1> SUFFICES ASSUME DInv, Begin PROVE DInv'
  OBVIOUS
<1> USE DEF DInv, Begin, NewDialogs, NoSheet
<1>1. AccessInv'
  BY KeyAssumption
     DEF AccessInv, Access!TypeOK, Access!Texts, Access!OkMeansAccepted, Access!Opens,
         Access!PasswordOnlyWhileAsked
<1>2. PropsInv'
  <2>1. cue' \in CueType /\ NoCue'
    BY DEF CueType, NoCue
  <2>2. <<"", FALSE>> \in Props!Typed
    BY TitlesAssumption DEF Props!Typed
  <2>3. Props!TypeOK'
    BY <2>1, <2>2 DEF PropsInv, Props!TypeOK, CueType
  <2> QED BY <2>1, <2>3 DEF PropsInv, Props!KeyIsTypedTwice, Props!NewFileGetsPassword
<1>3. Control'
  BY DEF Control, MainWmCommand
<1> QED BY <1>1, <1>2, <1>3

\* The file that is opened may be an empty one: no password has been tried yet.
LEMMA OpenConnectionKeeps == DInv /\ OpenConnection => DInv'
<1> SUFFICES ASSUME DInv, OpenConnection PROVE DInv'
  OBVIOUS
<1>0. pc = "open" /\ empty' \in BOOLEAN /\ UNCHANGED <<dialogVars, propVars>>
  BY DEF OpenConnection, DbOpen
<1>1. AccessInv'
  <2>1. accessPc = "start" /\ accessResult = "none" /\ opened = ""
    BY <1>0 DEF DInv, Control, AccessInv
  <2> QED
    BY <1>0, <2>1, KeyAssumption
       DEF DInv, dialogVars, AccessInv, Access!TypeOK, Access!Texts,
           Access!OkMeansAccepted, Access!Opens, Access!PasswordOnlyWhileAsked
<1>2. PropsInv'
  BY <1>0, NextProps DEF DInv
<1>3. Control'
  <2>1. UNCHANGED <<command, held, accessPc, propPc, passExists, readonly>>
    BY DEF OpenConnection, DbOpen, request, dialogVars, propVars
  <2>2. /\ pc' \in {"props", "access", "end"}
        /\ pc' = "props" => command = "new"
    BY DEF OpenConnection, DbOpen, Goto, Fail
  <2>3. accessPc = "start" /\ propPc = "start" /\ "props" \notin held
        /\ ~passExists /\ ~readonly
    BY <1>0 DEF DInv, Control
  <2> QED BY <2>1, <2>2, <2>3 DEF Control
<1> QED BY <1>1, <1>2, <1>3 DEF DInv

\* A sheet for an open file starts blank, too.
LEMMA FilePropertiesMsgKeeps == DInv /\ FilePropertiesMsg => DInv'
<1> SUFFICES ASSUME DInv, FilePropertiesMsg PROVE DInv'
  OBVIOUS
<1> USE DEF DInv, FilePropertiesMsg, NoSheet
<1>1. AccessInv'
  BY NextAccess DEF accessVars, dialogVars
<1>2. PropsInv'
  <2>1. cue' \in CueType /\ NoCue'
    BY DEF CueType, NoCue
  <2>2. <<"", FALSE>> \in Props!Typed /\ propTitle' \in Props!Typed
    BY TitlesAssumption DEF Props!Typed
  <2>3. readonly' \in BOOLEAN
    BY DEF PropsInv
  <2>4. Props!TypeOK'
    BY <2>1, <2>2, <2>3 DEF PropsInv, Props!TypeOK, CueType
  <2> QED BY <2>1, <2>4 DEF PropsInv, Props!KeyIsTypedTwice, Props!NewFileGetsPassword
<1>3. Control'
  BY DEF Control, vars, accessVars, dialogVars
<1> QED BY <1>1, <1>2, <1>3

\* The calls of a command come one after the other, each dialog when it is due.
LEMMA NextControl == DInv /\ OpeningNext => Control'
<1> SUFFICES ASSUME AccessInv, PropsInv, Control, OpeningNext PROVE Control'
  BY DEF DInv
<1> USE DEF Control
<1>1. CASE Begin
  BY <1>1 DEF Begin, NewDialogs, MainWmCommand
<1>2. CASE Proceed
  <2> USE DEF dialogs, accessVars, dialogVars, propVars, request, window, Goto, Fail, Cancelled
  <2>0. UNCHANGED dialogs
    BY <1>2 DEF Proceed
  <2>1. CASE Edit \/ AppSaveFile
    BY <2>0, <2>1 DEF Edit, AppSaveFile
  <2>2. CASE AppCloseFile
    BY <2>0, <2>2 DEF AppCloseFile, AfterClose
  <2>3. CASE CreateOpenFileNameInfo
    BY <2>0, <2>3 DEF CreateOpenFileNameInfo
  <2>4. CASE ChooseFile
    BY <2>0, <2>4 DEF ChooseFile
  <2>5. CASE GetVersion
    BY <2>0, <2>5 DEF GetVersion, AfterVersion
  <2>6. CASE Upgrade
    BY <2>0, <2>6 DEF Upgrade, AfterVersion
  <2>7. CASE UpdateDetails
    BY <2>0, <2>7 DEF UpdateDetails
  <2>8. CASE LoadRootNodes
    BY <2>0, <2>8 DEF LoadRootNodes
  <2>9. CASE NewItemOfNewFile
    BY <2>0, <2>9 DEF NewItemOfNewFile
  <2> QED
    BY <1>2, <2>1, <2>2, <2>3, <2>4, <2>5, <2>6, <2>7, <2>8, <2>9 DEF Proceed
<1>3. CASE AccessDialog
  BY <1>3 DEF AccessDialog, vars, propVars
<1>4. CASE AccessReturns
  BY <1>4
     DEF AccessReturns, ShowFileAccess, Goto, Fail, Cancelled, request, dialogs,
         accessVars, dialogVars, propVars
<1>5. CASE PropsMissing
  BY <1>5
     DEF PropsMissing, ShowFileProp, Goto, Fail, Cancelled, dialogs, accessVars, dialogVars, propVars
<1>6. CASE PropsDialog
  <2>1. propPc' \in {"start", "ready", "open", "done"}
    BY <1>6
       DEF PropsDialog, PropsInv, Props!TypeOK, Props!Next, Props!CreateFilePropInfo,
           Props!ShowFileProp, Props!TypePassword, Props!TypeTitle,
           Props!FileGeneralRefuses, Props!FilePropertiesOk,
           Props!FilePropertiesCancel, Props!DestroyFilePropInfo
  <2> QED BY <1>6, <2>1 DEF PropsDialog, vars, accessVars, dialogVars
<1>7. CASE PropsReturns
  BY <1>7
     DEF PropsReturns, ShowFileProp, Goto, Fail, Cancelled, dialogs, accessVars, dialogVars, propVars
<1>8. CASE KeyProceeds
  BY <1>8
     DEF KeyProceeds, KeyNewFile, Goto, Fail, request, dialogs, accessVars, dialogVars, propVars
<1>9. CASE FinishCommand
  BY <1>9 DEF FinishCommand, Finish, ReleaseBlocks, accessVars, dialogVars
<1>10. CASE FilePropertiesMsg
  BY <1>10 DEF FilePropertiesMsg, vars, accessVars, dialogVars
<1>11. CASE SheetOfOpenFile
  BY <1>11 DEF SheetOfOpenFile, vars, accessVars, dialogVars
<1>12. CASE SheetReturns
  BY <1>12 DEF SheetReturns, Edit, AppSaveFile, vars, accessVars, dialogVars
<1>13. CASE OpenConnection
  BY <1>13, OpenConnectionKeeps DEF DInv
<1> QED
  BY <1>1, <1>2, <1>3, <1>4, <1>5, <1>6, <1>7, <1>8, <1>9, <1>10, <1>11, <1>12, <1>13
     DEF OpeningNext

\* A step is one of a command or of a dialog, and only a new command or a new
\* sheet makes a dialog anew.
LEMMA NextDInv == DInv /\ [OpeningNext]_<<vars, dialogs>> => DInv'
<1> SUFFICES ASSUME DInv, [OpeningNext]_<<vars, dialogs>> PROVE DInv'
  OBVIOUS
<1>1. CASE Begin \/ FilePropertiesMsg \/ OpenConnection
  BY <1>1, BeginKeeps, FilePropertiesMsgKeeps, OpenConnectionKeeps
<1>2. CASE OpeningNext /\ ~Begin /\ ~FilePropertiesMsg /\ ~OpenConnection
  <2>1. [Access!Next]_accessVars
    BY <1>2
       DEF OpeningNext, Proceed, AccessDialog, AccessReturns, PropsMissing, PropsDialog,
           PropsReturns, KeyProceeds, FinishCommand, SheetOfOpenFile, SheetReturns, dialogs
  <2>2. [Props!Next]_propVars
    BY <1>2
       DEF OpeningNext, Proceed, AccessDialog, AccessReturns, PropsMissing, PropsDialog,
           PropsReturns, KeyProceeds, FinishCommand, SheetOfOpenFile, SheetReturns, dialogs,
           Props!Next
  <2>3. Control'
    BY <1>2, NextControl
  <2> QED BY <2>1, <2>2, <2>3, NextAccess, NextProps DEF DInv
<1>3. CASE UNCHANGED <<vars, dialogs>>
  <2>1. Control'
    BY <1>3 DEF DInv, Control, vars, dialogs, accessVars, dialogVars, propVars
  <2> QED BY <1>3, <2>1, NextAccess, NextProps DEF DInv, dialogs
<1> QED BY <1>1, <1>2, <1>3

\* So the invariant of the dialogs holds in every state of every behaviour.
LEMMA SpecDInv == OpeningSpec => []DInv
BY InitDInv, NextDInv, PTL DEF OpeningSpec

\* With any passwords and any number of attempts, the password dialog succeeds
\* only with a password that was accepted, the sheet gives only a key that was
\* typed twice, and neither keeps a password longer than it is used
\* (FileAccessWindow.c, FilePropertiesWindow.c).
THEOREM DialogsAreRight == OpeningSpec => []DialogsRight
<1>1. DInv => DialogsRight
  <2> SUFFICES ASSUME DInv PROVE DialogsRight
    OBVIOUS
  <2>1. Props!CueMeansKeep
    <3> SUFFICES ASSUME propPc = "open"
                 PROVE  cue.shown = IF passExists /\ ~readonly /\ fields = <<"", "">>
                                    THEN {1, 2} ELSE {}
      BY DEF Props!CueMeansKeep
    <3>1. CueFollowsFields /\ fields \in Props!Texts \X Props!Texts
      BY DEF DInv, PropsInv, Props!TypeOK
    <3>2. fields = <<"", "">> <=> fields[1] = "" /\ fields[2] = ""
      <4>1. PICK a \in Props!Texts, b \in Props!Texts : fields = <<a, b>>
        BY <3>1
      <4>2. fields[1] = a /\ fields[2] = b
        BY <4>1
      <4> QED BY <4>1, <4>2
    <3> QED BY <3>1, <3>2 DEF CueFollowsFields
  <2> QED BY <2>1 DEF DInv, AccessInv, PropsInv, DialogsRight
<1> QED BY <1>1, SpecDInv, PTL

\* A file is shown only after its own password was typed, or some password if it
\* was empty, and a new one gets only a key that was typed twice
\* (OpenFileInternal, AppNewFile).
THEOREM OnlyPasswordsLetIn == OpeningSpec => []LetInByPassword
<1>1. DInv => LetInByPassword
  BY DEF DInv, AccessInv, PropsInv, Control, LetInByPassword, Access!OkMeansAccepted, Access!Opens,
         Props!KeyIsTypedTwice, Props!NewFileGetsPassword
<1> QED BY <1>1, SpecDInv, PTL

\* Between two commands no password is left anywhere in the dialogs, and none
\* unseen in a field after a refused attempt.
THEOREM SecretsAreGone == OpeningSpec => SecretsGone
<1> DEFINE Clean == pc = "idle" /\ NoSheet =>
                      /\ field = "" /\ widePassBuffer = "" /\ utf8PassBuffer = ""
                      /\ buffers = {} /\ key = "" /\ fields = <<"", "">>
           NoneHidden == accessPc = "message" /\ accessPc' = "idle" /\ ~checked => field' = ""
<1>1. DInv => Clean
  BY DEF DInv, AccessInv, PropsInv, Control, NoSheet, Access!PasswordOnlyWhileAsked
<1>2. DInv /\ [OpeningNext]_<<vars, dialogs>> => [NoneHidden]_(Access!vars)
  <2> SUFFICES ASSUME DInv, [OpeningNext]_<<vars, dialogs>>,
                      accessPc = "message", accessPc' = "idle", ~checked
               PROVE  field' = ""
    BY DEF NoneHidden
  <2>1. Access!MessageClosed
    BY DEF OpeningNext, Begin, NewDialogs, Proceed, OpenConnection, AccessDialog, AccessReturns,
           PropsMissing, PropsDialog, PropsReturns, KeyProceeds, FinishCommand,
           FilePropertiesMsg, SheetOfOpenFile, SheetReturns, dialogs, accessVars, dialogVars,
           Access!Next, Access!ShowFileAccess, Access!Type,
           Access!FileAccessShowPasswordClicked, Access!FileAccessValidatePassword,
           Access!CallbackReturns, Access!Cancel, Access!FreeDialog
  <2> QED BY <2>1 DEF DInv, AccessInv, Access!MessageClosed
<1> QED
  BY <1>1, <1>2, SpecDInv, PTL
     DEF OpeningSpec, SecretsGone, Access!NoHiddenLeftover
=============================================================================
