----------------------------- MODULE FileAccess -----------------------------
(***************************************************************************)
(* The password dialog (FileAccessWindow.c), which the main window shows   *)
(* when an encrypted file is opened.  OK takes the text of the field,      *)
(* converts it to UTF-8 and asks the caller (IsValidPassword in            *)
(* MainWindow.c), which may find the password wrong, the file locked by    *)
(* another process, or something else; then the dialog stays and the user  *)
(* may try again.  Each of these is a step of its own, so that what is     *)
(* kept of the password can be seen in between.  Nobody else writes the    *)
(* file meanwhile; FileLock.tla has the other processes.                   *)
(***************************************************************************)
EXTENDS Naturals

CONSTANTS
  Passwords,   \* passwords a user may type, without the empty one
  Key          \* the password of a file that has content

\* Key is one of Passwords.

VARIABLES
  empty,       \* the file has no page yet, as a new one or one of no bytes
  pc,          \* "start", "idle", "asking", "message", "ended", "freed"
  field,       \* the text of the password field
  checked,     \* the "show password" box
  hidden,      \* the field has ES_PASSWORD
  passwordChar,   \* FILEACCESSPARAMSEX.passwordChar is set
  widePassBuffer, utf8PassBuffer,  \* a password, or ""
  passLen,     \* keyInfo.passLen is not 0
  hasPass,     \* of FileAccessValidatePassword
  answer,      \* what the caller said last
  opened,      \* the password the caller accepted, or ""
  result

vars == <<empty, pc, field, checked, hidden, passwordChar, widePassBuffer,
          utf8PassBuffer, passLen, hasPass, answer, opened, result>>
look == <<checked, hidden, passwordChar>>
buffer == <<widePassBuffer, utf8PassBuffer, passLen, hasPass>>

Texts == Passwords \cup {""}

TypeOK ==
  /\ pc \in {"start", "idle", "asking", "message", "ended", "freed"}
  /\ {field, widePassBuffer, utf8PassBuffer, opened} \subseteq Texts
  /\ {empty, checked, hidden, passwordChar, passLen, hasPass} \subseteq BOOLEAN
  /\ answer \in {"none", "ok", "error", "inuse", "invalid"}
  /\ result \in {"none", "ok", "cancel", "failed"}

-----------------------------------------------------------------------------
\* ShowFileAccess and FileAccessWmInitDialog.  Without memory for the dialog's
\* block there is no dialog.
ShowFileAccess ==
  /\ pc = "start"
  /\ \/ /\ pc' = "idle" /\ passwordChar' = TRUE
        /\ UNCHANGED result
     \/ /\ pc' = "freed" /\ result' = "failed"
        /\ UNCHANGED passwordChar
  /\ UNCHANGED <<empty, field, checked, hidden, buffer, answer, opened>>

Type ==
  /\ pc = "idle"
  /\ field' \in Texts
  /\ UNCHANGED <<empty, pc, look, buffer, answer, opened, result>>

\* FileAccessShowPasswordClicked: the box has just changed.
FileAccessShowPasswordClicked ==
  /\ pc = "idle"
  /\ checked' = ~checked
  /\ hidden' = (~checked' /\ passwordChar)
  /\ UNCHANGED <<empty, pc, field, passwordChar, buffer, answer, opened, result>>

\* FileAccessValidatePassword up to the call of the caller.  The conversion may
\* fail: then the length is 0, and the caller is asked about no password.
FileAccessValidatePassword ==
  /\ pc = "idle" /\ pc' = "asking"
  /\ hasPass' = (field # "")
  /\ utf8PassBuffer' \in {field, ""}
  /\ passLen' = (utf8PassBuffer' # "")
  /\ widePassBuffer' = ""
  /\ UNCHANGED <<empty, field, look, answer, opened, result>>

\* The passwords with which the version can be read: a file without a page has
\* nothing to decrypt.
Opens(key) == key \in IF empty THEN Passwords ELSE {Key}

\* Mutant: setting the key is taken for the proof that it is right.
Answers_AnyKey(key) ==
  IF key = "" THEN {"invalid"} ELSE {"error", "inuse", "invalid", "ok"}

\* What IsValidPassword may say of a key.  Nothing is tried without one.  The key
\* may not be set ("error"), the file may be locked by another process, before
\* the password is known to be wrong ("inuse"), or not be read for another
\* reason than its password ("invalid").
Answers(key) ==
  IF key = "" THEN {"invalid"}
  ELSE {"error", "inuse", "invalid"} \cup IF Opens(key) THEN {"ok"} ELSE {}

\* The caller answers.  Whatever it is, the UTF-8 text is wiped; OK ends the
\* dialog, the others show a message box.
CallbackReturns ==
  /\ pc = "asking"
  /\ answer' \in Answers(IF passLen THEN utf8PassBuffer ELSE "")
  /\ opened' = IF answer' = "ok" THEN utf8PassBuffer ELSE ""
  /\ utf8PassBuffer' = "" /\ passLen' = FALSE
  /\ IF answer' = "ok" THEN pc' = "ended" /\ result' = "ok"
     ELSE pc' = "message" /\ UNCHANGED result
  /\ UNCHANGED <<empty, field, look, widePassBuffer, hasPass>>

\* Mutant: the field is cleared only if the password was wrong.
MessageClosed_OnlyInvalid ==
  /\ pc = "message" /\ pc' = "idle"
  /\ field' = IF answer = "invalid" /\ hidden THEN "" ELSE field
  /\ UNCHANGED <<empty, look, buffer, answer, opened, result>>

\* The message box is closed: a field that shows no text is cleared.
MessageClosed ==
  /\ pc = "message" /\ pc' = "idle"
  /\ field' = IF hasPass /\ hidden THEN "" ELSE field
  /\ UNCHANGED <<empty, look, buffer, answer, opened, result>>

Cancel ==
  /\ pc = "idle" /\ pc' = "ended" /\ result' = "cancel"
  /\ UNCHANGED <<empty, field, look, buffer, answer, opened>>

\* The end of ShowFileAccess: the dialog is gone, and its block is freed.
FreeDialog ==
  /\ pc = "ended" /\ pc' = "freed"
  /\ field' = ""
  /\ UNCHANGED <<empty, look, buffer, answer, opened, result>>

Init ==
  /\ empty \in BOOLEAN
  /\ pc = "start" /\ field = "" /\ checked = FALSE /\ hidden = TRUE
  /\ passwordChar = FALSE /\ widePassBuffer = "" /\ utf8PassBuffer = ""
  /\ passLen \in BOOLEAN    \* the block is not cleared; nothing reads it before it is set
  /\ hasPass = FALSE
  /\ answer = "none" /\ opened = "" /\ result = "none"

Next ==
  \/ ShowFileAccess \/ Type \/ FileAccessShowPasswordClicked
  \/ FileAccessValidatePassword \/ CallbackReturns \/ MessageClosed \/ Cancel
  \/ FreeDialog

Spec == Init /\ [][Next]_vars

-----------------------------------------------------------------------------
\* The dialog reports success exactly when the last attempt was accepted: with
\* the file's password, or with any but the empty one if the file is empty, and
\* that is what stands in the field.
OkMeansAccepted ==
  /\ result = "ok" <=> Opens(opened)
  /\ result = "ok" /\ pc = "ended" => field = opened

\* Outside the caller's check no buffer holds the password, in no outcome and
\* in no retry, so that the block is freed without it.
PasswordOnlyWhileAsked ==
  /\ widePassBuffer = ""
  /\ pc # "asking" => utf8PassBuffer = ""

\* After an attempt that failed, for whatever reason, a field whose box says that
\* the text is hidden is empty: the next attempt is not made with an old text
\* unseen.
NoHiddenLeftover ==
  [][pc = "message" /\ pc' = "idle" /\ ~checked => field' = ""]_vars
=============================================================================
