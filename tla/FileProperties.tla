--------------------------- MODULE FileProperties ---------------------------
(***************************************************************************)
(* The file properties dialog (FilePropertiesWindow.c): a property sheet   *)
(* with a page for a new password, typed twice, and a page for title and   *)
(* description (one field here).  It is shown for a new file, which must   *)
(* get a password, for an open file, whose password is kept when both      *)
(* fields are left blank, and for a read-only file.  OK sends PSN_APPLY to *)
(* the pages in turn; the first page, which refuses a password, keeps the  *)
(* sheet open, the second one never refuses.                               *)
(***************************************************************************)
EXTENDS Naturals

CONSTANTS
  Passwords,   \* passwords a user may type, without the empty one
  Titles       \* titles, with the empty one; each may be typed with blanks around

VARIABLES
  pc,          \* what the caller has done: "start", "ready", "open", "done", "freed"
  readonly, passExists,           \* FILEPROPINFO
  title,                          \* FILEPROPINFO.title: <<title, has blanks around>>
  cue,         \* trackPasswordCue, p1HasText and p2HasText of FILEPROPINFOEX, and
               \* the password fields that show the cue
  passwordLength,                 \* it is not 0
  key,                            \* keyInfo: the password it holds, or ""
  fields,                         \* the texts of the two password fields
  titleField,
  buffers,                        \* passwords in the block of memory
  result                          \* of ShowFileProp

vars == <<pc, readonly, passExists, title, cue, passwordLength, key, fields,
          titleField, buffers, result>>
given == <<readonly, passExists>>

Typed == Titles \X BOOLEAN
Texts == Passwords \cup {""}
Secrets(S) == S \ {""}

TypeOK ==
  /\ pc \in {"start", "ready", "open", "done", "freed"}
  /\ {readonly, passExists, passwordLength} \subseteq BOOLEAN
  /\ cue \in [track : BOOLEAN, hasText : BOOLEAN \X BOOLEAN, shown : SUBSET {1, 2}]
  /\ {title, titleField} \subseteq Typed
  /\ key \in Texts /\ fields \in Texts \X Texts
  /\ buffers \subseteq Passwords
  /\ result \in {"none", "failed", "cancel", "ok"}

-----------------------------------------------------------------------------
\* CreateFilePropInfo, and what the caller fills in: a new file, an open one,
\* one that is read-only.
CreateFilePropInfo ==
  /\ pc = "start" /\ pc' = "ready"
  /\ \E p \in {<<FALSE, FALSE>>, <<FALSE, TRUE>>, <<TRUE, TRUE>>} :
       readonly' = p[1] /\ passExists' = p[2]
  /\ title' \in IF passExists' THEN Typed ELSE {<<"", FALSE>>}
  /\ UNCHANGED <<cue, passwordLength, key, fields, titleField, buffers, result>>

\* ShowFileProp opens the sheet; both pages are created at once
\* (FileGeneralPropSheetPageInit, FileMetadataPropSheetPageInit).
ShowFileProp ==
  /\ pc = "ready" /\ pc' = "open"
  /\ key' = ""
  /\ cue' = IF ~readonly /\ passExists
            THEN [cue EXCEPT !.track = TRUE, !.shown = {1, 2}] ELSE cue
  /\ titleField' = title
  /\ UNCHANGED <<given, title, passwordLength, fields, buffers, result>>

\* FileGeneralPasswordChanged, on EN_UPDATE of field i: the cue goes from both
\* fields with the first text and comes back with the last one removed.
FileGeneralPasswordChanged(c, i, text) ==
  LET hasText == [c.hasText EXCEPT ![i] = text # ""]
      prevNoCue == TRUE \in {c.hasText[1], c.hasText[2]}
      noCue == TRUE \in {hasText[1], hasText[2]} IN
  IF ~c.track THEN c
  ELSE [c EXCEPT !.hasText = hasText,
                 !.shown = IF prevNoCue = noCue THEN c.shown
                           ELSE IF noCue THEN {} ELSE {1, 2}]

\* The user types in a field.
TypePassword ==
  /\ pc = "open" /\ ~readonly
  /\ \E i \in {1, 2}, text \in Texts :
       /\ fields' = [fields EXCEPT ![i] = text]
       /\ cue' = FileGeneralPasswordChanged(cue, i, text)
  /\ UNCHANGED <<pc, given, title, passwordLength, key, titleField, buffers, result>>

TypeTitle ==
  /\ pc = "open" /\ ~readonly
  /\ titleField' \in Typed
  /\ UNCHANGED <<pc, given, title, cue, passwordLength, key, fields, buffers, result>>

\* Mutant: the passwords are compared by their length.
Accepts_Length(p1, p2) ==
  (passExists \/ p1 # "") /\ (p1 = "" <=> p2 = "")

\* FileGeneralPropSheetPageApply: what it accepts.
Accepts(p1, p2) == (passExists \/ (p1 # "" /\ p2 # "")) /\ p1 = p2

\* It refuses: a message box, and both fields are cleared, each with its
\* EN_UPDATE.
FileGeneralRefuses ==
  /\ pc = "open" /\ ~readonly /\ ~Accepts(fields[1], fields[2])
  /\ passwordLength' = FALSE
  /\ buffers' = buffers \cup Secrets({fields[1], fields[2]})
  /\ fields' = <<"", "">>
  /\ cue' = FileGeneralPasswordChanged(FileGeneralPasswordChanged(cue, 1, ""), 2, "")
  /\ UNCHANGED <<pc, given, title, key, titleField, result>>

\* TrimWhiteSpace of a typed title.
TrimWhiteSpace(t) == <<t[1], FALSE>>

\* Both pages accept; the sheet closes, and ShowFileProp converts the password
\* (which may fail) and trims the title.  A read-only file keeps everything.
FilePropertiesOk ==
  /\ pc = "open" /\ pc' = "done"
  /\ IF readonly
     THEN result' = "ok" /\ UNCHANGED <<title, passwordLength, key, buffers>>
     ELSE /\ Accepts(fields[1], fields[2])
          /\ buffers' = buffers \cup Secrets({fields[1]})
          /\ passwordLength' = (fields[1] # "")
          /\ \/ /\ result' = "ok" /\ key' = fields[1]
                /\ title' = TrimWhiteSpace(titleField)
             \/ /\ passwordLength' /\ result' = "failed" /\ key' = ""
                /\ title' = titleField
  /\ UNCHANGED <<given, cue, fields, titleField>>

\* The user cancels the sheet, or it cannot be shown.
FilePropertiesCancel ==
  /\ pc = "open" /\ pc' = "done"
  /\ result' \in {"cancel", "failed"}
  /\ UNCHANGED <<given, title, cue, passwordLength, key, fields, titleField, buffers>>

\* DestroyFilePropInfo.  Mutant: the block is not wiped.
DestroyFilePropInfo_NoWipe ==
  /\ pc = "done" /\ pc' = "freed"
  /\ key' = "" /\ fields' = <<"", "">>
  /\ UNCHANGED <<given, title, cue, passwordLength, titleField, buffers, result>>

DestroyFilePropInfo ==
  /\ pc = "done" /\ pc' = "freed"
  /\ buffers' = {} /\ key' = "" /\ fields' = <<"", "">>
  /\ UNCHANGED <<given, title, cue, passwordLength, titleField, result>>

Init ==
  /\ pc = "start" /\ readonly = FALSE /\ passExists = FALSE
  /\ title = <<"", FALSE>> /\ titleField = <<"", FALSE>>
  /\ cue = [track |-> FALSE, hasText |-> <<FALSE, FALSE>>, shown |-> {}]
  /\ passwordLength = FALSE /\ key = "" /\ fields = <<"", "">>
  /\ buffers = {} /\ result = "none"

Next ==
  \/ CreateFilePropInfo \/ ShowFileProp \/ TypePassword \/ TypeTitle
  \/ FileGeneralRefuses \/ FilePropertiesOk \/ FilePropertiesCancel
  \/ DestroyFilePropInfo

Spec == Init /\ [][Next]_vars

-----------------------------------------------------------------------------
\* The key the caller gets is the one typed in both fields, through every
\* refused attempt before; any other end gives no key.
KeyIsTypedTwice ==
  pc = "done" /\ key # "" => result = "ok" /\ fields = <<key, key>>

\* A new file is not saved without a password: OK with no key means that there
\* is a password to keep.
NewFileGetsPassword ==
  pc = "done" /\ result = "ok" /\ key = "" => passExists

\* The cue "leave blank to keep" is seen in both fields exactly while both are
\* blank and there is a password to keep, also after a refused OK cleared them
\* one after the other.
CueMeansKeep ==
  pc = "open" =>
    cue.shown = IF passExists /\ ~readonly /\ fields = <<"", "">> THEN {1, 2} ELSE {}
=============================================================================
