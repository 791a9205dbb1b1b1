---------------------------- MODULE AppLifecycle ----------------------------
(***************************************************************************)
(* The life of the process: wWinMain (AppBase.c) sets the parts of the     *)
(* program up in order, creates the main window (MainWindow.c), runs the   *)
(* message loop and releases what it has set up, on every way out.  Each   *)
(* set-up step may fail.  The creation of the main window is itself a      *)
(* chain of steps inside WM_CREATE; when one fails Windows still sends     *)
(* WM_DESTROY and WM_NCDESTROY, which find a window that is only partly    *)
(* there.  held is everything that must be given back.  Two failures leave *)
(* something behind: a drop target that may not be revoked, and a message  *)
(* loop that fails with the window still there.                            *)
(***************************************************************************)
EXTENDS Sequences, Integers

CONSTANTS
  Fonts        \* handles of fonts; bounds the fonts alive at one time

VARIABLES
  pc,          \* where wWinMain is
  step,        \* steps of the current chain that are done
  held,        \* resources that are set up
  kids,        \* child windows of the main window that exist
  created,     \* APPWINDOWINFO.windowCreated
  fonts,       \* fonts that exist
  font,        \* APPWINDOWINFO.font
  editFont,    \* the font the edit control draws with
  other,       \* MainWmSettingChange's second font: hFont, later hFontOld
  file,        \* the database file the window has open
  enabled,     \* the workspace is enabled
  scheme,      \* the system's current button face colour
  treeBk,      \* the tree view's background: a colour or its default
  quit,        \* WM_QUIT is pending
  box,         \* the error box that is up
  exitCode

vars == <<pc, step, held, kids, created, fonts, font, editFont, other, file, enabled,
          scheme, treeBk, quit, box, exitCode>>
look == <<enabled, scheme, treeBk>>
text == <<fonts, font, editFont, other>>

NONE == "none"

\* The set-up steps of wWinMain: what each leaves to release, and the exit code
\* if it fails.  (The failure of InitDpiInfo is no failure: 96 dpi are taken.)
IsOsSupported == [gives |-> {}, code |-> 1]
CryptInit == [gives |-> {"crypto"}, code |-> 2]
InitWindowsControls == [gives |-> {}, code |-> 3]
OleInitialize == [gives |-> {"ole"}, code |-> 3]
RegisterMainWindowClass == [gives |-> {"appClass"}, code |-> 3]
RegisterSplitterClass == [gives |-> {"splitterClass"}, code |-> 3]

Startup == <<IsOsSupported, CryptInit, InitWindowsControls, OleInitialize,
             RegisterMainWindowClass, RegisterSplitterClass>>

\* The steps of MainWmCreate.  "use" makes nothing that outlives it.
Creation == <<"info", "hAccel", "hAccelTreeView", "font", "statusBar",
              "vsplitter", "treeview", "hsplitter", "listview", "use", "edit",
              "use">>
Windows == {"statusBar", "vsplitter", "treeview", "hsplitter", "listview", "edit"}
Splitters == {"vsplitter", "hsplitter"}

\* "drop" is the edit control's drop target, "lostDrop" one that outlived it.
TypeOK ==
  /\ pc \in {"setup", "create", "destroy", "ncdestroy", "failed", "loop",
             "setfont", "assign", "delete", "cleanup", "exited"}
  /\ step \in 0..Len(Creation)
  /\ held \subseteq {"crypto", "ole", "appClass", "splitterClass", "window", "info",
                     "hAccel", "hAccelTreeView", "drop", "lostDrop"}
  /\ kids \subseteq Windows
  /\ fonts \subseteq Fonts /\ {font, editFont, other} \subseteq Fonts \cup {NONE}
  /\ file \in {"open", NONE}
  /\ {created, enabled, quit} \subseteq BOOLEAN
  /\ scheme \in {"face1", "face2"} /\ treeBk \in {"face1", "face2", "default"}
  /\ box \in {NONE, "startup", "window"}
  /\ exitCode \in {-1, 0, 1, 2, 3}

-----------------------------------------------------------------------------
(* wWinMain: set-up *)

\* A set-up step succeeds; after the last the main window is asked for.
StartupStep ==
  /\ pc = "setup" /\ step < Len(Startup)
  /\ step' = step + 1
  /\ held' = held \cup Startup[step + 1].gives
  /\ UNCHANGED <<pc, kids, created, text, file, look, quit, box, exitCode>>

\* It fails: an error box, then cleanup.
StartupFails ==
  /\ pc = "setup" /\ step < Len(Startup)
  /\ box' = "startup"
  /\ exitCode' = Startup[step + 1].code
  /\ pc' = "cleanup"
  /\ UNCHANGED <<step, held, kids, created, text, file, look, quit>>

\* CreateMainWindow: the window exists while it handles WM_CREATE.
CreateMainWindow ==
  /\ pc = "setup" /\ step = Len(Startup)
  /\ pc' = "create" /\ step' = 0
  /\ held' = held \cup {"window"}
  /\ UNCHANGED <<kids, created, text, file, look, quit, box, exitCode>>

\* ... or GetString or CreateWindowEx fails before WM_CREATE.
CreateMainWindowFails ==
  /\ pc = "setup" /\ step = Len(Startup)
  /\ pc' = "failed"
  /\ UNCHANGED <<step, held, kids, created, text, file, look, quit, box, exitCode>>

-----------------------------------------------------------------------------
(* The main window *)

\* A font that is not in use yet.
CreateIconTitleFont == Fonts \ fonts

\* One step of MainWmCreate succeeds.  The edit control gets the font, the
\* tree view, which starts disabled, the button face colour.
MainWmCreate ==
  /\ pc = "create" /\ step < Len(Creation)
  /\ step' = step + 1
  /\ LET r == Creation[step + 1] IN
     /\ held' = IF r \in Windows \cup {"use", "font"} THEN held ELSE held \cup {r}
     /\ kids' = IF r \in Windows THEN kids \cup {r} ELSE kids
     /\ IF r = "font" THEN \E f \in CreateIconTitleFont : fonts' = fonts \cup {f} /\ font' = f
        ELSE UNCHANGED <<fonts, font>>
     /\ editFont' = IF r = "edit" THEN font ELSE editFont
     /\ treeBk' = IF r = "treeview" THEN scheme ELSE treeBk
  /\ UNCHANGED <<pc, created, other, file, enabled, scheme, quit, box, exitCode>>

\* Mutant: 0 is returned all the same, and the window stays.
MainWmCreateFails_Returns0 ==
  /\ pc = "create" /\ step < Len(Creation)
  /\ pc' = "loop"
  /\ UNCHANGED <<step, held, kids, created, text, file, look, quit, box, exitCode>>

\* A step of it fails: -1, and Windows destroys the window.
MainWmCreateFails ==
  /\ pc = "create" /\ step < Len(Creation)
  /\ pc' = "destroy"
  /\ UNCHANGED <<step, held, kids, created, text, file, look, quit, box, exitCode>>

\* The end of MainWmCreate: the drop target may or may not be registered,
\* which nothing looks at.  Then the loop starts.
MainWmCreated ==
  /\ pc = "create" /\ step = Len(Creation)
  /\ \E registered \in SUBSET {"drop"} : held' = held \cup registered
  /\ created' = TRUE
  /\ pc' = "loop"
  /\ UNCHANGED <<step, kids, text, file, look, quit, box, exitCode>>

\* What is held after UnregisterDropWindow: nothing changes without a drop
\* target, and one whose revocation is refused keeps its reference.
UnregisterDropWindow ==
  {held \ {"drop"}} \cup
    (IF "drop" \in held THEN {(held \ {"drop"}) \cup {"lostDrop"}} ELSE {})

\* WM_DESTROY, before Windows destroys the children.
MainWmDestroy ==
  /\ pc = "destroy"
  /\ pc' = "ncdestroy"
  /\ held' \in UnregisterDropWindow
  /\ kids' = {} /\ editFont' = NONE
  /\ UNCHANGED <<step, created, fonts, font, other, file, look, quit, box, exitCode>>

\* Mutant: the quit message is posted whether the window had come up or not.
MainWmNcDestroy_AlwaysQuits ==
  /\ pc = "ncdestroy"
  /\ held' = held \ {"info", "hAccel", "hAccelTreeView", "window"}
  /\ fonts' = fonts \ {font} /\ font' = NONE
  /\ file' = NONE
  /\ created' = FALSE
  /\ quit' = ("info" \in held)
  /\ pc' = IF created THEN "loop" ELSE "failed"
  /\ UNCHANGED <<step, kids, editFont, other, look, box, exitCode>>

\* WM_NCDESTROY: what the window info holds goes, and the info; the quit
\* message is posted only for a window whose creation had succeeded.
MainWmNcDestroy ==
  /\ pc = "ncdestroy"
  /\ held' = held \ {"info", "hAccel", "hAccelTreeView", "window"}
  /\ fonts' = fonts \ {font} /\ font' = NONE
  /\ file' = NONE
  /\ created' = FALSE
  /\ quit' = created
  /\ pc' = IF created THEN "loop" ELSE "failed"
  /\ UNCHANGED <<step, kids, editFont, other, look, box, exitCode>>

\* The error box of wWinMain after CreateMainWindow returned NULL.
ReportNoWindow ==
  /\ pc = "failed"
  /\ box' = "window"
  /\ pc' = "cleanup"
  /\ UNCHANGED <<step, held, kids, created, text, file, look, quit, exitCode>>

-----------------------------------------------------------------------------
(* The message loop *)

Running == pc = "loop" /\ created /\ ~quit

\* EnableWorkspace, when a file is opened or closed (OpenDbFile, also for the
\* command line's file, and AppCloseFile).
EnableWorkspace(enable) ==
  /\ enabled' = enable
  /\ treeBk' = IF enable THEN "default" ELSE scheme

OpenDbFile ==
  /\ Running /\ file = NONE
  /\ file' = "open"
  /\ EnableWorkspace(TRUE)
  /\ UNCHANGED <<pc, step, held, kids, created, text, scheme, quit, box, exitCode>>

AppCloseFile ==
  /\ file' = NONE
  /\ IF file = NONE THEN UNCHANGED <<enabled, treeBk>> ELSE EnableWorkspace(FALSE)

CloseFile ==
  /\ Running /\ file # NONE
  /\ AppCloseFile
  /\ UNCHANGED <<pc, step, held, kids, created, text, scheme, quit, box, exitCode>>

\* WM_CLOSE: the user did not cancel (if he did, nothing happens).
MainWmClose ==
  /\ Running
  /\ AppCloseFile
  /\ pc' = "destroy"
  /\ UNCHANGED <<step, held, kids, created, text, scheme, quit, box, exitCode>>

\* WM_SETTINGCHANGE with a new icon title font.  CreateIconTitleFont may fail:
\* then nothing changes.
MainWmSettingChange ==
  /\ Running
  /\ \E f \in CreateIconTitleFont : fonts' = fonts \cup {f} /\ other' = f
  /\ pc' = "setfont"
  /\ UNCHANGED <<step, held, kids, created, font, editFont, file, look, quit, box, exitCode>>

\* WM_SETFONT: the edit control takes the new font and draws with it at once.
SetEditFont ==
  /\ pc = "setfont"
  /\ editFont' = other
  /\ pc' = "assign"
  /\ UNCHANGED <<step, held, kids, created, fonts, font, other, file, look, quit, box, exitCode>>

\* e->font is the new one, hFontOld the one it was.
AssignFont ==
  /\ pc = "assign"
  /\ font' = other /\ other' = font
  /\ pc' = "delete"
  /\ UNCHANGED <<step, held, kids, created, fonts, editFont, file, look, quit, box, exitCode>>

\* DeleteObject, and the message is done.
DeleteOldFont ==
  /\ pc = "delete"
  /\ fonts' = fonts \ {other} /\ other' = NONE
  /\ pc' = "loop"
  /\ UNCHANGED <<step, held, kids, created, font, editFont, file, look, quit, box, exitCode>>

\* WM_SYSCOLORCHANGE: the system's colours have changed.
MainWmSysColorChange ==
  /\ Running
  /\ scheme' = IF scheme = "face1" THEN "face2" ELSE "face1"
  /\ treeBk' = IF enabled THEN "default" ELSE scheme'
  /\ UNCHANGED <<pc, step, held, kids, created, text, file, enabled, quit, box, exitCode>>

\* GetMessage returns -1: the loop is left as it is, with the window and the
\* file, if they are there.
GetMessageFails ==
  /\ pc = "loop"
  /\ pc' = "cleanup"
  /\ UNCHANGED <<step, held, kids, created, text, file, look, quit, box, exitCode>>

\* GetMessage takes WM_QUIT: the loop ends.
LoopEnds ==
  /\ pc = "loop" /\ quit
  /\ quit' = FALSE /\ exitCode' = 0 /\ pc' = "cleanup"
  /\ UNCHANGED <<step, held, kids, created, text, file, look, box>>

-----------------------------------------------------------------------------
\* UnregisterClass fails while a window of the class is there.
InUse == (IF "window" \in held THEN {"appClass"} ELSE {})
         \cup (IF kids \cap Splitters # {} THEN {"splitterClass"} ELSE {})

\* The end of wWinMain: the error box, if any, has been closed; what was set
\* up is released.
Cleanup ==
  /\ pc = "cleanup"
  /\ held' = held \ ({"appClass", "splitterClass", "crypto", "ole"} \ InUse)
  /\ box' = NONE /\ pc' = "exited"
  /\ UNCHANGED <<step, kids, created, text, file, look, quit, exitCode>>

Init ==
  /\ pc = "setup" /\ step = 0 /\ held = {} /\ kids = {}
  /\ created = FALSE /\ fonts = {} /\ font = NONE /\ editFont = NONE /\ other = NONE
  /\ file = NONE /\ enabled = FALSE /\ scheme = "face1" /\ treeBk = "default"
  /\ quit = FALSE /\ box = NONE /\ exitCode = -1

\* What goes on without the user once it is begun.
Program ==
  \/ StartupStep \/ StartupFails \/ CreateMainWindow \/ CreateMainWindowFails
  \/ MainWmCreate \/ MainWmCreateFails \/ MainWmCreated
  \/ MainWmDestroy \/ MainWmNcDestroy \/ ReportNoWindow
  \/ SetEditFont \/ AssignFont \/ DeleteOldFont \/ LoopEnds \/ Cleanup

Next ==
  \/ Program
  \/ OpenDbFile \/ CloseFile \/ MainWmClose
  \/ MainWmSettingChange \/ MainWmSysColorChange \/ GetMessageFails

\* The thread runs: a step it can do by itself is done.  The user need not do
\* anything, and GetMessage need not fail.
Spec == Init /\ [][Next]_vars /\ WF_vars(Program)

-----------------------------------------------------------------------------
\* Whatever step failed, and however the window went away, the process ends
\* with no class, provider, OLE, window, accelerators, font or open file left
\* (the cleanup of wWinMain with MainWmDestroy and MainWmNcDestroy): all that can
\* be left is a drop target that Windows refused to revoke.  Only a message loop
\* that failed leaves the window, and then the exit code says that it failed and
\* OLE and the provider are given back all the same.
CleanExit ==
  pc = "exited" =>
    /\ held \cap {"crypto", "ole"} = {}
    /\ \/ held \subseteq {"lostDrop"} /\ fonts = {} /\ kids = {} /\ file = NONE
       \/ "window" \in held /\ exitCode = -1

\* An error box of wWinMain is never shown with WM_QUIT pending, which would
\* close it at once (the comment at MainWindow.c:738).
ErrorBoxStays == box # NONE => ~quit

\* What a part of the program uses is set up before it and, while messages can
\* still come, there: the window needs its class, the splitters theirs, the drop
\* target OLE and the edit control, and an open file the crypto provider.
UsesWhatIsThere ==
  pc # "exited" =>
    /\ "window" \in held => "appClass" \in held
    /\ kids \cap Splitters # {} => "splitterClass" \in held
    /\ "drop" \in held => {"ole", "window"} \subseteq held /\ "edit" \in kids
    /\ file # NONE => {"crypto", "info"} \subseteq held

\* The edit control never draws with a font that is deleted, between the steps of
\* every change of the system's font and at the end of the window; and fonts do
\* not pile up: there is a second one only while it takes the place of the first
\* (MainWmSettingChange, MainWmNcDestroy).
FontInUseExists ==
  /\ "edit" \in kids /\ editFont # NONE => editFont \in fonts
  /\ fonts = {font, other} \ {NONE}
  /\ other # NONE => pc \in {"setfont", "assign", "delete"}

\* A tree view that is disabled has the colour of the current scheme, one that
\* is enabled its own, through every order of opening, closing and changing the
\* colours (the comment in SetTreeViewColors).
TreeColour ==
  pc = "loop" /\ "treeview" \in kids =>
    treeBk = IF file # NONE THEN "default" ELSE scheme

\* A window that is being destroyed always ends the process.
WindowEnds == (pc = "destroy" /\ created) ~> (pc = "exited")
=============================================================================
