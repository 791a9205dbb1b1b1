------------------------------ MODULE MsgLoop ------------------------------
(***************************************************************************)
(* The message loop of wWinMain keeps one window and one accelerator       *)
(* table, and one previous pair, in MSGLOOP (AppBase.c).  The modeless     *)
(* About dialog (AboutWindow.c) takes the loop over while it is active and *)
(* gives it back; the main window (MainWindow.c) changes the accelerators  *)
(* with the focus of the tree view and saves and restores the focus of its *)
(* children.  All of this runs in handlers of messages that Windows sends  *)
(* in the middle of each other: todo holds the messages of an activation   *)
(* or focus change that are still to be delivered, and every handler is an *)
(* action of its own.  Which messages a user's step causes, and in which   *)
(* order, is the part that is external.                                    *)
(***************************************************************************)
EXTENDS Sequences

CONSTANT NULL             \* no window, no accelerator table

VARIABLES
  active,      \* the window the user works with
  windows,     \* the windows that exist, as far as handles to them are kept
  focus,       \* GetFocus: a child of the main window, or what has it instead
  enabled,     \* EnableWorkspace: tree and edit control are enabled
  minimized,   \* the main window is minimized
  box,         \* a modal dialog of the main window is open
  hWndFocus,   \* APPWINDOWINFO.hWndFocus
  hWndAbout,   \* APPWINDOWINFO.hWndAbout
  loop,        \* MSGLOOP
  left,        \* for the properties: the focus when the main window was left
  todo         \* messages sent but not handled yet

vars == <<active, windows, focus, enabled, minimized, box, hWndFocus,
          hWndAbout, loop, left, todo>>
user == <<active, windows, enabled, minimized, box>>

Children == {"tree", "edit", "label"}
Quiet == todo = <<>>

Messages == {"mainOn", "mainOff", "mainOnMinimized", "mainOffMinimized", "mainDestroy",
             "aboutInit", "aboutOn", "aboutOff", "aboutDestroy",
             "treeSet", "treeKill", "labelKill", "focusAbout", "focusElsewhere"}

TypeOK ==
  /\ active \in {"main", "about", "box", "other"}
  /\ windows \subseteq Children \cup {"main", "about"}
  /\ focus \in Children \cup {"main", "about", "elsewhere"}
  /\ {enabled, minimized, box} \subseteq BOOLEAN
  /\ hWndFocus \in Children \cup {NULL}
  /\ hWndAbout \in {"about", NULL}
  /\ loop \in [hWnd : {"main", "about", NULL}, hAccel : {"main", "tree", NULL},
               hWndPrev : {"main", "about", NULL}, hAccelPrev : {"main", "tree", NULL}]
  /\ left \in Children \cup {"main", "about", "elsewhere", NULL}
  /\ todo \in Seq(Messages)

-----------------------------------------------------------------------------
(* MSGLOOP (AppBase.c) *)

\* Mutant: the previous pair is not remembered.
SetMsgLoop_Forgets(hWnd, hAccel) ==
  loop' = [loop EXCEPT !.hWnd = hWnd, !.hAccel = hAccel]

SetMsgLoop(hWnd, hAccel) ==
  loop' = [hWnd |-> hWnd, hAccel |-> hAccel,
           hWndPrev |-> loop.hWnd, hAccelPrev |-> loop.hAccel]

UpdateMsgLoopAccel(hWnd, hAccel) ==
  loop' = IF loop.hWnd = hWnd THEN [loop EXCEPT !.hAccel = hAccel] ELSE loop

RestoreMsgLoop ==
  loop' = IF loop.hWndPrev = NULL THEN loop
          ELSE [hWnd |-> loop.hWndPrev, hAccel |-> loop.hAccelPrev,
                hWndPrev |-> NULL, hAccelPrev |-> NULL]

-----------------------------------------------------------------------------
(* Focus (MainWindow.c) *)

\* SetFocus(x) with messages m to follow: who loses and who gets the focus is
\* told first.  The tree's label editor ends when it loses the focus.
Told(x) ==
  (CASE focus = "tree" -> <<"treeKill">> [] focus = "label" -> <<"labelKill">>
     [] OTHER -> <<>>)
  \o IF x = "tree" THEN <<"treeSet">> ELSE <<>>

MoveFocus(x, m) ==
  /\ focus' = x
  /\ todo' = IF focus = x THEN m ELSE Told(x) \o m

SaveFocus ==
  hWndFocus' = IF hWndFocus = NULL /\ focus \in Children \cap windows
               THEN focus ELSE hWndFocus

\* The control RestoreFocus falls back to: the first tab stop, external.
TabItems == IF enabled THEN {"tree", "edit"} ELSE {"main"}

RestoreFocus ==
  /\ hWndFocus' = NULL
  /\ \E x \in IF hWndFocus \in windows THEN {hWndFocus} ELSE TabItems :
       MoveFocus(x, Tail(todo))

-----------------------------------------------------------------------------
(* Handlers of the messages in todo *)

Deliver(m) == ~Quiet /\ Head(todo) = m

MainWmActivate ==
  \/ /\ Deliver("mainOn")
     /\ RestoreFocus
     /\ UNCHANGED <<user, hWndAbout, loop, left>>
  \/ /\ Deliver("mainOff")
     /\ SaveFocus
     /\ todo' = Tail(todo)
     /\ UNCHANGED <<user, focus, hWndAbout, loop, left>>
  \/ /\ Deliver("mainOnMinimized") \/ Deliver("mainOffMinimized")
     /\ todo' = Tail(todo)
     /\ UNCHANGED <<user, focus, hWndFocus, hWndAbout, loop, left>>

SetActiveAccel(isTreeView) ==
  /\ UpdateMsgLoopAccel("main", IF isTreeView THEN "tree" ELSE "main")
  /\ todo' = Tail(todo)
  /\ UNCHANGED <<user, focus, hWndFocus, hWndAbout, left>>

TreeFocus ==
  \/ Deliver("treeSet") /\ SetActiveAccel(TRUE)
  \/ Deliver("treeKill") /\ SetActiveAccel(FALSE)

AboutMwActivate ==
  /\ \/ Deliver("aboutOn") /\ SetMsgLoop("about", NULL)
     \/ Deliver("aboutOff") /\ RestoreMsgLoop
  /\ todo' = Tail(todo)
  /\ UNCHANGED <<user, focus, hWndFocus, hWndAbout, left>>

\* WM_APP_WINDOWCREATED of the dialog to its parent.
MainWmAppWindowCreated(created) ==
  hWndAbout' = IF created THEN "about" ELSE NULL

AboutWmInitDialog ==
  /\ Deliver("aboutInit")
  /\ MainWmAppWindowCreated(TRUE)
  /\ todo' = Tail(todo)
  /\ UNCHANGED <<user, focus, hWndFocus, loop, left>>

AboutMwDestroy ==
  /\ Deliver("aboutDestroy")
  /\ MainWmAppWindowCreated(FALSE)
  /\ windows' = windows \ {"about"} /\ todo' = Tail(todo)
  /\ UNCHANGED <<active, enabled, minimized, box, focus, hWndFocus, loop, left>>

\* WM_DESTROY and WM_NCDESTROY of the main window: APPWINDOWINFO is gone.
MainWmNcDestroy ==
  /\ Deliver("mainDestroy")
  /\ todo' = <<>> /\ windows' = {}
  /\ UNCHANGED <<active, enabled, minimized, box, focus, hWndFocus, hWndAbout, loop, left>>

\* The default procedures move the focus, or end the label editor.
Default ==
  \/ /\ \/ Deliver("focusAbout") /\ MoveFocus("about", Tail(todo))
        \/ Deliver("focusElsewhere") /\ MoveFocus("elsewhere", Tail(todo))
     /\ UNCHANGED <<user, hWndFocus, hWndAbout, loop, left>>
  \/ /\ Deliver("labelKill")
     /\ windows' = windows \ {"label"} /\ todo' = Tail(todo)
     /\ UNCHANGED <<active, enabled, minimized, box, focus, hWndFocus, hWndAbout, loop, left>>

-----------------------------------------------------------------------------
(* What the user and the commands do, and the messages that follow *)

Off(w) == CASE w = "main" -> <<"mainOff">> [] w = "about" -> <<"aboutOff">>
            [] OTHER -> <<>>
On(w) == CASE w = "main" -> <<"mainOn">> [] w = "about" -> <<"aboutOn", "focusAbout">>
           [] OTHER -> <<"focusElsewhere">>

Switch(w, before, after) ==
  /\ active' = w
  /\ left' = IF active = "main" THEN focus ELSE left
  /\ todo' = before \o Off(active) \o On(w) \o after

Activate(w) ==
  /\ Quiet /\ w # active /\ ~minimized /\ "main" \in windows
  /\ w = "main" => ~box
  /\ w = "box" => box
  /\ w = "about" => "about" \in windows
  /\ Switch(w, <<>>, <<>>)
  /\ UNCHANGED <<windows, focus, enabled, minimized, box, hWndFocus, hWndAbout, loop>>

\* Activates the dialog whose handle it is given, or creates one.
ShowAbout(hWnd) ==
  IF hWnd # NULL
  THEN /\ UNCHANGED windows
       /\ IF hWnd \in windows THEN Switch("about", <<>>, <<>>)
          ELSE UNCHANGED <<active, left, todo>>
  ELSE windows' = windows \cup {"about"} /\ Switch("about", <<"aboutInit">>, <<>>)

MainWmCommandAbout ==
  /\ Quiet /\ active = "main" /\ ~minimized /\ "main" \in windows
  /\ ShowAbout(hWndAbout)
  /\ UNCHANGED <<focus, enabled, minimized, box, hWndFocus, hWndAbout, loop>>

\* IDCANCEL reaches the dialog through IsDialogMessage or its close button.
CloseAbout ==
  /\ Quiet /\ active = "about" /\ "about" \in windows
  /\ Switch(IF box THEN "box" ELSE "main", <<>>, <<"aboutDestroy">>)
  /\ UNCHANGED <<windows, focus, enabled, minimized, box, hWndFocus, hWndAbout, loop>>

OpenBox ==
  /\ Quiet /\ active = "main" /\ ~minimized /\ "main" \in windows
  /\ box' = TRUE
  /\ Switch("box", <<>>, <<>>)
  /\ UNCHANGED <<windows, focus, enabled, minimized, hWndFocus, hWndAbout, loop>>

CloseBox ==
  /\ Quiet /\ active = "box"
  /\ box' = FALSE
  /\ Switch("main", <<>>, <<>>)
  /\ UNCHANGED <<windows, focus, enabled, minimized, hWndFocus, hWndAbout, loop>>

\* SC_MINIMIZE: a minimized window loses the focus before it is deactivated.
MainWmSysCommand ==
  /\ Quiet /\ ~box /\ ~minimized /\ "main" \in windows
  /\ SaveFocus
  /\ minimized' = TRUE /\ active' = "other"
  /\ left' = IF active = "main" THEN focus ELSE left
  /\ todo' = CASE active = "main" -> <<"focusElsewhere", "mainOffMinimized">>
               [] active = "about" -> <<"aboutOff", "focusElsewhere">>
               [] OTHER -> <<>>
  /\ UNCHANGED <<windows, focus, enabled, box, hWndAbout, loop>>

\* Windows may activate a window while it is still minimized, then once more.
RestoreWindow ==
  /\ Quiet /\ minimized
  /\ minimized' = FALSE /\ active' = "main"
  /\ todo' \in {<<"mainOn">>, <<"mainOnMinimized", "mainOn">>}
  /\ UNCHANGED <<windows, focus, enabled, box, hWndFocus, hWndAbout, loop, left>>

InMain == Quiet /\ active = "main" /\ ~minimized /\ "main" \in windows

FocusChild(x) ==
  /\ InMain /\ enabled /\ focus # x
  /\ left' = NULL
  /\ MoveFocus(x, <<>>)
  /\ UNCHANGED <<user, hWndFocus, hWndAbout, loop>>

EditLabel ==
  /\ InMain /\ focus = "tree"
  /\ windows' = windows \cup {"label"}
  /\ left' = NULL
  /\ MoveFocus("label", <<>>)
  /\ UNCHANGED <<active, enabled, minimized, box, hWndFocus, hWndAbout, loop>>

\* A disabled window does not keep the focus.
EnableWorkspace(enable) ==
  /\ InMain /\ enabled # enable
  /\ enabled' = enable
  /\ left' = NULL
  /\ IF focus \in Children THEN MoveFocus("elsewhere", <<>>) ELSE UNCHANGED <<focus, todo>>
  /\ UNCHANGED <<active, windows, minimized, box, hWndFocus, hWndAbout, loop>>

\* MainWmClose: the owned dialog is destroyed before its owner.
Quit ==
  /\ Quiet /\ active \in {"main", "about"} /\ ~box /\ ~minimized /\ "main" \in windows
  /\ active' = "other" /\ left' = NULL
  /\ todo' = (IF active = "about" THEN <<"aboutOff", "mainOn">> ELSE <<>>)
             \o (IF "about" \in windows THEN <<"aboutDestroy">> ELSE <<>>)
             \o <<"mainOff", "focusElsewhere", "mainDestroy">>
  /\ UNCHANGED <<windows, focus, enabled, minimized, box, hWndFocus, hWndAbout, loop>>

\* After MainWmCreate and ShowWindow.
Init ==
  /\ active = "main" /\ focus = "main" /\ left = NULL /\ todo = <<>>
  /\ windows = {"main", "tree", "edit"}
  /\ enabled = FALSE /\ minimized = FALSE /\ box = FALSE
  /\ hWndFocus = NULL /\ hWndAbout = NULL
  /\ loop = [hWnd |-> "main", hAccel |-> "main", hWndPrev |-> NULL, hAccelPrev |-> NULL]

Next ==
  \/ MainWmActivate \/ TreeFocus \/ AboutMwActivate \/ AboutWmInitDialog
  \/ AboutMwDestroy  \/ MainWmNcDestroy \/ Default
  \/ \E w \in {"main", "about", "box", "other"} : Activate(w)
  \/ MainWmCommandAbout \/ CloseAbout \/ OpenBox \/ CloseBox
  \/ MainWmSysCommand \/ RestoreWindow
  \/ \E x \in {"tree", "edit"} : FocusChild(x)
  \/ EditLabel
  \/ \E enable \in BOOLEAN : EnableWorkspace(enable)
  \/ Quit

Spec == Init /\ [][Next]_vars

-----------------------------------------------------------------------------
(* Properties *)

\* Whatever the order in which windows were shown, left and closed, the loop
\* translates messages for the window that is active: the About dialog without
\* accelerators, else the main window.
LoopServesActive ==
  Quiet /\ "main" \in windows =>
    IF active = "about" THEN loop.hWnd = "about" /\ loop.hAccel = NULL
                        ELSE loop.hWnd = "main"

\* In the main window the tree's accelerators (with Delete and Rename) are
\* loaded exactly while the tree has the focus, so that a key typed into the
\* notes never deletes a record.
AcceleratorsFollowFocus ==
  Quiet /\ active = "main" /\ "main" \in windows =>
    loop.hAccel = IF focus = "tree" THEN "tree" ELSE "main"

\* Neither the loop, nor what it goes back to, nor the main window's own handle
\* ever names an About dialog that was destroyed.
NoDeadAbout ==
  "about" \notin windows =>
    /\ hWndAbout = NULL
    /\ "about" \notin {loop.hWnd, loop.hWndPrev}

\* A user who comes back to the main window, from wherever and however it was
\* left, finds the focus in the control that had it, if that still exists.
FocusComesBack ==
  Quiet /\ active = "main" /\ left \in Children \cap windows => focus = left
=============================================================================
