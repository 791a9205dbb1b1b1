------------------------------- MODULE Window -------------------------------
(***************************************************************************)
(* The parts of the main window that share no state, side by side: the     *)
(* splitter bar, the message loop, the menus, the details of the selected  *)
(* record and the drop target.  A behaviour takes one of them and runs it  *)
(* as its own specification says; steps of several of them in between each *)
(* other would lead to no other state of any one.                          *)
(***************************************************************************)
EXTENDS Splitter

CONSTANTS
    NULL,
    MaxRecordCount, MaxLevelDepth,                             \* Menus
    MaxRecordId, Titles, NewItemTitle, WritesFail, ReadsFail,  \* Details
    Limit, MaxText                                             \* DropTarget

ASSUME MenuAssumption == MaxRecordCount \in Nat /\ MaxLevelDepth \in Nat \ {0}

ASSUME DetailAssumption == MaxRecordId \in Nat /\ NewItemTitle \in Titles

VARIABLES
    part,  \* the part that runs
    active, windows, focus, enabled, minimized, box, hWndFocus, hWndAbout, loop, left, todo,
    menuFile, changed, items, menuCaret, menuFocus, readonly, selection, popup, offered, did,
    file, table, tree, caret, edit, rows, last,
    object, refCount, holders, allowDrop, formatIndex, window, length, drag, effect

Loop == INSTANCE MsgLoop
Menu == INSTANCE Menus WITH
            file <- menuFile, caret <- menuCaret, focus <- menuFocus, enabled <- offered
Detail == INSTANCE Details
Drop == INSTANCE DropTarget

\* NULL is no window.
ASSUME LoopAssumption ==
    NULL \notin Loop!Children \cup {"main", "about", "elsewhere"}

\* NULL is no drag.
ASSUME DropAssumption ==
    Limit \in Nat /\ MaxText \in Nat /\ NULL \notin Drop!Offers

loopVars == <<active, windows, focus, enabled, minimized, box, hWndFocus, hWndAbout,
              loop, left, todo>>
menuVars == <<menuFile, changed, items, menuCaret, menuFocus, readonly, selection,
              popup, offered, did>>
detailVars == <<file, table, tree, caret, edit, rows, last>>
dropVars == <<object, refCount, holders, allowDrop, formatIndex, window, length,
              drag, effect>>
allVars == <<part, vars, loopVars, menuVars, detailVars, dropVars>>

WindowInit ==
    /\ part \in {"splitter", "loop", "menus", "details", "drop"}
    /\ Init /\ (part # "splitter" => cursor = 0)
    /\ Loop!Init /\ Menu!Init /\ Detail!Init /\ Drop!Init

SplitterStep == part = "splitter" /\ Next
                /\ UNCHANGED <<part, loopVars, menuVars, detailVars, dropVars>>
LoopStep == part = "loop" /\ Loop!Next
            /\ UNCHANGED <<part, vars, menuVars, detailVars, dropVars>>
MenuStep == part = "menus" /\ Menu!Next
            /\ UNCHANGED <<part, vars, loopVars, detailVars, dropVars>>
DetailStep == part = "details" /\ Detail!Next
              /\ UNCHANGED <<part, vars, loopVars, menuVars, dropVars>>
DropStep == part = "drop" /\ Drop!Next
            /\ UNCHANGED <<part, vars, loopVars, menuVars, detailVars>>

WindowNext == SplitterStep \/ LoopStep \/ MenuStep \/ DetailStep \/ DropStep

WindowSpec == WindowInit /\ [][WindowNext]_allVars

-----------------------------------------------------------------------------
\* After every order of activating, leaving and closing windows the message
\* loop serves the active window, its accelerators follow the focus, nothing
\* names an About dialog that is gone and the focus comes back (AppBase.c,
\* AboutWindow.c, MainWmActivate).
LoopRight ==
    Loop!TypeOK /\ Loop!LoopServesActive /\ Loop!AcceleratorsFollowFocus
    /\ Loop!NoDeadAbout /\ Loop!FocusComesBack

\* What menus and keys offer is done, by the window it was offered for and
\* within the limits of the file; records change only in a file open for
\* writing and go only while the tree has the focus (MainWmInitMenuPopup,
\* AppEditCommand).
OffersKept ==
    /\ [](Menu!TypeOK /\ Menu!LimitsKept)
    /\ Menu!OfferedIsDone /\ Menu!OnlyWriteFileWritten
    /\ Menu!RenameStartsEdit /\ Menu!ItemDeletedOnlyFromTree

\* The list and the notes are of the selected record whatever statements fail
\* (MainWmNotifyTvnSelChanged and the operations on a record).
DetailsRight == Detail!TypeOK /\ Detail!RowsRight /\ Detail!NotesOfOwnRecord

\* Only saving notes makes the list fall behind its record, and every item of
\* the tree keeps its record (SaveNotesChanges, AppTreeViewEditItem).
DetailsFollow == Detail!RowsFollowRecord /\ Detail!TreeWithinTable

\* OLE never calls a drop target that is gone, none is left over, and a drop
\* reads the best format of its own source and inserts only where the control
\* could take it when the drag came (AppCom.c).
DropRight ==
    /\ [](Drop!TypeOK /\ Drop!NoDanglingTarget /\ Drop!FreedAtEnd /\ Drop!BestFormatOffered)
    /\ Drop!NoTextUnasked
=============================================================================
