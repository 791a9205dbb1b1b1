----------------------------- MODULE MenusProofs -----------------------------
(* The limits of a file and the rights of a command hold although the handlers *)
(* check neither, for every number of records and every depth: a command is    *)
(* dispatched only in the state its menu was computed for.                     *)
EXTENDS Menus, TLAPS

\* The file may hold no record, but an item at the top is always allowed.
Limits == MaxRecordCount \in Nat /\ MaxLevelDepth \in Nat \ {0}

\* What menu from offers in this state.
Offers(from) ==
    CASE from = "file" -> FileMenu
      [] from = "edit" -> UNION {EditMenu(u, p) : u, p \in BOOLEAN}
      [] from = "tree" -> TreeMenu
      [] OTHER -> {}

\* A menu that is dropped down offers what it would offer now.
OffersHold == enabled \subseteq Offers(popup) /\ (popup = "tree" => file # "none")

\* A file that is closed takes its items along.
Types == TypeOK /\ (file = "none" => items = 0)

IInv == Types /\ OffersHold

-----------------------------------------------------------------------------
(* The menus                                                                 *)

\* Commands on items are for a file open for writing, and within its limits.
LEMMA TreeMenuOffers ==
    ASSUME Types, NEW c \in TreeMenu
    PROVE  /\ c \in TreeCommands /\ file = "write"
           /\ c \in {"newItem", "newSubitem"} => items < MaxRecordCount
           /\ c = "newSubitem" => caret.level < MaxLevelDepth
           /\ c = "rename" => caret # NoItem /\ ~caret.readonly
BY DEF Types, TypeOK, TreeMenu, ItemCommands, CanAddItem, TreeCommands

\* The Edit menu speaks for the window that has the focus.
LEMMA EditMenuOffers ==
    ASSUME Types, NEW c, c \in Offers("edit")
    PROVE  \/ focus = "tree" /\ c \in TreeMenu
           \/ focus \in Controls /\ c \in TextCommands
           \/ focus = "edit" /\ c = "readonly" /\ file = "write"
<1>1. PICK u \in BOOLEAN, p \in BOOLEAN : c \in EditMenu(u, p)
  BY DEF Offers
<1>2. \A control : InitMenuStateForEdit(control, u, p) \subseteq TextCommands
  BY DEF InitMenuStateForEdit, TextCommands
<1> QED
  BY <1>1, <1>2 DEF Types, TypeOK, EditMenu, Controls

\* The File menu has commands of its own.
LEMMA FileMenuOffers == FileMenu \subseteq FileCommands
BY DEF FileMenu, FileCommands

\* A command that is dispatched was offered in the state it is dispatched in.
LEMMA Dispatched ==
    ASSUME IInv, Choose \/ Accelerator
    PROVE  /\ \E from \in {"file", "edit", "tree"} : \E c \in Offers(from) :
                 MainWindowProc(c, from)
           /\ popup' = "none" /\ enabled' = {}
<1>1. CASE Choose
  <2>1. PICK c \in enabled : MainWindowProc(c, popup)
    BY <1>1 DEF Choose
  <2>2. popup \in {"file", "edit", "tree"} /\ c \in Offers(popup)
    BY <1>1, <2>1 DEF Choose, IInv, Types, TypeOK, OffersHold
  <2> QED
    BY <1>1, <2>1, <2>2 DEF Choose
<1>2. CASE Accelerator
  <2>1. popup = "none" /\ UNCHANGED <<popup, enabled>> /\ enabled = {}
    BY <1>2 DEF Accelerator, IInv, OffersHold, Offers
  <2>2. PICK c \in SetActiveAccel, u \in BOOLEAN, p \in BOOLEAN :
          \/ c \in FileMenu /\ MainWindowProc(c, "file")
          \/ c \in EditMenu(u, p) /\ MainWindowProc(c, "edit")
    BY <1>2 DEF Accelerator
  <2>3. FileMenu = Offers("file") /\ EditMenu(u, p) \subseteq Offers("edit")
    BY DEF Offers
  <2> QED
    BY <2>1, <2>2, <2>3
<1> QED
  BY <1>1, <1>2

\* What a command on the tree view may count on.
LEMMA TreeCommandOffered ==
    ASSUME Types, NEW from \in {"edit", "tree"}, NEW c \in Offers(from)
    PROVE  /\ c \in TextCommands \cup TreeCommands /\ c \notin FileCommands
           /\ focus = "tree" => c \in TreeMenu
           /\ c = "readonly" => file = "write"
           /\ from = "edit" /\ focus # "tree" =>
                /\ focus \in Controls
                /\ c \in TextCommands \/ (focus = "edit" /\ c = "readonly")
<1>1. CASE from = "tree"
  BY <1>1, TreeMenuOffers DEF Offers, TreeCommands, FileCommands
<1>2. CASE from = "edit"
  <2>1. \/ focus = "tree" /\ c \in TreeMenu
        \/ focus \in Controls /\ c \in TextCommands
        \/ focus = "edit" /\ c = "readonly" /\ file = "write"
    BY <1>2, EditMenuOffers
  <2> QED
    BY <1>2, <2>1, TreeMenuOffers DEF Controls, TreeCommands, TextCommands, FileCommands
<1> QED
  BY <1>1, <1>2

-----------------------------------------------------------------------------
(* The invariant                                                             *)

\* The variables the commands change.
state == <<file, changed, items, caret, focus, readonly, selection>>

StateTypes ==
    /\ file \in {"none", "read", "write"} /\ changed \in BOOLEAN
    /\ items \in 0..MaxRecordCount /\ caret \in Items \cup {NoItem}
    /\ ((items = 0 \/ file = "none") => caret = NoItem)
    /\ focus \in {"tree", "edit", "label", "list", "none"}
    /\ (file = "none" => focus = "none" /\ items = 0)
    /\ readonly \in BOOLEAN
    /\ selection \in [Controls -> Selections]

\* A command of the File menu leaves all of it well typed.
LEMMA FileCommandTypes ==
    ASSUME Limits, Types, NEW c, FileCommand(c)
    PROVE  StateTypes'
<1>1. CASE UNCHANGED state
  BY <1>1 DEF state, Types, TypeOK, StateTypes
<1>2. CASE ShowFile
  <2>1. selection' \in [Controls -> Selections]
    BY <1>2 DEF ShowFile, Types, TypeOK, Controls, Selections
  <2>2. \/ items' = 0 /\ caret' = NoItem /\ readonly' \in BOOLEAN
        \/ /\ items' > 0
           /\ caret' \in [level : {1}, readonly : BOOLEAN]
           /\ readonly' = (caret'.readonly \/ file' = "read")
    BY <1>2 DEF ShowFile
  <2>3. [level : {1}, readonly : BOOLEAN] \subseteq Items
    BY DEF Limits, Items
  <2>4. items' \in 0..MaxRecordCount /\ file' \in {"read", "write"}
        /\ changed' = FALSE /\ focus' = "tree"
    BY <1>2 DEF ShowFile
  <2>5. CASE items' = 0 /\ caret' = NoItem /\ readonly' \in BOOLEAN
    BY <2>1, <2>4, <2>5 DEF StateTypes
  <2>6. CASE /\ items' > 0 /\ caret' \in Items
             /\ readonly' = (caret'.readonly \/ file' = "read")
    <3>1. readonly' \in BOOLEAN
      BY <2>6, <2>4 DEF Items
    <3>2. items' # 0 /\ file' # "none"
      BY <2>6, <2>4
    <3> QED
      BY <2>1, <2>4, <2>6, <3>1, <3>2 DEF StateTypes
  <2> QED
    BY <2>2, <2>3, <2>5, <2>6
<1>3. CASE AppCloseFile
  <2>1. selection' \in [Controls -> Selections]
    BY <1>3 DEF AppCloseFile, Selections
  <2>2. items' \in 0..MaxRecordCount /\ caret' = NoItem
    BY <1>3 DEF AppCloseFile, Limits
  <2>3. readonly' \in BOOLEAN
    <3>1. readonly' = readonly \/ readonly' = (file = "read")
      BY <1>3 DEF AppCloseFile
    <3> QED BY <3>1 DEF Types, TypeOK
  <2> QED
    BY <1>3, <2>1, <2>2, <2>3 DEF AppCloseFile, StateTypes
<1>4. CASE changed' \in BOOLEAN /\ UNCHANGED <<items, caret, readonly, file, focus, selection>>
  BY <1>4 DEF Types, TypeOK, StateTypes
<1> QED
  BY <1>1, <1>2, <1>3, <1>4 DEF FileCommand, state

\* A command on the records stays within the limits.
LEMMA TreeCommandTypes ==
    ASSUME Limits, Types, focus = "tree", NEW c \in TreeMenu,
           ProcessMenuCommandForTreeView(c)
    PROVE  StateTypes'
<1> USE DEF Types, TypeOK, StateTypes
<1>1. CASE UNCHANGED state
  BY <1>1 DEF state
<1>2. file = "write" /\ c \in TreeCommands
  BY TreeMenuOffers
<1>3. CASE /\ c \in {"newItem", "newSubitem"}
           /\ \E level \in 1..MaxLevelDepth : AppTreeViewNewItem(level)
  <2>1. PICK level \in 1..MaxLevelDepth : AppTreeViewNewItem(level)
    BY <1>3
  <2>2. items < MaxRecordCount
    BY <1>3, TreeMenuOffers
  <2>3. CASE UNCHANGED <<items, changed, caret, readonly, file, focus, selection>>
    BY <2>3
  <2>4. CASE /\ items' = items + 1 /\ changed' = TRUE
             /\ caret' = [level |-> level, readonly |-> FALSE] /\ readonly' = FALSE
             /\ focus' = "label" /\ selection' = [selection EXCEPT !["label"] = "all"]
             /\ UNCHANGED file
    <3>1. caret' \in Items
      BY <2>4 DEF Items
    <3>2. items' \in 0..MaxRecordCount /\ items' # 0
      BY <2>2, <2>4 DEF Limits
    <3>3. selection' \in [Controls -> Selections]
      BY <2>4 DEF Controls, Selections
    <3> QED
      BY <1>2, <2>4, <3>1, <3>2, <3>3
  <2> QED
    BY <2>1, <2>3, <2>4 DEF AppTreeViewNewItem
<1>4. CASE c = "rename"
  <2>1. selection' \in [Controls -> Selections] /\ focus' \in {"tree", "label"}
    BY <1>2, <1>4
       DEF ProcessMenuCommandForTreeView, TreeCommands, MainWmNotifyTvnBeginLabelEdit,
           Controls, Selections
  <2>2. UNCHANGED <<items, changed, caret, readonly, file>>
    BY <1>2, <1>4 DEF ProcessMenuCommandForTreeView, TreeCommands
  <2> QED
    BY <1>2, <2>1, <2>2
<1>5. CASE c = "delete"
  <2>1. AppTreeViewDeleteItem
    BY <1>5 DEF ProcessMenuCommandForTreeView, TreeCommands
  <2>2. CASE UNCHANGED <<items, changed, caret, readonly, file, focus, selection>>
    BY <2>2
  <2>3. ASSUME NEW left \in 0..items - 1, items' = left, changed' = TRUE,
               UNCHANGED <<file, focus, selection>>,
               \/ left = 0 /\ caret' = NoItem /\ readonly' = TRUE
               \/ left > 0 /\ caret' \in Items /\ readonly' = (caret'.readonly \/ file = "read")
        PROVE  StateTypes'
    <3>1. items' \in 0..MaxRecordCount
      BY <2>3 DEF Limits
    <3>2. CASE left = 0 /\ caret' = NoItem /\ readonly' = TRUE
      BY <2>3, <3>1, <3>2
    <3>3. CASE left > 0 /\ caret' \in Items /\ readonly' = (caret'.readonly \/ file = "read")
      <4>1. readonly' \in BOOLEAN
        BY <3>3 DEF Items
      <4> QED
        BY <1>2, <2>3, <3>1, <3>3, <4>1
    <3> QED
      BY <2>3, <3>2, <3>3
  <2> QED
    BY <2>1, <2>2, <2>3 DEF AppTreeViewDeleteItem
<1>6. CASE c = "readonly"
  <2>1. AppTreeViewSetReadOnlyItem
    BY <1>6 DEF ProcessMenuCommandForTreeView, TreeCommands
  <2> QED
    BY <1>2, <2>1 DEF AppTreeViewSetReadOnlyItem, Items, NoItem
<1>7. c \in {"newItem", "newSubitem"} => \E level \in 1..MaxLevelDepth : AppTreeViewNewItem(level)
  <2>1. caret # NoItem => caret.level \in 1..MaxLevelDepth
    BY DEF Items
  <2>2. CASE c = "newItem"
    BY <2>1, <2>2 DEF ProcessMenuCommandForTreeView, TreeCommands, Limits
  <2>3. CASE c = "newSubitem"
    <3>1. caret.level \in 0..MaxLevelDepth - 1
      BY <2>1, <2>3, TreeMenuOffers DEF Limits, NoItem
    <3>2. caret.level + 1 \in 1..MaxLevelDepth
      BY <3>1 DEF Limits
    <3> QED
      BY <2>3, <3>2 DEF ProcessMenuCommandForTreeView, TreeCommands
  <2> QED
    BY <2>2, <2>3
<1> QED
  BY <1>2, <1>3, <1>4, <1>5, <1>6, <1>7 DEF TreeCommands

\* A command on a text leaves all of it well typed, and the records alone.
LEMMA TextCommandTypes ==
    ASSUME Types, NEW control \in Controls, NEW c,
           ProcessMenuCommandForEdit(control, c)
    PROVE  StateTypes' /\ UNCHANGED <<items, caret, file, focus>>
<1>1. selection' \in [Controls -> Selections]
  BY DEF ProcessMenuCommandForEdit, Types, TypeOK, Controls, Selections
<1>2. changed' \in BOOLEAN
  BY DEF ProcessMenuCommandForEdit, Types, TypeOK
<1>3. UNCHANGED <<items, caret, readonly, file, focus>>
  BY DEF ProcessMenuCommandForEdit
<1> QED
  BY <1>1, <1>2, <1>3 DEF Types, TypeOK, StateTypes

\* Making an item read-only leaves all of it well typed.
LEMMA ReadOnlyTypes ==
    ASSUME Types, AppTreeViewSetReadOnlyItem
    PROVE  StateTypes' /\ UNCHANGED <<items, file, focus>>
<1>1. CASE caret = NoItem
  BY <1>1 DEF AppTreeViewSetReadOnlyItem, Types, TypeOK, StateTypes
<1>2. CASE caret # NoItem
  <2>1. caret \in Items
    BY <1>2 DEF Types, TypeOK
  <2>2. caret' \in Items /\ readonly' \in BOOLEAN
    BY <1>2, <2>1 DEF AppTreeViewSetReadOnlyItem, Items
  <2> QED
    BY <1>2, <2>1, <2>2 DEF AppTreeViewSetReadOnlyItem, Types, TypeOK, StateTypes
<1> QED
  BY <1>1, <1>2

-----------------------------------------------------------------------------
(* A command                                                                 *)

Commands == FileCommands \cup TextCommands \cup TreeCommands

Dids == [command : Commands, from : {"file", "edit", "tree"},
         op : Commands \cup {"none"}, on : {"file", "tree", "none"} \cup Controls]

\* What the action properties say of one step.
WriteStep == did'.on = "tree" /\ did'.op # "none" => file = "write"
RenameStep == did'.on = "tree" /\ did'.op = "rename" => focus' = "label"
DeleteStep == items' < items /\ file' = file /\ did'.from # "file" => focus = "tree"
OfferedStep ==
    did' # Nothing /\ did'.from # "file" /\ (did'.from = "tree" => focus = "tree") =>
      /\ did'.op = did'.command
      /\ did'.on = focus \/ (did'.on = "tree" /\ did'.command = "readonly")
RightStep == WriteStep /\ RenameStep /\ DeleteStep /\ OfferedStep

\* An offered command that is not for the file does what it was offered for.
LEMMA ItemOrTextCommand ==
    ASSUME Limits, Types, NEW from \in {"edit", "tree"}, NEW c \in Offers(from),
           AppEditCommand(c, from)
    PROVE  StateTypes' /\ did' \in Dids /\ RightStep
<1> DEFINE offered ==
         /\ c \in TextCommands \cup TreeCommands /\ c \notin FileCommands
         /\ focus = "tree" => c \in TreeMenu
         /\ c = "readonly" => file = "write"
         /\ from = "edit" /\ focus # "tree" =>
              /\ focus \in Controls
              /\ c \in TextCommands \/ (focus = "edit" /\ c = "readonly")
<1>1. offered
  BY TreeCommandOffered
<1>2. CASE focus \in Controls /\ c \in TextCommands /\ Did(c, from, focus)
           /\ ProcessMenuCommandForEdit(focus, c)
  <2>1. StateTypes' /\ UNCHANGED <<items, caret, file, focus>>
    BY <1>2, TextCommandTypes
  <2>2. did' = [command |-> c, from |-> from, op |-> c, on |-> focus]
    BY <1>2 DEF Did, Controls
  <2>3. did' \in Dids
    BY <1>2, <2>2 DEF Dids, Commands
  <2>4. items \in Nat /\ items' = items
    BY <2>1 DEF Types, TypeOK, Limits
  <2>5. ~(items' < items)
    BY <2>4
  <2> QED
    BY <1>2, <2>1, <2>2, <2>3, <2>5
       DEF RightStep, WriteStep, RenameStep, DeleteStep, OfferedStep, Controls
<1>3. CASE focus = "edit" /\ c = "readonly" /\ Did(c, from, "tree")
           /\ AppTreeViewSetReadOnlyItem
  <2>1. StateTypes' /\ UNCHANGED <<items, file, focus>>
    BY <1>3, ReadOnlyTypes
  <2>2. did' = [command |-> c, from |-> from, op |-> c, on |-> "tree"]
    BY <1>3 DEF Did
  <2>3. did' \in Dids
    BY <1>1, <2>2 DEF Dids, Commands
  <2>4. items \in Nat /\ items' = items
    BY <2>1 DEF Types, TypeOK, Limits
  <2>5. ~(items' < items)
    BY <2>4
  <2> QED
    BY <1>1, <1>3, <2>1, <2>2, <2>3, <2>5
       DEF RightStep, WriteStep, RenameStep, DeleteStep, OfferedStep
<1>4. CASE focus = "tree" /\ Did(c, from, IF c \in TreeCommands THEN "tree" ELSE "none")
           /\ ProcessMenuCommandForTreeView(c)
  <2>1. c \in TreeMenu /\ c \in TreeCommands /\ file = "write"
    BY <1>1, <1>4, TreeMenuOffers
  <2>2. StateTypes'
    BY <1>4, <2>1, TreeCommandTypes
  <2>3. did' = [command |-> c, from |-> from, op |-> c, on |-> "tree"]
    BY <1>4, <2>1 DEF Did
  <2>4. did' \in Dids
    BY <1>1, <2>3 DEF Dids, Commands
  <2>5. c = "rename" => focus' = "label"
    <3>1. c = "rename" => caret # NoItem /\ ~caret.readonly
      BY <2>1, TreeMenuOffers
    <3> QED
      BY <1>4, <2>1, <3>1
         DEF ProcessMenuCommandForTreeView, TreeCommands, MainWmNotifyTvnBeginLabelEdit
  <2> QED
    BY <1>4, <2>1, <2>2, <2>3, <2>4, <2>5
       DEF RightStep, WriteStep, RenameStep, DeleteStep, OfferedStep
<1>5. CASE /\ \/ focus \in {"list", "none"}
              \/ focus = "edit" /\ c \notin TextCommands \cup {"readonly"}
              \/ focus = "label" /\ c \notin TextCommands
           /\ Did(c, from, "none") /\ UNCHANGED state
  <2>1. StateTypes'
    BY <1>5 DEF Types, TypeOK, StateTypes, state
  <2>2. did' = [command |-> c, from |-> from, op |-> "none", on |-> "none"]
    BY <1>5 DEF Did
  <2>3. did' \in Dids
    BY <1>1, <2>2 DEF Dids, Commands
  <2>4. from = "tree" /\ focus # "tree"
    BY <1>1, <1>5 DEF Controls
  <2>5. items \in Nat /\ items' = items
    BY <1>5 DEF Types, TypeOK, Limits, state
  <2>6. ~(items' < items)
    BY <2>5
  <2> QED
    BY <2>1, <2>2, <2>3, <2>4, <2>6
       DEF RightStep, WriteStep, RenameStep, DeleteStep, OfferedStep
<1> QED
  BY <1>2, <1>3, <1>4, <1>5 DEF AppEditCommand, state

\* A command of the File menu is not for the records.
LEMMA CommandOnFile ==
    ASSUME Limits, Types, NEW c \in FileMenu, FileCommand(c)
    PROVE  StateTypes' /\ did' \in Dids /\ RightStep
<1>1. StateTypes'
  BY FileCommandTypes
<1>2. did' = [command |-> c, from |-> "file", op |-> c, on |-> "file"]
  BY DEF FileCommand
<1>3. did' \in Dids
  BY <1>2, FileMenuOffers DEF Dids, Commands
<1> QED
  BY <1>1, <1>2, <1>3 DEF RightStep, WriteStep, RenameStep, DeleteStep, OfferedStep

\* So whatever is dispatched was offered, and is right.
LEMMA DispatchedIsRight ==
    ASSUME Limits, IInv, Choose \/ Accelerator
    PROVE  IInv' /\ RightStep
<1>1. /\ popup' = "none" /\ enabled' = {}
      /\ \E from \in {"file", "edit", "tree"} : \E c \in Offers(from) :
           MainWindowProc(c, from)
  BY Dispatched
<1>2. PICK from \in {"file", "edit", "tree"} : \E c \in Offers(from) : MainWindowProc(c, from)
  BY <1>1
<1>3. PICK c \in Offers(from) : MainWindowProc(c, from)
  BY <1>2
<1>4. StateTypes' /\ did' \in Dids /\ RightStep
  <2>1. CASE from = "file"
    <3>1. c \in FileMenu
      BY <1>3, <2>1 DEF Offers
    <3> QED
      BY <1>3, <2>1, <3>1, CommandOnFile, FileMenuOffers DEF MainWindowProc, IInv
  <2>2. CASE from \in {"edit", "tree"}
    <3>1. c \notin FileCommands
      BY <2>2, TreeCommandOffered DEF IInv
    <3> QED
      BY <1>3, <2>2, <3>1, ItemOrTextCommand DEF MainWindowProc, IInv
  <2> QED
    BY <2>1, <2>2
<1> QED
  BY <1>1, <1>4 DEF IInv, OffersHold, Types, TypeOK, StateTypes, Dids, Commands

-----------------------------------------------------------------------------
(* The other steps                                                           *)

\* A menu that drops down offers what it is computed from.
LEMMA DropHolds ==
    ASSUME IInv, MainWmInitMenuPopup \/ MainWmContextMenuTreeView
    PROVE  IInv' /\ RightStep
<1> SUFFICES ASSUME NEW menu \in {"file", "edit", "tree"}, NEW offered,
                    offered \subseteq Offers(menu), menu = "tree" => file # "none",
                    Drop(menu, offered)
             PROVE  IInv' /\ RightStep
  <2>1. CASE MainWmInitMenuPopup
    <3>1. CASE Drop("file", FileMenu)
      BY <3>1 DEF Offers
    <3>2. CASE \E u, p \in BOOLEAN : Drop("edit", EditMenu(u, p))
      <4>1. PICK u \in BOOLEAN, p \in BOOLEAN : Drop("edit", EditMenu(u, p))
        BY <3>2
      <4>2. EditMenu(u, p) \subseteq Offers("edit")
        BY DEF Offers
      <4> QED
        BY <4>1, <4>2
    <3> QED
      BY <2>1, <3>1, <3>2 DEF MainWmInitMenuPopup
  <2>2. CASE MainWmContextMenuTreeView
    BY <2>2 DEF MainWmContextMenuTreeView, Offers
  <2> QED
    BY <2>1, <2>2
<1>1. UNCHANGED state /\ popup' = menu /\ enabled' = offered /\ did' = Nothing
  BY DEF Drop, state
<1>2. FileMenu' = FileMenu /\ TreeMenu' = TreeMenu
  BY <1>1 DEF FileMenu, TreeMenu, ItemCommands, CanAddItem, state
<1>3. \A u, p \in BOOLEAN : EditMenu(u, p)' = EditMenu(u, p)
  BY <1>1, <1>2 DEF EditMenu, InitMenuStateForEdit, state
<1>4. Offers(menu)' = Offers(menu)
  BY <1>2, <1>3 DEF Offers
<1>5. offered \subseteq FileCommands \cup TextCommands \cup TreeCommands
  <2>1. CASE menu = "file"
    BY <2>1, FileMenuOffers DEF Offers
  <2>2. CASE menu = "edit"
    <3>1. \A c \in Offers("edit") : c \in TextCommands \cup TreeCommands
      BY EditMenuOffers, TreeMenuOffers DEF IInv, TreeCommands
    <3> QED
      BY <2>2, <3>1
  <2>3. CASE menu = "tree"
    BY <2>3, TreeMenuOffers DEF Offers, IInv
  <2> QED
    BY <2>1, <2>2, <2>3
<1>6. OffersHold'
  BY <1>1, <1>4 DEF OffersHold, state
<1>7. Types'
  BY <1>1, <1>5 DEF IInv, Types, TypeOK, state
<1>8. items \in 0..MaxRecordCount /\ items' = items
  BY <1>1 DEF IInv, Types, TypeOK, state
<1>9. ~(items' < items)
  BY <1>8
<1> QED
  BY <1>1, <1>6, <1>7, <1>9
     DEF IInv, RightStep, WriteStep, RenameStep, DeleteStep, OfferedStep, Nothing

\* Whatever else the user does, a menu is not dropped down.
LEMMA AsideHolds ==
    ASSUME IInv, SetFocus \/ SelectItem \/ ClickLabel \/ TypeOrSelect
    PROVE  IInv' /\ RightStep
<1>1. /\ popup = "none" /\ popup' = "none" /\ enabled' = enabled
      /\ did' = Nothing /\ UNCHANGED <<file, items>>
  BY DEF SetFocus, SelectItem, ClickLabel, TypeOrSelect, Aside
<1>2. enabled' = {}
  BY <1>1 DEF IInv, OffersHold, Offers
<1>3. StateTypes'
  <2> USE DEF IInv, Types, TypeOK, StateTypes
  <2>1. CASE SetFocus
    BY <1>1, <2>1 DEF SetFocus
  <2>2. CASE SelectItem
    <3>1. selection' \in [Controls -> Selections]
      BY <2>2 DEF SelectItem, Controls, Selections
    <3>2. readonly' \in BOOLEAN /\ items' > 0
      BY <1>1, <2>2 DEF SelectItem, Items
    <3>3. file # "none" /\ items' # 0
      BY <1>1, <2>2, <3>2 DEF SelectItem, Items, NoItem
    <3> QED
      BY <1>1, <2>2, <3>1, <3>2, <3>3 DEF SelectItem
  <2>3. CASE ClickLabel
    <3>1. selection' \in [Controls -> Selections] /\ focus' \in {"tree", "label"}
      BY <2>3 DEF ClickLabel, MainWmNotifyTvnBeginLabelEdit, Controls, Selections
    <3>2. file # "none"
      BY <2>3 DEF ClickLabel
    <3> QED
      BY <1>1, <2>3, <3>1, <3>2 DEF ClickLabel
  <2>4. CASE TypeOrSelect
    <3>1. selection' \in [Controls -> Selections]
      BY <2>4 DEF TypeOrSelect, Controls, Selections
    <3>2. changed' \in BOOLEAN
      BY <2>4 DEF TypeOrSelect
    <3> QED
      BY <1>1, <2>4, <3>1, <3>2 DEF TypeOrSelect
  <2> QED
    BY <2>1, <2>2, <2>3, <2>4
<1>4. items \in 0..MaxRecordCount /\ items' = items
  BY <1>1 DEF IInv, Types, TypeOK
<1>5. ~(items' < items)
  BY <1>4
<1> QED
  BY <1>1, <1>2, <1>3, <1>5
     DEF IInv, OffersHold, Types, TypeOK, StateTypes,
         RightStep, WriteStep, RenameStep, DeleteStep, OfferedStep, Nothing

\* A menu that is dismissed offers nothing any more.
LEMMA DismissHolds ==
    ASSUME IInv, Dismiss
    PROVE  IInv' /\ RightStep
<1>1. items \in 0..MaxRecordCount /\ items' = items
  BY DEF IInv, Types, TypeOK, Dismiss
<1>2. ~(items' < items)
  BY <1>1
<1>3. OffersHold'
  BY DEF Dismiss, OffersHold
<1>4. Types'
  BY DEF Dismiss, IInv, Types, TypeOK
<1> QED
  BY <1>2, <1>3, <1>4
     DEF IInv, Dismiss, RightStep, WriteStep, RenameStep, DeleteStep, OfferedStep, Nothing

-----------------------------------------------------------------------------
(* The theorems                                                              *)

\* Every step is right and keeps the invariant.
LEMMA NextHolds == ASSUME Limits, IInv, Next PROVE IInv' /\ RightStep
BY DropHolds, DismissHolds, DispatchedIsRight, AsideHolds DEF Next

\* In every reachable state a menu offers what it would offer now.
THEOREM MenusInductive == ASSUME Limits PROVE Spec => []IInv
<1>1. Init => IInv
  <2> SUFFICES ASSUME Init PROVE IInv
    OBVIOUS
  <2>1. selection \in [Controls -> Selections]
    BY DEF Init, Selections
  <2>2. items \in 0..MaxRecordCount
    BY DEF Init, Limits
  <2> QED
    BY <2>1, <2>2 DEF Init, IInv, Types, TypeOK, OffersHold
<1>2. IInv /\ [Next]_vars => IInv'
  <2> SUFFICES ASSUME IInv, [Next]_vars PROVE IInv'
    OBVIOUS
  <2>1. CASE Next
    BY <2>1, NextHolds
  <2>2. CASE UNCHANGED vars
    <3>1. FileMenu' = FileMenu /\ TreeMenu' = TreeMenu
      BY <2>2 DEF FileMenu, TreeMenu, ItemCommands, CanAddItem, vars
    <3>2. \A u, p \in BOOLEAN : EditMenu(u, p)' = EditMenu(u, p)
      BY <2>2, <3>1 DEF EditMenu, InitMenuStateForEdit, vars
    <3>3. Offers(popup)' = Offers(popup)
      BY <2>2, <3>1, <3>2 DEF Offers, vars
    <3>4. OffersHold'
      BY <2>2, <3>3 DEF vars, IInv, OffersHold
    <3> QED
      BY <2>2, <3>4 DEF vars, IInv, Types, TypeOK
  <2> QED
    BY <2>1, <2>2
<1> QED
  BY <1>1, <1>2, PTL DEF Spec

\* AppTreeViewNewItem and its callers check neither DbGetMaxItemCount nor
\* DbGetMaxItemDepth: no sequence of commands passes the limits of the file.
THEOREM LimitsAreKept == ASSUME Limits PROVE Spec => []LimitsKept
<1>1. IInv => LimitsKept
  <2> SUFFICES ASSUME IInv PROVE LimitsKept
    OBVIOUS
  <2>1. items <= MaxRecordCount
    BY DEF IInv, Types, TypeOK, Limits
  <2>2. caret.level <= MaxLevelDepth
    BY DEF IInv, Types, TypeOK, Limits, Items, NoItem
  <2> QED
    BY <2>1, <2>2 DEF LimitsKept
<1> QED
  BY <1>1, MenusInductive, PTL

\* Every command a menu offers is carried out by the window its menu speaks
\* for, on a file open for writing, and Rename opens the label.
THEOREM CommandsAreRight ==
    ASSUME Limits
    PROVE  Spec => /\ OfferedIsDone /\ OnlyWriteFileWritten
                   /\ RenameStartsEdit /\ ItemDeletedOnlyFromTree
<1>1. IInv /\ [Next]_vars => [RightStep]_vars
  BY NextHolds
<1>2. [RightStep]_vars => /\ [WriteStep]_vars /\ [RenameStep]_vars
                          /\ [DeleteStep]_vars /\ [OfferedStep]_vars
  BY DEF RightStep
<1> QED
  BY <1>1, <1>2, MenusInductive, PTL
     DEF Spec, OfferedIsDone, OnlyWriteFileWritten, RenameStartsEdit,
         ItemDeletedOnlyFromTree, WriteStep, RenameStep, DeleteStep, OfferedStep

=============================================================================
