----------------------------- MODULE DropTarget -----------------------------
(***************************************************************************)
(* The drop target of the edit control (AppCom.c): a COM object that OLE   *)
(* calls while the user drags text over the control.  The object is        *)
(* counted: the main window, the registration with OLE and a drag in       *)
(* progress each hold a reference.  A drag runs through the message loop,  *)
(* so that the control may be filled, disabled or destroyed between two    *)
(* calls of one drag.  OLE and the drag source are external: OLE calls     *)
(* Drop only when the last effect reported was one the source allows, and  *)
(* the source deletes its text when the effect of the drop is a move.      *)
(***************************************************************************)
EXTENDS Integers, Sequences, FiniteSets, FiniteSetsExt

CONSTANTS
  Limit,       \* the text limit of the control
  MaxText,     \* bound: the longest text dragged
  NULL

VARIABLES
  object,      \* the IEditDropTarget: "none", "alive" or "freed"
  refCount,
  holders,     \* who holds a reference
  allowDrop, formatIndex,
  window,      \* the control: can be written to, is disabled or read-only, gone
  length,      \* of its text
  drag,        \* the drag over the control: what the source offers, and the key
  effect       \* what the last call left in *pdwEffect

vars == <<object, refCount, holders, allowDrop, formatIndex, window, length,
          drag, effect>>
com == <<object, refCount, holders>>

SupportedFormats == <<"unicode", "text">>
Effects == {"copy", "move"}
Offers == [formats : SUBSET {"unicode", "text"}, size : 1..MaxText,
           effects : SUBSET Effects, ctrl : BOOLEAN]

TypeOK ==
  /\ object \in {"none", "alive", "freed"}
  /\ refCount \in 0..3
  /\ holders \subseteq {"app", "ole", "drag"}
  /\ allowDrop \in BOOLEAN /\ formatIndex \in DOMAIN SupportedFormats
  /\ window \in {"writable", "readonly", "gone"}
  /\ length \in 0..Limit
  /\ drag \in Offers \cup {NULL}
  /\ effect \subseteq Effects

-----------------------------------------------------------------------------
(* Reference counting *)

IEditDropTarget_AddRef(who) ==
  /\ refCount' = refCount + 1
  /\ holders' = holders \cup {who}
  /\ UNCHANGED object

IEditDropTarget_Release(who) ==
  /\ refCount' = refCount - Cardinality(who)
  /\ holders' = holders \ who
  /\ object' = IF refCount' = 0 THEN "freed" ELSE object

\* RegisterDropWindow, at the end of the creation of the main window.  OLE
\* takes a reference of its own; when it refuses, the object is freed, and
\* nothing else comes of it (nor without memory for the object).
RegisterDropWindow ==
  /\ object = "none" /\ window = "readonly"
  /\ \/ /\ object' = "alive" /\ refCount' = 2 /\ holders' = {"app", "ole"}
     \/ object' = "freed" /\ UNCHANGED <<refCount, holders>>
  /\ allowDrop' = FALSE /\ formatIndex' = 1
  /\ UNCHANGED <<window, length, drag, effect>>

\* Mutant: the object is given up though OLE has kept it.
UnregisterDropWindow_Anyway ==
  /\ window # "gone" /\ object # "none" /\ window' = "gone"
  /\ IF "ole" \in holders
     THEN \/ IEditDropTarget_Release({"ole", "app"})
          \/ object' = "freed" /\ UNCHANGED <<refCount, holders>>
     ELSE UNCHANGED com
  /\ UNCHANGED <<allowDrop, formatIndex, length, drag, effect>>

\* UnregisterDropWindow, in WM_DESTROY of the main window: RevokeDragDrop gives
\* up OLE's reference, and then the main window's own is released.  If it
\* fails, both stay.
UnregisterDropWindow ==
  /\ window # "gone" /\ object # "none" /\ window' = "gone"
  /\ IF "ole" \in holders
     THEN IEditDropTarget_Release({"ole", "app"}) \/ UNCHANGED com
     ELSE UNCHANGED com
  /\ UNCHANGED <<allowDrop, formatIndex, length, drag, effect>>

-----------------------------------------------------------------------------
(* A drag *)

\* EditWndUpdateDropEffect: Ctrl asks for a copy, otherwise a move is preferred.
EditWndUpdateDropEffect(d) ==
  d.effects \cap IF d.ctrl THEN {"copy"}
                 ELSE IF "move" \in d.effects THEN {"move"} ELSE {"copy"}

IsEditSpaceAvailable == length < Limit

\* The formats of ours that the data object has, in our order of preference.
SetSupportedDropFormat(formats) ==
  {i \in DOMAIN SupportedFormats : SupportedFormats[i] \in formats}

\* IEditDropTarget_DragEnter: whether the text may be dropped is decided here.
\* OLE finds the object by the window's registration.
IEditDropTarget_DragEnter(d) ==
  /\ drag = NULL /\ "ole" \in holders /\ window # "gone"
  /\ drag' = d
  /\ LET usable == SetSupportedDropFormat(d.formats) IN
     /\ allowDrop' = (window = "writable" /\ IsEditSpaceAvailable /\ usable # {})
     /\ formatIndex' = IF allowDrop' THEN Min(usable) ELSE formatIndex
     /\ effect' = IF allowDrop' THEN EditWndUpdateDropEffect(d) ELSE {}
  /\ IEditDropTarget_AddRef("drag")
  /\ UNCHANGED <<window, length>>

\* IEditDropTarget_DragOver, with Ctrl pressed or not.
IEditDropTarget_DragOver ==
  /\ drag # NULL
  /\ \E ctrl \in BOOLEAN : drag' = [drag EXCEPT !.ctrl = ctrl]
  /\ effect' = IF allowDrop THEN EditWndUpdateDropEffect(drag') ELSE {}
  /\ UNCHANGED <<com, allowDrop, formatIndex, window, length>>

\* IEditDropTarget_DragLeave does nothing; OLE gives the object up.
IEditDropTarget_DragLeave ==
  /\ drag # NULL
  /\ drag' = NULL /\ effect' = {}
  /\ IEditDropTarget_Release({"drag"})
  /\ UNCHANGED <<allowDrop, formatIndex, window, length>>

\* DropData: how many characters reach the control.  GetData, GlobalLock, or
\* for CF_TEXT the conversion may fail; a window that is gone takes nothing, and
\* the control stops at its limit.  It does not ask whether the control is
\* read-only, nor does EM_REPLACESEL.
DropData(size) ==
  {0} \cup (IF window = "gone" THEN {} ELSE {Min({size, Limit - length})})

\* IEditDropTarget_Drop: the source is told the effect whether or not all of the
\* text was inserted.
IEditDropTarget_Drop ==
  /\ drag # NULL /\ effect # {}
  /\ IF allowDrop
     THEN \E inserted \in DropData(drag.size) :
            /\ length' = length + inserted
            /\ effect' = EditWndUpdateDropEffect(drag)
     ELSE effect' = {} /\ UNCHANGED length
  /\ drag' = NULL
  /\ IEditDropTarget_Release({"drag"})
  /\ UNCHANGED <<allowDrop, formatIndex, window>>

\* The program goes on: another note is shown, or a file is opened or closed.
EditChanges ==
  /\ window # "gone" /\ object # "none"
  /\ window' \in {"writable", "readonly"} /\ length' \in 0..Limit
  /\ UNCHANGED <<com, allowDrop, formatIndex, drag, effect>>

Init ==
  /\ object = "none" /\ refCount = 0 /\ holders = {}
  /\ allowDrop = FALSE /\ formatIndex = 1
  /\ window = "readonly" /\ length = 0
  /\ drag = NULL /\ effect = {}

Next ==
  \/ RegisterDropWindow \/ UnregisterDropWindow
  \/ \E d \in Offers : IEditDropTarget_DragEnter(d)
  \/ IEditDropTarget_DragOver \/ IEditDropTarget_DragLeave \/ IEditDropTarget_Drop
  \/ EditChanges

Spec == Init /\ [][Next]_vars

-----------------------------------------------------------------------------
\* OLE never calls an object that has been freed: neither a drag that goes on
\* while the window is destroyed nor a registration that could not be revoked.
NoDanglingTarget == holders # {} => object = "alive" /\ refCount = Cardinality(holders)

\* When the window is gone and OLE has let go, the object is freed.
FreedAtEnd ==
  window = "gone" /\ holders \cap {"ole", "drag"} = {} => object # "alive"

\* A drop that is allowed reads the best format of those this source offers,
\* never one that an earlier drag left in formatIndex.
BestFormatOffered ==
  drag # NULL /\ allowDrop =>
    /\ SupportedFormats[formatIndex] \in drag.formats
    /\ \A i \in 1..(formatIndex - 1) : SupportedFormats[i] \notin drag.formats

\* Text comes in by a drop only over a control that was writable and had room
\* when the drag came over it, and the source is then told of an effect it
\* allows.
NoTextUnasked ==
  [][drag # NULL /\ drag' = NULL /\ length' # length =>
       allowDrop /\ effect' # {} /\ effect' \subseteq drag.effects]_vars
=============================================================================
