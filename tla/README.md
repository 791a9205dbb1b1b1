# A formal model of SafeEditor

SafeEditor is a Win32 program that keeps a tree of notes in one encrypted
SQLite file. This directory holds TLA+ modules of its core, translated from the
C code under `src/`, the TLC runs that check them on small instances, and proofs
that TLAPS checks for every value of the constants.

## 1. Inventory: the system and what can go wrong in it

The program is one process with one UI thread (`SQLITE_THREADSAFE 0`). Its
concurrency is that of Windows messages: a call into a control sends
notifications back synchronously, modal dialogs sit in the middle of a command,
and other processes may want the same file.

| Component | State | Operations | Interacts by |
|---|---|---|---|
| Data store, `DataStore.c` | SQLite connection (transaction, change counter, key), `DBCONTEXT`: `lastSavedTotalChanges`, `isDirty`, `lastState` | open, key, exclusive access, schema upgrade, 6 statements, save, rekey, close | calls from `MainWindow.c`; the changed callback back to it |
| Editor, `MainWindow.c` | handle `e->db`, tree view (items, selection, EXPANDEDONCE), notes edit control (text, modified, read-only), label editing | New, Open, Save, Close, Properties, New item/subitem, Delete, Rename, Read only, selection and expansion notifications | SendMessage to controls, their notifications, calls to the data store |
| Password dialog, `FileAccessWindow.c`; `IsValidPassword` | password field, wide and UTF-8 buffers, Show password | try, retry, show, cancel | modal; callback into `MainWindow.c` |
| Properties dialog, `FilePropertiesWindow.c` | two password fields with cues, title, description, the key handed out | type, apply page by page, cancel, wipe | modal; called by New and Properties |
| Message loop and start-up, `AppBase.c` | current and previous window and accelerator table; staged initialisation | set, update, restore; init and clean-up | About and main window activation |
| Encryption, `AppCrypto.c` | provider and key handles; PBKDF2's state | provider fallback, PBKDF2, page encrypt/sign, clone, release | SQLite codec, Windows CNG and CryptoAPI |
| Text drop target, `AppCom.c` | reference count, `allowDrop`, format | drag enter/over/leave, drop, register, revoke | OLE calls |
| Splitter, `SplitterWindow.c` | position kept and shown, capture, grip | drag, resize, lose the capture | mouse messages; notifies the main window, which places the panes |
| About, `AboutWindow.c` | one modeless dialog | show, activate, destroy | message loop, main window |
| Helpers: `UICommon.c`, `LibraryLoader.c` | none kept | TrimWhiteSpace, search path, LoadSystemLibrary | |

What is hard, and what makes each part correct:

* **Unsaved edits live in one long EXCLUSIVE transaction.** "Dirty" is computed
  from a counter that no rollback rewinds, a boolean and a snapshot. SQLite can
  end the transaction by itself (a failing statement, a failing COMMIT, a
  rekey), and several results are ignored. Correct means: not dirty implies
  saved; a successful Save is durable; the file changes only on a save; a crash
  loses exactly the unsaved edits.
* **Three views of one table.** Records, lazily loaded tree, edit control. The
  notes of the selected record are written back as a side effect of selection
  changes, which are themselves side effects of inserting and deleting. Correct
  means: what was typed arrives in the record it was typed over and in no other,
  and the views agree.
* **Limits kept only by menus.** `DbAddNewItem` checks nothing.
* **Record 0 doubles as "no item".**
* **Several processes, one file.** Two that hold SHARED locks block each other.
* **Ten calls and two dialogs between a file's name and its records**, each of
  which may fail or be cancelled. Correct means: nothing of a file is shown or
  changed before it is decrypted, locked and of the right version, a command ends
  whole or not at all, the user hears of every failure once, and no password
  stays behind.
* **Resources acquired in stages**: start-up, `WM_CREATE`, providers, keys and
  clones. Correct means that every way out releases exactly what is there.
* **One-deep memory**: of the message loop, of the focus, of the drop's format.
* **Checked in one function, used in another**: what a menu offers and what the
  command does, what DragEnter allows and Drop does, the splitter's position kept
  and shown.
* **Index arithmetic without tests**: the splitter's range, PBKDF2's blocks, the
  buffer of `LoadSystemLibrary`, the two pointers of `TrimWhiteSpace`.

The full list, each hazard at its line with the property that covers it, is
`hazards` in `PROJECT.json`.

## 2. The modules

| Module | Models | |
|---|---|---|
| `Records` | the table: what each SQL statement does to it (insert, update, cascading delete), levels, children | pure operators |
| `Document` | what a file promises its user: edit a working copy, save it, discard it; and when edits are direct instead | abstract specification |
| `DataStore` | the `Db*` functions over SQLite, with SQLite's failures as the constant `Faults` | extends `Records`, implements `Document` |
| `Editor` | the commands and notifications of the main window over the table, the tree and the edit control | extends `Records` |
| `SharedFile` | what several processes promise each other about a file: many readers or one writer, none of them stale | abstract specification |
| `FileLock` | several processes that open, edit, save and close one file, with SQLite's locks | implements `SharedFile` |
| `FileOpening` | New, Open, Close and Save call by call, with every failure: connection, tree, title, error boxes, blocks | |
| `FileAccess` | the password dialog: field, buffers, retries | |
| `FileProperties` | the property sheet: passwords, cues, PSN_APPLY page by page | |
| `Opening` | `FileOpening` with `FileAccess` and `FileProperties` running inside it | composes them, implements `FileOpening` |
| `Menus` | what menus and keys offer, and what the dispatch of a chosen command does | |
| `Details` | the property list and the notes while statements fail | |
| `MsgLoop` | activation of main window, About, modal boxes; accelerators; focus | |
| `AppLifecycle` | `wWinMain` from set-up to clean-up, `WM_CREATE` to `WM_NCDESTROY`, fonts, colours | |
| `DropTarget` | the COM object of the edit control and its drags | |
| `Splitter` | one splitter bar and the two panes beside it | |
| `CryptoHandles` | providers, keys, clones: every handle, every failing call | |
| `Pbkdf2` | key derivation by blocks and rounds, in both providers | pure algorithm |
| `LibraryLoader` | search path restriction and `LoadSystemLibrary`, address by address | pure algorithm |
| `TrimText` | `TrimWhiteSpace`, pointer by pointer | pure algorithm |
| `MCDataStore`, `MCEditor`, `MCFileLock`, `MCOpening`, `MCDetails` | the small instances for TLC | |
| `Window`, `Process` | the parts of the main window, and of the process, that share no state, side by side | compose them |
| `MCWindow`, `MCProcess` | their small instances | |
| `RecordsProofs` | the statements of `Records`, its levels and its cascade: the lemmas two of the other proof modules share | |
| `DataStoreProofs`, `FileLockProofs`, `EditorProofs`, `MenusProofs` | theorems about the module they are named for | |
| `OpeningProofs` | theorems about `FileOpening`, the two dialogs and their composition | |
| `WindowProofs` | theorems about `Splitter`, `Details`, `DropTarget`, `MsgLoop`, the window's `Menus`, and `Window` | |
| `ProcessProofs` | theorems about `LibraryLoader`, `TrimText`, `Pbkdf2`, `AppLifecycle`, `CryptoHandles`, and `Process` | |

The operators `Def_What` whose comment begins with `Mutant:` are
plausible mistakes in the definition after them (a dropped guard, a missing reset);
`PROJECT.json` says which property finds each.

### DataStore

Variables and code: `phase` is where `MainWindow.c` is with the handle (from
`DbOpen` through the password dialog to the enabled workspace); `inTx` is
`!sqlite3_get_autocommit`; `totalChanges` is `sqlite3_total_changes`;
`lastSavedTotalChanges`, `isDirty`, `lastState` are the fields of `DBCONTEXT`;
`status` is the text that `DbFileChanged` puts into the status bar; `work` is the
content the connection sees, `disk` the committed one, `connKey` and `diskKey`
their keys. `lastCall` records the function that returned last and its result,
for the properties.

Each action is one `Db*` function with everything it calls. A function that can
succeed or fail is two actions (`DbSave`, `DbSaveFails`). The statements share
`StatementDone` and `StatementFails`, which end in `OnFileChanged`, as the code
does. SQLite is outside `src/` (only its header is there); its documented
behaviour is the set `FaultKinds`: busy files, failing statements with and
without the automatic rollback that the comment on `sqlite3_get_autocommit`
describes, failing COMMIT and BEGIN, a failing schema upgrade, a failing rekey
that leaves the password as it was. That a rekey which *succeeds* may end the
transaction is no fault: `DataStore.c:292` says that it commits any running one,
so `DbRekey` may leave autocommit mode behind whatever `Faults` is.

`Document` has this in the variable `direct`: edits are saved as they are made,
from a change of the password, or from a failure that loses the working copy, to the next
save. `Reliable` says that only the former can happen. `password` is replaced by
`ChangePassword` alone, which finds nothing pending.

Left out: dates, the random token column, the on-disk page format, and what the
statements read. Titles and notes are members of a small set.

### Editor

`work`, `dirty`, `rw` are the data store as the editor sees it, `nodes` the tree
items with the parent the tree has them under and EXPANDEDONCE, `caret` the
`lParam` of the selection (0 with none), `label` the item whose label is edited,
`edit` the notes control with the record it was filled from. An action is one
command with all notifications it causes, in the code's order: e.g. `DeleteItem`
removes the tree item, which moves the selection, which writes the typed notes
and loads the next record, and only then removes the record. The tree control is
external; where its behaviour is not visible in the code (which sibling gets the
selection, whether an emptied item stays EXPANDEDONCE, whether clearing the tree
notifies) the model allows every possibility.

Menus and accelerators: Windows sends `WM_INITMENUPOPUP` before it translates an
accelerator, so the enabling conditions of `MainWmInitMenuPopup` and of the
context menu are guards. `AppCloseFile` and what follows it in New, Open and
drop are two actions, because file and password dialogs lie between them and may be
cancelled.

Taken from `DataStore`: statements succeed and `dirty` is `DbIsDirty`. After
a close the content left in the file stays in `work` (`RolledBack` is what is left of one
that is dirty and not saved), so that properties can
compare it with what the user saw (`Seen`: the items of the tree view, and the text of the
control as the selected item's notes). Left out: the info list view, clipboard
details, focus and layout, sibling order (except which child is first after loading).

### FileLock

`stage` says where a process is between two calls of SQLite that touch the
locks: the handle is open and a dialog waits; OK was pressed and the version is
about to be read (`DbGetVersionInfo`, which takes SHARED); the EXCLUSIVE
transaction is about to begin (`DbAcquireExclusiveAccess`); the workspace is
about to be loaded; it is shown. `newFile` distinguishes the two callers:
`AppNewFile` gives up at the first refusal and closes its handle, the password
dialog stays open with the handle and whatever lock it has. `file` counts the
saves and `seen` says which of them a workspace was loaded from, which is all that
is needed to speak of stale workspaces; contents and keys belong to `DataStore`.

The lock rules are SQLite's and external: SHARED is refused while another
connection has PENDING or EXCLUSIVE, EXCLUSIVE while another one has any lock.
Nothing waits, as `DbOpen` sets the busy timeout to 0. Three consequences of
the sources matter: `SQLITE_DEFAULT_LOCKING_MODE 1` makes a connection keep its
locks until it is closed; a failed BEGIN EXCLUSIVE may leave PENDING behind; a
wrong password is noticed after SHARED was taken, which may or may not be kept.
The last two are nondeterministic. A crash is `DbClose` at any stage.

`DbSave` keeps the lock through its COMMIT. That the following
`DbAcquireExclusiveAccess` may fail is a matter of `DataStore`; here its lock is the
one the locking mode kept.

### FileOpening, FileAccess, FileProperties and Opening

`FileOpening` has the commands that open, create, close and save a file as the
sequence of their calls. `pc` is the next call, `db` what the connection has
reached (NULL, or path, writable, key set, locked, schema), `tree` the file
whose records are shown, `title` the one in the title bar, `errMsgId`, `exit`
and `boxes` the error found, the user's leaving and the boxes shown, `held` the
blocks a command has allocated. Each call may fail as its function can;
`Finish` is the common end that closes a file that was not opened, frees the
blocks and reports. A dialog is one step there, with every outcome.

`FileAccess` is the password dialog with its field, Show password and both
buffers at each step of a try (read, convert, ask, answer, message, wipe). What the
main window answers is `Answers`: an `empty` file, which has nothing to decrypt,
accepts every password but the empty one, any other file its own; and a file that
another process holds may be said to be in use whatever was typed.

`FileProperties` is the sheet with its two password fields, the cue "leave blank
to keep", the refusals of the first page and `DestroyFilePropInfo`.

`Opening` runs the three together: while `FileOpening` waits in `ShowFileAccess`
or `ShowFileProp` the dialog's own steps happen, its result decides which
of the outcomes the command gets, and the file's key is what was typed. `OpenConnection` is
where the connection turns out to lead to an empty file or not. A
property sheet of an open file is the third way in (`FilePropertiesMsg`), whose result
is a change of title, a save or nothing. `ImplementsFileOpening` says
that all of this is `FileOpening` seen from outside, so that what
is proved there holds here.

### Menus and Details

`Menus` computes the enabled commands of the File, Edit and context menus from
file, item, focus, selection and clipboard, keeps them until the menu is gone, and
dispatches what is chosen as `MainWindowProc`, `AppEditCommand` and the two
`ProcessMenuCommand` functions do. Editor's guards are these conditions; here they
are shown to be enough. Whether a right click moves the focus to the tree is
the control's affair; both are possible. The edit control, read-only or not, is changed only
by what selects an item, as in `Editor`; that includes a tree that loses its last item
(`MainWindow.c:350`).

`Details` has the four rows of the property list, the notes with the record they
belong to, and statements that fail and are not looked at. Records form a flat
list. `WritesFail` and `ReadsFail` choose which statements may fail.

### MsgLoop and AppLifecycle

`MsgLoop`: `loop` is `MSGLOOP` with its previous pair, `hWndFocus` and `hWndAbout`
fields of `APPWINDOWINFO`, `todo` the messages of one activation still to be
delivered, one handler per action. Which messages Windows sends is external
(`Switch`, `Activate`, `Default`).

`AppLifecycle`: `step` counts the set-up calls of `wWinMain` or of `WM_CREATE` that
are done, `held` and `kids` what exists. A failing `WM_CREATE` is followed by
`WM_DESTROY` and `WM_NCDESTROY`, as Windows does. `quit` is a WM_QUIT in the
queue, `box` an error box of `wWinMain`. `RevokeDragDrop` may be refused, and the reference to
the drop target is then lost with the window info (`lostDrop`); GetMessage may return -1, and
`wWinMain` then goes to its clean-up with the window, its file and its fonts still there,
where `UnregisterClass` fails for the classes that have windows. A change of the
icon title font is three steps, `SetEditFont`, `AssignFont` and `DeleteOldFont`, with the
second font in `other`, so that their order is checked.

### Splitter and DropTarget

`Splitter`: `position` is kept, `shown` is where the bar is painted, `size` the
length it divides. Three functions check the range; `Clamp` is that check, with
its order of tests. A drag is a capture of the mouse with the distance
between cursor and bar.

`DropTarget`: `holders` are the references (main window, OLE, a drag in progress),
`refCount` the field of the object. A drag goes through the message loop, so
`EditChanges` may fill, disable or destroy the control between two of its calls.
A control made read-only in the middle of a drag still takes the text; the code
decides in DragEnter, and the property says so.

### CryptoHandles, Pbkdf2, LibraryLoader, TrimText

`CryptoHandles` gives each function of both providers as the sequence of the calls
it makes, named for the variable that holds the handle; every call can fail, and
what is destroyed then depends on function and place. `Pbkdf2` keeps both loops
with their counters; the value of an HMAC is a pair (block, depth), an xor of
them a set, so that the derived key can be compared with the definition of PBKDF2.
`LibraryLoader` keeps the buffer as a function from addresses to what was written
there, `TrimText` the string as a function from indices to characters.

## 3. The runs

| Run | Question | Result |
|---|---|---|
| `datastore_faults` | With all of `FaultKinds`: is a file that is not dirty saved, is Save's TRUE true, is nothing pending outside a transaction, does the status bar agree, is the table a tree, does the session's key open the file? Does it all implement `Document` (the file changes on a save only, unless a rekey or a failure has made edits direct; a crash loses exactly the rest)? | holds |
| `datastore_close_yes` | Does answering Yes when closing save? | **violated** (finding 1) |
| `datastore_close_no` | Without any fault: does the file change only when the user saves, so that No gives the rest up? | **violated** (finding 2) |
| `editor_views` | Do table, tree and edit control agree (`ViewsAgree`); does typed text arrive where it belongs (`TypedTextArrives`) and does nothing else change (`NothingElseChanges`); is what the user sees after Save, Yes and an unasked close what the file has (`SavedMeansSeen`); are the limits kept; is a new record the selected one? | holds |
| `editor_empty_edit` | Is the edit control read-only with nothing selected? | **violated** (finding 3) |
| `editor_rekey` | Is everything saved before the password changes? | **violated** (finding 4) |
| `filelock_safety` | Is a process that edits alone, is no open workspace stale, do the locks implement `SharedFile`? | holds |
| `filelock_progress` | Is every OK answered although two processes can block each other, and do refused attempts leave nothing behind that locks a file for good? | holds |
| `opening` | Is a file shown, changed and named only when it was let in (`OpenIsSafe`), and let in only by its password, or any if it is empty (`LetInByPassword`); does every command end whole and tell its failures (`EndsWhole`); do the dialogs keep their promises (`DialogsRight`) and leave no password behind (`SecretsGone`); is it all `FileOpening` from outside? | holds |
| `window` | For each part of the main window by itself: is the loop right after every activation (`LoopRight`), is what menus offer done, where it was offered (`OffersKept`), do list and notes follow their record when statements fail (`DetailsRight`, `DetailsFollow`), the bar its range (`SplitterRight`), the drop target its references and its drag (`DropRight`)? | holds |
| `process` | For each part of the process by itself: does every start and every window end clean, a refused revocation and a failing loop aside, and does the font in use exist at each step (`LifecycleRight`), every failing call release its handles (`HandlesRight`), is the key that of PBKDF2 (`DerivesRight`), do the two buffer algorithms stay in their buffers and return what they should (`LoaderRight`, `TrimRight`), does it all come to an end (`EveryCallEnds`)? | holds |
| `details_load` | Does a record that cannot be loaded show nothing? | **violated** (finding 5) |

Bounds. `DataStore`: two texts, two passwords, ids up to 2 (`MaxRecordId`: a
parent and a child, so that a cascade removes more than it names) and 3 counted
row changes per connection (`MaxChanges`: a schema upgrade and an edit, or an
edit, a save and two more edits); closing resets the counter, so sessions of any
number follow each other. `Editor`: ids up to 4 with at most 3 items at once
(`MaxRecordCount`, 32000 in the code), so that the count limit is reached and
ids are not reused; nesting of 2 (`MaxLevelDepth`, 4 in the code), which is
enough for a parent that is allowed, one that is at the limit and one level too
many; texts `""` and `"a"`, with a typed blank that trims to `""`; files that
are new, empty, with a protected item, and with a child below an item not yet
expanded. A title has one value, as no property of `Editor` is about titles.

`FileLock`: three processes for safety (a reader, a writer and one that
was refused), which are interchangeable, and two saves; two processes and one
save for liveness, without symmetry.

`Opening`: two files, one of them read-only or of another version as the run
chooses, so that one is let go for another; the right and a wrong password; a
title and none. Commands repeat without bound. `Menus`: 2 records and 2 levels
at most, so that each limit is reached and one over is near. `Details`: two
records, two titles. `MsgLoop`: the main window, About, one modal box and another
program, which is all there is. `Splitter`: minimum 3, a bar of 4 pixels,
clients of 0 (minimized) and 7 to 11, where one side, both sides or no side is at
its minimum, and cursors outside either end. `DropTarget`: texts up to the limit of
2 and at it. `CryptoHandles`: three keys (an original, a clone, a clone of the
clone). `Pbkdf2`: blocks of 2 bytes, keys of 0 to 5, 0 to 3 rounds.
`LibraryLoader`: a `MAX_PATH` of 5 with directories and names shorter, equal and
longer. `TrimText`: every string over a letter and a space in a block of 5.

`window` and `process` each check several components in one run. A behaviour
chooses one of them at its start (`part`) and runs it as its own specification
says; the others stay in an initial state. These components have no variable in
common, and where they do influence each other (the file that is open, the focus)
each has that influence as a nondeterministic step of its own, so steps of
two of them in between each other would reach no state of either that is not
reached here. Their properties are the conjunctions, by name, of the properties
stated in the component's own module.

Deadlock is checked in the runs of `DataStore`, `Editor` and `FileLock`. The others
stop where the system does: a process that has ended, an algorithm that has
returned.

Fairness is assumed in two runs. In `filelock_progress`,
weak fairness of the steps each process takes by itself, which are straight-line
code between an OK and its answer (the question before a schema upgrade, which lies
in between, is never asked while `DBSCHEMAVERSION` is 1). In `process`, weak fairness
of what the one thread does by itself: the next call of a start-up or a
destruction, the next step of a function of the providers, of PBKDF2 or of
`TrimWhiteSpace`. Nothing the user does is fair: a dialog may
stay open for good, which is why `AloneGetsIn` speaks of a process whose
competitors are gone, and `EveryCallEnds` of a window only once it is being destroyed.

Findings:

1. `AppCloseFile` with Yes ignores a COMMIT that fails in `DbClose`; the changes
   are lost without a message (`MainWindow.c:1142`, `DataStore.c:208-221`).
2. A change of the password commits the transaction (`DataStore.c:292`) and nobody begins
   another: from then to the next save each edit is in the file at once, while the status bar says
   that the file needs to be saved, and closing offers a No that gives nothing up
   (`MainWindow.c:1668`). No failure is needed.
3. `ClearWorkspace` leaves the edit control as the file that was closed had it. After one with
   items, a file without items has a writable control: the
   user can then type with nothing selected; Save skips that text and the next
   selection writes it into record 0, the file's description
   (`MainWindow.c:1048`, `525`).
4. `FilePropertiesMsg` saves before a password change without writing back the
   typed notes (`MainWindow.c:1657`).
5. When `DbGetItem` fails for a newly selected record,
   `MainWmNotifyTvnSelChanged` leaves list and notes as they were and the notes
   writable, so what is typed next goes, after the old record's text, into the
   new record (`MainWindow.c:532`, a TODO there says what should happen).

`OtherNotesUntouched` speaks of items only: record 0 is the exception that
finding 3 describes.

More facts the modelling brought up, which no doc contradicts. A text that is
moved by drag and drop and does not fit is lost: the source is told of the
move before the text is inserted (`AppCom.c:232`; the TODO at line 80 knows). And
the result of `RestrictLibrarySearchPaths` is undefined when no restriction is
available; `wWinMain` ignores it. A file named on the command line that cannot be
opened is not reported (`AppBase.c:329` ignores the result), so `FailureIsTold` is about New
and Open. And the modified date that saving the notes writes is not shown until the
selection moves (`MainWindow.c:1475`), which `DetailsFollow` excepts.

## 4. The proofs

Every safety property and every action property of the passing runs is a theorem, for every
value of the constants that their assumptions allow, the three refinements (of `Document`, of
`SharedFile`, of `FileOpening`) included. Two of them have a hypothesis besides, under which
their run checks them too: `DetailsRight` and `DetailsFollow` that no read fails.

`RecordsProofs` is about tables and levels, for every table with finitely many ids.
Each statement yields a content again (`...Type`) and keeps it a tree
(`...Integrity`). `RecordLevel` is a recursive *function*; that it exists and satisfies its
equation (`ClimbExists`, `LevelOfItem`) is proved by taking the least number for which it would not
(`LeastNatural`), as in a tree the parent of an item is always older than the item.
From there the lemmas say which levels an insertion and a removal leave alone.

`DataStoreProofs` assumes only what `Records` and `DataStore` assume of their
constants: `EmptyText` and `NewItemTitle` are texts, the bounds are natural
numbers, `Faults` is a subset of `FaultKinds`.

* `TypeCorrect`: `Spec => []TypeOK`. Lemmas show that each statement of `Records`
  yields a content again.
* `DurabilityCorrect`: `Spec => []Durable`. Neither `CleanMeansSaved` nor
  `SaveMeansDurable` is inductive: after a rollback or a rekey outside a
  transaction they depend on `work = disk` holding there, on the snapshot never
  overtaking the counter and on the schema phase starting inside a transaction.
  `Durable` is their conjunction with `PendingOnlyInTransaction`. Its one
  arithmetic fact is that a statement which changes the content counts at least
  one row, for a delete that the cascade's set contains the record itself
  (`SubtreeCounted`). `CleanCorrect` and `SaveCorrect` follow.
* `IntegrityCorrect`: `Spec => []Integrity`, for every number of records. The
  content part is a lemma per statement in `RecordsProofs`; for the cascade, that the least closed
  set never reaches record 0 or -1 and takes every child with its parent.
* `StatusCorrect`: `Spec => []StatusShowsDirty`. The editor is told only of the first
  change since the last save. `StatusInv` says that the status bar follows `lastState`
  and that this is "dirty" exactly while the file is; that a later change does
  not make a dirty file clean needs that the snapshot never overtakes the counter,
  which `Durable` has.
* `SessionKeyCorrect`: `Spec => []SessionKeyOpensFile`. Outside a transaction a statement
  writes the file at once, with whatever key it has. `KeyInv` rules out that
  this reaches a new file before it has its key: without a schema there is no record
  (`NoSchemaNoRecords`), and a statement that writes needs one.
* `NothingPendingCorrect`: when the password is changed, working and stored content are equal,
  although the transaction is committed by it. From a save that answered TRUE, or from a file that
  was not dirty, both of which `Durable` carries.
* `Implementation`: `Spec => ImplementsDocument`, for every set of faults: every step of
  the data store is a step of `Document` or a stutter. The file is `direct` while it can be edited
  without a transaction; that then nothing is pending, and that a rekey finds
  nothing pending, is `Durable` and `NothingPendingCorrect`; that a save keeps the password is `KeyInv`.

`EditorProofs` assumes what `Editor` does: limits that are positive, files that are
trees within the limits, and of trimming that what was trimmed has nothing more to trim, which
is `ReturnsTrimmed` of `TrimText` applied twice.

* `ViewsStayTogether`: `Spec => []ViewsAgree`, with `LimitsAreKept` and `EditorTypes`. The
  tree is read lazily, level by level, so `ViewsAgree`, which compares what is shown with the
  table, is not inductive. `EditorInv` says of each shown item that its parent is
  shown and that its children in the tree are those of the table or, while it was not expanded,
  none (`Shows`); that the table is a tree within the limits, of the current version (`Sound`); that
  the control belongs to the selection (`EditShowsSelected`) and can only have been typed into
  where the file can be written (`TypedIfWritable`). The lemmas say what inserting, deleting
  and expanding do to a tree that shows a content; then there is one per command.
* `TypedTextIsSaved`, `NothingElseIsChanged`, `NewRecordIsSelected`, `SavedIsSeen`: the four action
  properties, from the same invariant, command by command: each takes apart the write that a
  change of the selection or a loss of the focus causes before the command does its own work.
  For `SavedIsSeen` the tree and the control have to be those of the saved table, although Save looks
  only at a flag and an unasked close at two: `Shows` and `EditShowsSelected` say it of every state
  in which nothing typed is left (`SeenAfterSave`).

`FileLockProofs` assumes that the bound on saves is a natural number and nothing
of the set of processes.

* `LockCorrect`: `Spec => []LockInv`. Neither `WriterIsAlone` nor
  `NoStaleWorkspace` is inductive: the first needs that an EXCLUSIVE lock
  excludes every other lock in all stages (`ExclusiveIsAlone`), the second that
  a loaded workspace has a lock that goes with its mode (`LockOfStage`) and
  that only an open read-write workspace has anything to save
  (`DirtyIsEditing`). `WriterCorrect`, `FreshCorrect` and `LockTypes` follow.
* `SharedImplementation`: `Spec => ImplementsSharedFile`. Loading a workspace
  is where reading or writing begins, a save is the write, a close from an open
  workspace the end; everything else, all the locking included, is hidden.

The first part of `OpeningProofs` is about `FileOpening` and assumes only that the value that
stands for "no file" is no path.

* `OpeningIsSafe`: `FileOpening!Spec => []OpenIsSafe`, and `CommandsEndWhole`:
  `Spec => []EndsWhole`, for every set of files. Neither is inductive. `Phase` says
  for each call of a command what has been reached before it (before the name no
  path, before the end no error unless one is reported, at the close no block),
  `LetIn` how far a connection has been let in at each of them, `Told` which box
  goes with which error. There is one lemma per action (`...Keeps`). The other
  theorems of that part are the conjuncts, and `NeverTwoFiles`, that a file is opened only
  when no connection is held. They are about `FileOpening`; the second part carries them
  over to the commands with their dialogs.

That second part assumes besides that the password of a file can be typed, that no
password is empty (`KeyAssumption`), and that a file may be without a title
(`TitlesAssumption`).

* `DialogsImplementFileOpening`: `OpeningSpec => ImplementsFileOpening`. Every action
  of `Opening` outside the dialogs contains the action of `FileOpening` it stands
  for, and every step inside a dialog leaves the commands' state alone.
  `OpeningWithDialogsIsSafe` follows: `OpenIsSafe` and `EndsWhole` with any dialog open.
* `DialogsAreRight`, `OnlyPasswordsLetIn` and `SecretsAreGone`, from one
  inductive invariant. `AccessInv` adds to what `DialogsRight` says of the password
  dialog that there is a result exactly from its end on and that the field is
  empty outside it; `PropsInv` that the cue follows what is known of each field
  (`CueFollowsFields`) and that fields and buffers are empty outside the sheet;
  `Control` says where both dialogs are before each call of a command, which is what
  ties the result of a dialog to the branch the command takes. The two parts are
  preserved by each dialog by itself (`NextAccess`, `NextProps`), so `NextDInv`
  has only to see which dialog a step belongs to.

`MenusProofs` assumes (`Limits`) that the maximum of records is a natural number and
that of the depth a positive one.

* `LimitsAreKept`: `Spec => []LimitsKept`, and `CommandsAreRight`: the four action
  properties of `Menus`. The invariant adds `OffersHold`, that a menu which is
  dropped down offers what it would offer now: a command that arrives was then
  offered in the state it arrives in (`Dispatched`), and only that keeps the handlers,
  which check nothing, within the limits and the rights.

`WindowProofs` goes through the parts of the window, each under the assumptions its module or
`Window` names. Of the splitter: minimum, half the
bar and status bar are natural numbers, and a window that is not minimized has room for
both minima, which `MainWmGetMinMaxInfo` sees to. Of the others, that the values that stand
for "none" are nothing else, and that limits are natural numbers.

* `SplitterIsRight`: `Spec => SplitterRight`. The invariant adds `PanesFollow`, that
  the panes are where the parent was last told to put them, as the panes' tiling
  alone does not survive a resize. The lemmas on `Clamp` (in range where there is
  room, twice is once) carry the arithmetic.
* `LoopIsRight`: `Loop!Spec => []LoopRight`. Activating a window sends several messages
  (`todo`), each handled by itself, and what `LoopRight` promises holds only when they have all
  arrived. `LoopInv` says for every rest of every sequence of messages that can be
  under way where the focus is, whom the loop serves and what is saved: on the way to About
  (`AtAbout`), to a box or another program (`AtOther`), to the main window (`AtMain`), and when
  all is destroyed. `DialogKnown` ties the handle of the dialog to the messages still to come,
  `Saved` what `RestoreFocus` will find to the window that was left. The lemmas in front work out the
  rests of the sequences; then there is one lemma per message and per step of the user.
* `DetailsAreRight` and `DetailsFollowRecords` have the hypothesis `~ReadsFail`: writes
  may fail as they like, but a record that is selected can be read. Without it
  `DetailsRight` is false, which is finding 5 (`details_load`); `window` checks it under the same
  condition. `DetailInv` adds that the selected record has an item, that the notes in the control
  are its notes or typed over them, and that every item has its record.
* `DropTargetIsRight`: the count is the number of holders (`Counted`, three cases: the control's
  registration, a drag besides, a drag that outlives the window), and the effect of a
  drag is the one computed from its offer.
* `OffersAreKept` takes the theorems of `MenusProofs` for the window's instance of `Menus`.
* `WindowIsRight` and `WindowShowsRecord`: a behaviour of `Window` is one of each part, as
  every step of it is a step of a part or leaves it alone (`WindowSteps`).

`ProcessProofs` does the same for the parts of the process, with sizes, lengths, fonts and
keys left open. Of the handles it assumes that NULL is no provider and the provider no key
(`HandleAssumption`), of the derivation that a hash has a positive size.

* `LoaderIsRight`: `Spec => []LoaderRight`. What is written at each step is described by
  `HasDirectory` and `HasPrefix`: the directory without its backslash in the
  first cells, then one backslash, with room for the rest. `OldestFirst` has an invariant of
  its own, `Ordered`.
* `TrimWhiteSpaceIsRight`: `TrimSpec => []TrimRight`. Two loop invariants (`Forward`: only
  spaces before `start`; `Backward`: only spaces behind `end`), and between the loops
  that a non-space was found (`Found`), which is what stops the second one.
* `DerivationIsRight`: `Derive!Spec => []DerivesRight`, for every hash size, key length and
  number of rounds. What was copied is the list of the definition's blocks, side by side, whole
  but for the last (`Pieces`); inside a block all its HMACs up to the current round are in
  `okey` (`InBlock`), and a variable holds a handle only between the call that
  sets it and the one that frees it (`Handles`).
* `LifecycleIsRight`: the place in `wWinMain`, and in the life of the main window, says
  what has been set up, which windows and fonts there are and whether a quit message waits
  (`SetUp`, `Created`, `Ending`, `Looping`, `Over`): a clause for each value of `appPc`. Only a
  loop that fails carries a whole window (`Up`) past its end. `FontsRight` says which of the two
  fonts the control draws with at each of the three steps.
* `HandlesAreRight`: the handles that exist are those of the complete objects and, during a call,
  what the first calls of the running function gave (`Taken`): `open = Complete \cup Taken`.
  That a failure gives back exactly the latter needs that a function which makes an object
  works on one that is not there yet (`MakerApart`) and that no handle comes before its block
  (`BlockFirst`), as the clean-up frees nothing without it. `SetUpFallsBack` is the step from
  CNG to CryptoAPI.
* `ProcessIsRight`: all of it of `Process`, as above.

Only model-checked: liveness, that is `EveryOKAnswered` and `AloneGetsIn` of `FileLock` and
`EveryCallEnds` of `process`, as fairness and ENABLED are beyond the provers; and the
five runs that expect a violation.

## 5. Not modelled, and the plan

Not modelled, and why:

* The ciphers, hashes and random numbers of Windows, SQLite's pages and its SQL
  engine: external; they appear as calls that succeed or fail and as locks.
* How dates and times are written, DPI, icons, resources, the strings of the
  display: conversions without control that no property is about.
* The order of siblings in the tree, beyond which child comes first after loading;
  the nested layout of both splitters (each bar with its two panes is `Splitter`).
* 2^32 insertions into one file (`DataStore.c:349` cuts the rowid to 32 bits).

What could follow: `Editor` with failing statements, which would join it with `Details` and
with the transactions of `DataStore`; the loops' termination as the decrease of a measure, which
is the part of `EveryCallEnds` that is a statement about single steps.
