------------------------------ MODULE FileLock ------------------------------
(***************************************************************************)
(* Several SafeEditor processes and one file.                              *)
(*                                                                         *)
(* A process reads the file's version with the password it was given and,  *)
(* to edit, asks SQLite for an EXCLUSIVE transaction (IsValidPassword,     *)
(* AppNewFile).  There is no busy handler: whoever does not get a lock is  *)
(* told that the file is in use and, in the password dialog, may try       *)
(* again.  SQLITE_DEFAULT_LOCKING_MODE 1 makes a connection keep every     *)
(* lock it ever got until it is closed.                                    *)
(*                                                                         *)
(* A step is what one process does between two calls of SQLite that touch  *)
(* the locks; steps of different processes interleave freely.  Contents    *)
(* are counted (file), keys and file versions belong to DataStore.         *)
(***************************************************************************)
EXTENDS Naturals

CONSTANTS
    Processes,
    MaxSaves     \* bound on the saves

ASSUME MaxSavesAssumption == MaxSaves \in Nat

VARIABLES
    stage,       \* where each process is, see Stages
    readWrite,   \* the file was opened read-write
    newFile,     \* by AppNewFile, which does not let the user try again
    goodPass,    \* the password tried last is right
    lock,        \* the SQLite lock of the connection
    file,        \* the number of saves the file has seen
    seen,        \* the save a process' workspace was loaded from
    dirty        \* the process has unsaved edits

choices == <<readWrite, newFile, goodPass>>
vars == <<stage, readWrite, newFile, goodPass, lock, file, seen, dirty>>

Stages ==
    {"closed",
     "dialog",     \* the handle is open, a dialog waits for the user
     "reading",    \* about to call DbGetVersionInfo
     "acquiring",  \* about to call DbAcquireExclusiveAccess
     "loading",    \* about to load the workspace
     "editing"}

\* A PENDING lock keeps new readers out; RESERVED comes with it here.
Locks == {"none", "shared", "pending", "exclusive"}

TypeOK ==
    /\ stage \in [Processes -> Stages]
    /\ readWrite \in [Processes -> BOOLEAN]
    /\ newFile \in [Processes -> BOOLEAN]
    /\ goodPass \in [Processes -> BOOLEAN]
    /\ lock \in [Processes -> Locks]
    /\ file \in 0 .. MaxSaves
    /\ seen \in [Processes -> 0 .. MaxSaves]
    /\ dirty \in [Processes -> BOOLEAN]

Others(p) == Processes \ {p}

\* SQLite's rules for the locks.
CanShare(p) ==
    lock[p] # "none" \/ \A q \in Others(p) : lock[q] \notin {"pending", "exclusive"}

CanExclude(p) == \A q \in Others(p) : lock[q] = "none"

-----------------------------------------------------------------------------
\* DbOpen takes no lock; a dialog follows.
DbOpen(p, rw, new) ==
    /\ stage[p] = "closed"
    /\ stage' = [stage EXCEPT ![p] = "dialog"]
    /\ readWrite' = [readWrite EXCEPT ![p] = rw]
    /\ newFile' = [newFile EXCEPT ![p] = new]
    /\ UNCHANGED <<goodPass, lock, file, seen, dirty>>

\* The user presses OK in the password or the properties dialog; DbKey.
PressOK(p, good) ==
    /\ stage[p] = "dialog"
    /\ stage' = [stage EXCEPT ![p] = "reading"]
    /\ goodPass' = [goodPass EXCEPT ![p] = good]
    /\ UNCHANGED <<readWrite, newFile, lock, file, seen, dirty>>

\* Mutant: a state the dialog does not handle.
AfterRefusal_Unhandled(p) == "refused"

\* The password dialog stays, AppNewFile gives up.
AfterRefusal(p) == IF newFile[p] THEN "closed" ELSE "dialog"

\* Mutant: the handle of the refused file is not closed.
LockAfterRefusal_Kept(p, held) == held

\* Giving up includes DbClose.
LockAfterRefusal(p, held) == IF newFile[p] THEN "none" ELSE held

\* The process is told that the file is in use or the password wrong and
\* has lock held, if its handle stays open.
Refuse(p, held) ==
    /\ stage' = [stage EXCEPT ![p] = AfterRefusal(p)]
    /\ lock' = [lock EXCEPT ![p] = LockAfterRefusal(p, held)]

\* DbGetVersionInfo.  With a wrong password SQLite may keep the SHARED lock
\* it read the first page under.
DbGetVersionInfo(p) ==
    /\ stage[p] = "reading"
    /\ \/ /\ CanShare(p) /\ goodPass[p]
          /\ stage' = [stage EXCEPT ![p] = IF readWrite[p] THEN "acquiring" ELSE "loading"]
          /\ lock' = [lock EXCEPT ![p] = IF @ = "none" THEN "shared" ELSE @]
       \/ /\ CanShare(p) /\ ~goodPass[p]
          /\ \E held \in {lock[p], IF lock[p] = "none" THEN "shared" ELSE lock[p]} :
                Refuse(p, held)
       \/ ~CanShare(p) /\ Refuse(p, lock[p])
    /\ UNCHANGED <<choices, file, seen, dirty>>

\* Mutant: a busy handler waits for the lock.
DbAcquireExclusiveAccess_Waits(p) ==
    /\ stage[p] = "acquiring"
    /\ CanExclude(p)
    /\ stage' = [stage EXCEPT ![p] = "loading"]
    /\ lock' = [lock EXCEPT ![p] = "exclusive"]
    /\ UNCHANGED <<choices, file, seen, dirty>>

\* Mutant: the result is ignored.
DbAcquireExclusiveAccess_Ignored(p) ==
    /\ stage[p] = "acquiring"
    /\ stage' = [stage EXCEPT ![p] = "loading"]
    /\ lock' = [lock EXCEPT ![p] = IF CanExclude(p) THEN "exclusive" ELSE @]
    /\ UNCHANGED <<choices, file, seen, dirty>>

\* BEGIN EXCLUSIVE TRANSACTION.  A failed attempt may leave the connection
\* with a PENDING lock if nobody else has one.
DbAcquireExclusiveAccess(p) ==
    /\ stage[p] = "acquiring"
    /\ \/ /\ CanExclude(p)
          /\ stage' = [stage EXCEPT ![p] = "loading"]
          /\ lock' = [lock EXCEPT ![p] = "exclusive"]
       \/ /\ ~CanExclude(p)
          /\ \E held \in {lock[p]} \cup
                         IF \A q \in Others(p) : lock[q] # "pending" THEN {"pending"} ELSE {} :
                Refuse(p, held)
    /\ UNCHANGED <<choices, file, seen, dirty>>

\* LoadRootNodes: the workspace shows the file.
LoadRootNodes(p) ==
    /\ stage[p] = "loading"
    /\ stage' = [stage EXCEPT ![p] = "editing"]
    /\ seen' = [seen EXCEPT ![p] = file]
    /\ UNCHANGED <<choices, lock, file, dirty>>

\* Any statement that changes a record.
EditContent(p) ==
    /\ stage[p] = "editing"
    /\ readWrite[p]
    /\ dirty' = [dirty EXCEPT ![p] = TRUE]
    /\ UNCHANGED <<stage, choices, lock, file, seen>>

\* Mutant: the lock does not outlive the COMMIT (locking mode NORMAL, and
\* DbSave does not acquire the file again).
LockAfterCommit_Released(p) == "none"

\* DbSave acquires the file again; in locking mode EXCLUSIVE it never lost it.
LockAfterCommit(p) == lock[p]

\* DbSave; the file has what this process made of what it had seen.
DbSave(p) ==
    /\ stage[p] = "editing"
    /\ dirty[p]
    /\ file < MaxSaves
    /\ file' = file + 1
    /\ seen' = [seen EXCEPT ![p] = file + 1]
    /\ dirty' = [dirty EXCEPT ![p] = FALSE]
    /\ lock' = [lock EXCEPT ![p] = LockAfterCommit(p)]
    /\ UNCHANGED <<stage, choices>>

\* sqlite3_close, or the operating system after a crash, frees the locks.
Closed(p) ==
    /\ stage' = [stage EXCEPT ![p] = "closed"]
    /\ lock' = [lock EXCEPT ![p] = "none"]
    /\ dirty' = [dirty EXCEPT ![p] = FALSE]
    /\ UNCHANGED <<choices, seen>>

\* Cancel in the dialog; closing the file, saved or not; a crash anywhere.
DbClose(p) ==
    /\ stage[p] # "closed"
    /\ Closed(p)
    /\ UNCHANGED file

DbCloseSave(p) ==
    /\ stage[p] = "editing"
    /\ dirty[p]
    /\ file < MaxSaves
    /\ file' = file + 1
    /\ Closed(p)

-----------------------------------------------------------------------------
Init ==
    /\ stage = [p \in Processes |-> "closed"]
    /\ readWrite = [p \in Processes |-> FALSE]
    /\ newFile = [p \in Processes |-> FALSE]
    /\ goodPass = [p \in Processes |-> FALSE]
    /\ lock = [p \in Processes |-> "none"]
    /\ file = 0
    /\ seen = [p \in Processes |-> 0]
    /\ dirty = [p \in Processes |-> FALSE]

User(p) ==
    \/ \E rw, new \in BOOLEAN : DbOpen(p, rw, new)
    \/ \E good \in BOOLEAN : PressOK(p, good)
    \/ EditContent(p)
    \/ DbSave(p)
    \/ DbClose(p)
    \/ DbCloseSave(p)

\* Steps the program takes by itself.
Program(p) == DbGetVersionInfo(p) \/ DbAcquireExclusiveAccess(p) \/ LoadRootNodes(p)

Next == \E p \in Processes : User(p) \/ Program(p)

Spec == Init /\ [][Next]_vars

\* The operating system runs every process; no user has to do anything.
FairSpec == Spec /\ \A p \in Processes : WF_vars(Program(p))

-----------------------------------------------------------------------------
(* Properties *)

\* Once a process passed DbAcquireExclusiveAccess nobody else holds any lock,
\* whatever failed attempts, wrong passwords and crashes went before.
WriterIsAlone ==
    \A p \in Processes :
        stage[p] \in {"loading", "editing"} /\ readWrite[p] =>
            /\ lock[p] = "exclusive"
            /\ \A q \in Others(p) : lock[q] = "none"

\* An open workspace shows the last save: no process edits, or goes on
\* showing, what another one has replaced.
NoStaleWorkspace == \A p \in Processes : stage[p] = "editing" => seen[p] = file

\* Each OK is answered: processes that block each other's EXCLUSIVE lock do
\* not wait for each other, each is told that the file is in use.
EveryOKAnswered ==
    \A p \in Processes :
        stage[p] \in {"reading", "acquiring", "loading"}
            ~> stage[p] \in {"dialog", "editing", "closed"}

\* What others, or its own refused attempts, left behind does not lock a
\* process out: an attempt with the right password gets in unless another
\* process opens the file in the meantime or the process ends.
Alone(p) == \A q \in Others(p) : stage[q] = "closed"

AloneGetsIn ==
    \A p \in Processes :
        Alone(p) /\ stage[p] = "reading" /\ goodPass[p]
            ~> stage[p] \in {"editing", "closed"} \/ ~Alone(p)

\* FileLock implements SharedFile.
Shared == INSTANCE SharedFile WITH
             content <- file,
             readers <- {p \in Processes : stage[p] = "editing" /\ ~readWrite[p]},
             writers <- {p \in Processes : stage[p] = "editing" /\ readWrite[p]}

ImplementsSharedFile == Shared!SharedSpec
=============================================================================
