--------------------------- MODULE FileLockProofs ---------------------------
(***************************************************************************)
(* For any number of processes and saves: a process that edits is alone    *)
(* with the file, no open workspace is stale, and FileLock implements      *)
(* SharedFile.                                                             *)
(***************************************************************************)
EXTENDS FileLock, TLAPS

\* Which locks go with which stage.
LockOfStage ==
    \A p \in Processes :
        /\ stage[p] = "acquiring" => readWrite[p] /\ lock[p] # "none"
        /\ stage[p] \in {"loading", "editing"} =>
              lock[p] # "none" /\ (readWrite[p] => lock[p] = "exclusive")

\* What SQLite's rules make of an EXCLUSIVE lock.
ExclusiveIsAlone ==
    \A p \in Processes : lock[p] = "exclusive" => \A q \in Others(p) : lock[q] = "none"

\* Unsaved edits are those of an open read-write workspace.
DirtyIsEditing ==
    \A p \in Processes : dirty[p] => stage[p] = "editing" /\ readWrite[p]

\* The inductive invariant.
LockInv == TypeOK /\ LockOfStage /\ ExclusiveIsAlone /\ DirtyIsEditing /\ NoStaleWorkspace

-----------------------------------------------------------------------------
\* Nothing is open at the start.
LEMMA InitLockInv == Init => LockInv
  BY MaxSavesAssumption DEF Init, LockInv, TypeOK, LockOfStage, ExclusiveIsAlone,
     DirtyIsEditing, NoStaleWorkspace, Stages, Locks

\* DbOpen and OK in the dialog touch no lock.
LEMMA DialogLockInv ==
  ASSUME LockInv, NEW p \in Processes,
         (\E rw, new \in BOOLEAN : DbOpen(p, rw, new)) \/ (\E good \in BOOLEAN : PressOK(p, good))
  PROVE  LockInv'
  BY DEF DbOpen, PressOK, LockInv, TypeOK, LockOfStage, ExclusiveIsAlone,
     DirtyIsEditing, NoStaleWorkspace, Stages, Others

\* A refused attempt keeps the invariant when the lock it leaves is legal.
LEMMA RefuseLockInv ==
  ASSUME LockInv, NEW p \in Processes, NEW held \in Locks \ {"exclusive"},
         stage[p] \in {"reading", "acquiring"},
         held = "none" \/ \A q \in Others(p) : lock[q] # "exclusive",
         Refuse(p, held), UNCHANGED <<choices, file, seen, dirty>>
  PROVE  LockInv'
  BY DEF Refuse, AfterRefusal, LockAfterRefusal, choices, LockInv, TypeOK, LockOfStage,
     ExclusiveIsAlone, DirtyIsEditing, NoStaleWorkspace, Stages, Locks, Others

\* DbGetVersionInfo
LEMMA ReadLockInv ==
  ASSUME LockInv, NEW p \in Processes, DbGetVersionInfo(p)
  PROVE  LockInv'
<1>1. lock[p] \in Locks /\ stage[p] = "reading"
  BY DEF LockInv, TypeOK, DbGetVersionInfo
<1>2. lock[p] # "none" => \A q \in Others(p) : lock[q] # "exclusive"
  BY DEF LockInv, ExclusiveIsAlone, Others
<1>3. CASE lock[p] = "exclusive"
  BY <1>1, <1>3 DEF DbGetVersionInfo, Refuse, CanShare, AfterRefusal, LockAfterRefusal,
     choices, LockInv, TypeOK, LockOfStage, ExclusiveIsAlone, DirtyIsEditing,
     NoStaleWorkspace, Stages, Locks, Others
<1>4. CASE lock[p] # "exclusive"
  <2>1. CASE CanShare(p) /\ goodPass[p]
    BY <1>1, <1>2, <1>4, <2>1 DEF DbGetVersionInfo, CanShare, choices, LockInv, TypeOK,
       LockOfStage, ExclusiveIsAlone, DirtyIsEditing, NoStaleWorkspace, Stages, Locks, Others
  <2>2. CASE CanShare(p) /\ ~goodPass[p]
    <3>1. PICK held \in {lock[p], IF lock[p] = "none" THEN "shared" ELSE lock[p]} :
             Refuse(p, held) /\ UNCHANGED <<choices, file, seen, dirty>>
      BY <2>2 DEF DbGetVersionInfo
    <3>2. \A q \in Others(p) : lock[q] # "exclusive"
      BY <1>2, <2>2 DEF CanShare
    <3>3. held \in Locks \ {"exclusive"}
      BY <1>1, <1>4, <3>1 DEF Locks
    <3> QED  BY <1>1, <3>1, <3>2, <3>3, RefuseLockInv
  <2>3. CASE ~CanShare(p)
    <3>1. lock[p] = "none" /\ Refuse(p, lock[p]) /\ UNCHANGED <<choices, file, seen, dirty>>
      BY <2>3 DEF DbGetVersionInfo, CanShare
    <3>2. lock[p] \in Locks \ {"exclusive"}
      BY <3>1 DEF Locks
    <3> QED  BY <1>1, <3>1, <3>2, RefuseLockInv
  <2> QED  BY <2>1, <2>2, <2>3
<1> QED  BY <1>3, <1>4

\* DbAcquireExclusiveAccess
LEMMA AcquireLockInv ==
  ASSUME LockInv, NEW p \in Processes, DbAcquireExclusiveAccess(p)
  PROVE  LockInv'
<1>1. lock[p] \in Locks /\ lock[p] # "none" /\ stage[p] = "acquiring"
  BY DEF LockInv, TypeOK, LockOfStage, DbAcquireExclusiveAccess
<1>2. \A q \in Others(p) : lock[q] # "exclusive"
  BY <1>1 DEF LockInv, ExclusiveIsAlone, Others
<1>3. CASE CanExclude(p)
  BY <1>1, <1>3 DEF DbAcquireExclusiveAccess, CanExclude, choices, LockInv, TypeOK,
     LockOfStage, ExclusiveIsAlone, DirtyIsEditing, NoStaleWorkspace, Stages, Locks, Others
<1>4. CASE ~CanExclude(p)
  <2>1. PICK held \in {lock[p], "pending"} :
           Refuse(p, held) /\ UNCHANGED <<choices, file, seen, dirty>>
    BY <1>4 DEF DbAcquireExclusiveAccess
  <2>2. lock[p] # "exclusive"
    BY <1>4 DEF LockInv, ExclusiveIsAlone, CanExclude
  <2>3. held \in Locks \ {"exclusive"}
    BY <1>1, <2>1, <2>2 DEF Locks
  <2> QED  BY <1>1, <1>2, <2>1, <2>3, RefuseLockInv
<1> QED  BY <1>3, <1>4

\* Loading the workspace makes it current.
LEMMA LoadLockInv ==
  ASSUME LockInv, NEW p \in Processes, LoadRootNodes(p) \/ EditContent(p)
  PROVE  LockInv'
<1>1. CASE LoadRootNodes(p)
  <2>1. TypeOK'
    BY <1>1 DEF LoadRootNodes, choices, LockInv, TypeOK, Stages
  <2>2. LockOfStage'
    BY <1>1 DEF LoadRootNodes, choices, LockInv, TypeOK, LockOfStage
  <2>3. ExclusiveIsAlone'
    BY <1>1 DEF LoadRootNodes, LockInv, ExclusiveIsAlone, Others
  <2>4. DirtyIsEditing' /\ NoStaleWorkspace'
    BY <1>1 DEF LoadRootNodes, choices, LockInv, TypeOK, DirtyIsEditing, NoStaleWorkspace
  <2> QED  BY <2>1, <2>2, <2>3, <2>4 DEF LockInv
<1>2. CASE EditContent(p)
  BY <1>2 DEF EditContent, choices, LockInv, TypeOK, LockOfStage, ExclusiveIsAlone,
     DirtyIsEditing, NoStaleWorkspace, Stages, Others
<1> QED  BY <1>1, <1>2

\* A save makes nobody else's workspace stale: the writer is alone.
LEMMA SaveLockInv ==
  ASSUME LockInv, NEW p \in Processes, DbSave(p) \/ DbCloseSave(p)
  PROVE  LockInv'
<1>1. \A q \in Others(p) : stage[q] # "editing"
  BY DEF DbSave, DbCloseSave, LockInv, LockOfStage, ExclusiveIsAlone, DirtyIsEditing, Others
<1>2. file' \in 0 .. MaxSaves
  BY MaxSavesAssumption DEF DbSave, DbCloseSave, LockInv, TypeOK
<1>3. CASE DbSave(p)
  BY <1>1, <1>2, <1>3 DEF DbSave, LockAfterCommit, choices, LockInv, TypeOK, LockOfStage,
     ExclusiveIsAlone, DirtyIsEditing, NoStaleWorkspace, Stages, Locks, Others
<1>4. CASE DbCloseSave(p)
  BY <1>1, <1>2, <1>4 DEF DbCloseSave, Closed, choices, LockInv, TypeOK, LockOfStage,
     ExclusiveIsAlone, DirtyIsEditing, NoStaleWorkspace, Stages, Locks, Others
<1> QED  BY <1>3, <1>4

\* Closing, cancelling and crashing free the locks.
LEMMA CloseLockInv ==
  ASSUME LockInv, NEW p \in Processes, DbClose(p)
  PROVE  LockInv'
  BY DEF DbClose, Closed, choices, LockInv, TypeOK, LockOfStage, ExclusiveIsAlone,
     DirtyIsEditing, NoStaleWorkspace, Stages, Locks, Others

\* No step of any process breaks the invariant.
THEOREM LockInductive == LockInv /\ [Next]_vars => LockInv'
<1> SUFFICES ASSUME LockInv, [Next]_vars PROVE LockInv'
  OBVIOUS
<1>1. CASE UNCHANGED vars
  BY <1>1 DEF vars, LockInv, TypeOK, LockOfStage, ExclusiveIsAlone, DirtyIsEditing,
     NoStaleWorkspace, Others
<1>2. ASSUME NEW p \in Processes, User(p) \/ Program(p) PROVE LockInv'
  BY <1>2, DialogLockInv, ReadLockInv, AcquireLockInv, LoadLockInv, SaveLockInv, CloseLockInv
     DEF User, Program
<1> QED  BY <1>1, <1>2 DEF Next

\* The invariant holds in every reachable state.
THEOREM LockCorrect == Spec => []LockInv
<1> QED  BY InitLockInv, LockInductive, PTL DEF Spec

\* Stages, locks and versions keep their types, for any number of processes;
\* in particular no process gets into a state its dialogs do not handle.
THEOREM LockTypes == Spec => []TypeOK
<1>1. LockInv => TypeOK
  BY DEF LockInv
<1> QED  BY <1>1, LockCorrect, PTL

\* A process that may edit is alone with the file (DbAcquireExclusiveAccess).
THEOREM WriterCorrect == Spec => []WriterIsAlone
<1>1. LockInv => WriterIsAlone
  BY DEF LockInv, LockOfStage, ExclusiveIsAlone, WriterIsAlone
<1> QED  BY <1>1, LockCorrect, PTL

\* No open workspace is stale, for any number of processes.
THEOREM FreshCorrect == Spec => []NoStaleWorkspace
<1>1. LockInv => NoStaleWorkspace
  BY DEF LockInv
<1> QED  BY <1>1, LockCorrect, PTL

-----------------------------------------------------------------------------
\* The processes that have the file open, as SharedFile sees them.
Readers == {p \in Processes : stage[p] = "editing" /\ ~readWrite[p]}
Writers == {p \in Processes : stage[p] = "editing" /\ readWrite[p]}

\* Opening, the dialogs, the locks and an edit are no steps of SharedFile.
LEMMA HiddenSteps ==
  ASSUME LockInv, NEW p \in Processes,
         \/ \E rw, new \in BOOLEAN : DbOpen(p, rw, new)
         \/ \E good \in BOOLEAN : PressOK(p, good)
         \/ DbGetVersionInfo(p)
         \/ DbAcquireExclusiveAccess(p)
         \/ EditContent(p)
         \/ DbClose(p) /\ stage[p] # "editing"
  PROVE  UNCHANGED <<file, Readers, Writers, seen>>
<1>1. stage[p] # "editing" =>
         (\A q \in Processes : stage'[q] = "editing" <=> stage[q] = "editing")
         /\ (\A q \in Processes : q # p => readWrite'[q] = readWrite[q])
  BY DEF DbOpen, PressOK, DbGetVersionInfo, DbAcquireExclusiveAccess, EditContent, DbClose,
     Closed, Refuse, AfterRefusal, choices, LockInv, TypeOK
<1>2. stage[p] = "editing" => UNCHANGED <<stage, readWrite>>
  BY DEF DbOpen, PressOK, DbGetVersionInfo, DbAcquireExclusiveAccess, EditContent, choices
<1>3. UNCHANGED <<file, seen>>
  BY DEF DbOpen, PressOK, DbGetVersionInfo, DbAcquireExclusiveAccess, EditContent, DbClose,
     Closed
<1>4. Readers' = Readers /\ Writers' = Writers
  BY <1>1, <1>2 DEF Readers, Writers
<1> QED  BY <1>3, <1>4

\* Loading the workspace begins reading or writing.
LEMMA LoadBegins ==
  ASSUME LockInv, NEW p \in Processes, LoadRootNodes(p)
  PROVE  Shared!BeginReading(p) \/ Shared!BeginWriting(p)
<1>1. /\ \A q \in Processes : stage'[q] = "editing" <=> q = p \/ stage[q] = "editing"
      /\ stage[p] = "loading" /\ lock[p] # "none"
      /\ readWrite[p] => lock[p] = "exclusive"
      /\ UNCHANGED <<readWrite, file>>
      /\ seen' = [seen EXCEPT ![p] = file]
  BY DEF LoadRootNodes, choices, LockInv, TypeOK, LockOfStage
<1>2. \A q \in Processes : stage[q] = "editing" => lock[q] # "none"
  BY DEF LockInv, LockOfStage
<1>3. Writers = {}
  BY <1>1 DEF Writers, LockInv, LockOfStage, ExclusiveIsAlone, Others
<1>4. CASE readWrite[p]
  <2>1. Readers = {}
    BY <1>1, <1>2, <1>4 DEF Readers, LockInv, ExclusiveIsAlone, Others
  <2>2. Readers' = {} /\ Writers' = {p}
    BY <1>1, <1>3, <1>4, <2>1 DEF Readers, Writers
  <2> QED  BY <1>1, <1>3, <2>1, <2>2 DEF Shared!BeginWriting, Readers, Writers
<1>5. CASE ~readWrite[p]
  <2>1. Readers' = Readers \cup {p} /\ Writers' = {}
    BY <1>1, <1>3, <1>5 DEF Readers, Writers
  <2> QED  BY <1>1, <1>3, <2>1 DEF Shared!BeginReading, Readers, Writers
<1> QED  BY <1>4, <1>5

\* A save is a write of the only writer.
LEMMA SaveWrites ==
  ASSUME LockInv, NEW p \in Processes, DbSave(p)
  PROVE  Shared!Write(p)
<1>1. /\ stage[p] = "editing" /\ readWrite[p] /\ lock[p] = "exclusive"
      /\ UNCHANGED <<stage, readWrite>>
      /\ seen' = [seen EXCEPT ![p] = file']
  BY DEF DbSave, choices, LockInv, LockOfStage, DirtyIsEditing
<1>2. \A q \in Processes : stage[q] = "editing" => q = p
  BY <1>1 DEF LockInv, LockOfStage, ExclusiveIsAlone, Others
<1>3. Writers = {p}
  BY <1>1, <1>2 DEF Writers
<1>4. Readers' = Readers /\ Writers' = Writers
  BY <1>1 DEF Readers, Writers
<1> QED  BY <1>1, <1>3, <1>4 DEF Shared!Write, Readers, Writers

\* Closing an open workspace ends its reading or writing.
LEMMA CloseEnds ==
  ASSUME LockInv, NEW p \in Processes, DbClose(p) \/ DbCloseSave(p), stage[p] = "editing"
  PROVE  Shared!End(p)
<1>1. /\ \A q \in Processes : stage'[q] = "editing" <=> q # p /\ stage[q] = "editing"
      /\ UNCHANGED <<readWrite, seen>>
      /\ ~readWrite[p] => file' = file
  BY DEF DbClose, DbCloseSave, Closed, choices, LockInv, TypeOK, DirtyIsEditing
<1>2. p \in Readers \cup Writers /\ (p \in Readers <=> ~readWrite[p])
  BY DEF Readers, Writers
<1>3. Readers' = Readers \ {p} /\ Writers' = Writers \ {p}
  BY <1>1 DEF Readers, Writers
<1> QED  BY <1>1, <1>2, <1>3 DEF Shared!End, Readers, Writers

\* Seen as who reads and who writes, the processes, with SQLite's locks and
\* all refusals, behave as SharedFile: many readers or one writer.
THEOREM SharedImplementation == Spec => ImplementsSharedFile
<1>1. Init => Shared!SharedInit
  BY DEF Init, Shared!SharedInit
<1>2. LockInv /\ [Next]_vars => [Shared!SharedNext]_(Shared!sharedVars)
  <2> SUFFICES ASSUME LockInv, [Next]_vars
               PROVE  [Shared!SharedNext]_(Shared!sharedVars)
    OBVIOUS
  <2>1. CASE UNCHANGED vars
    BY <2>1 DEF vars, Shared!sharedVars
  <2>2. ASSUME NEW p \in Processes, User(p) \/ Program(p)
        PROVE  [Shared!SharedNext]_(Shared!sharedVars)
    <3>1. CASE LoadRootNodes(p)
      BY <3>1, LoadBegins DEF Shared!SharedNext
    <3>2. CASE DbSave(p)
      BY <3>2, SaveWrites DEF Shared!SharedNext
    <3>3. CASE (DbClose(p) \/ DbCloseSave(p)) /\ stage[p] = "editing"
      BY <3>3, CloseEnds DEF Shared!SharedNext
    <3>4. CASE ~(LoadRootNodes(p) \/ DbSave(p))
               /\ ~((DbClose(p) \/ DbCloseSave(p)) /\ stage[p] = "editing")
      <4>1. UNCHANGED <<file, Readers, Writers, seen>>
        BY <2>2, <3>4, HiddenSteps DEF User, Program, DbCloseSave
      <4> QED  BY <4>1 DEF Shared!sharedVars, Readers, Writers
    <3> QED  BY <3>1, <3>2, <3>3, <3>4
  <2> QED  BY <2>1, <2>2 DEF Next
<1> QED  BY <1>1, <1>2, LockCorrect, PTL DEF Spec, ImplementsSharedFile, Shared!SharedSpec
=============================================================================
