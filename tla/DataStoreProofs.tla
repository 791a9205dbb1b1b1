-------------------------- MODULE DataStoreProofs --------------------------
(***************************************************************************)
(* Proofs about DataStore, for every value of the constants.               *)
(***************************************************************************)
EXTENDS DataStore, RecordsProofs

-----------------------------------------------------------------------------
(* Type correctness *)

InitialTypes == \A c \in InitialContents : IsContent(c)

\* Every file the program may be started on is a well-typed content.
LEMMA InitialContentsType == InitialTypes
<1>1. IsContent(CreateSchema) /\ IsContent(EmptyContent)
  BY CreateSchemaType, EmptyContentType
<1>2. IsContent([CreateSchema EXCEPT !.schema = 2])
  BY <1>1 DEF IsContent
<1>3. MaxRecordId # 0 => IsContent(InsertItem(CreateSchema, FileRecord, NewItemTitle))
  <2>1. MaxRecordId # 0 => CreateSchema.seq < MaxRecordId
    BY MaxRecordIdAssumption DEF CreateSchema
  <2>2. FileRecord \in RecordIds
    BY MaxRecordIdAssumption DEF FileRecord, RecordIds, RootRecord
  <2> QED
    BY <1>1, <2>1, <2>2, InsertItemType, TextsAssumption
<1> QED
  BY <1>1, <1>2, <1>3 DEF InitialTypes, InitialContents

\* What the Db* functions report is a well-typed call.
LEMMA CallType ==
    ASSUME NEW op \in Ops, NEW ok \in BOOLEAN
    PROVE  Call(op, ok) \in [op : Ops, ok : BOOLEAN]
BY DEF Call

\* A statement that ran to its end keeps the types, if what it wrote is a
\* content and it counted a natural number of rows.
LEMMA StatementDoneType ==
    ASSUME TypeOK, NEW new, IsContent(new), NEW n \in Nat, StatementDone(new, n)
    PROVE  TypeOK'
<1>1. totalChanges' \in Nat /\ isDirty' = isDirty
  BY DEF TypeOK, StatementDone
<1>2. lastState' \in {"none", "dirty", "saved"} /\ status' \in {"ready", "changed"}
  BY DEF TypeOK, StatementDone, OnFileChanged
<1>3. IsContent(work') /\ IsContent(disk')
  BY DEF TypeOK, StatementDone
<1>4. lastCall' \in [op : Ops, ok : BOOLEAN]
  BY DEF StatementDone, Call, Ops
<1> QED
  BY <1>1, <1>2, <1>3, <1>4 DEF TypeOK, StatementDone

\* Every reachable state of the data store is well typed.
THEOREM TypeCorrect == Spec => []TypeOK
<1>1. Init => TypeOK
  <2> SUFFICES ASSUME Init PROVE TypeOK
    OBVIOUS
  <2>1. IsContent(disk) /\ IsContent(work)
    BY InitialContentsType DEF InitialTypes, Init
  <2>2. lastCall \in [op : Ops, ok : BOOLEAN]
    BY DEF Init, Call, Ops
  <2> QED
    BY <2>1, <2>2 DEF Init, TypeOK, Phases
<1>2. TypeOK /\ [Next]_vars => TypeOK'
  <2> SUFFICES ASSUME TypeOK, [Next]_vars PROVE TypeOK'
    OBVIOUS
  <2>1. ASSUME NEW rw \in BOOLEAN, DbOpen(rw) PROVE TypeOK'
    <3>1. totalChanges' \in Nat /\ lastSavedTotalChanges' \in Nat
      BY <2>1 DEF DbOpen, FreshContext
    <3>2. readWrite' \in BOOLEAN
      BY <2>1 DEF DbOpen
    <3>3. lastCall' \in [op : Ops, ok : BOOLEAN]
      BY <2>1 DEF DbOpen, Call, Ops
    <3> QED
      BY <2>1, <3>1, <3>2, <3>3 DEF TypeOK, DbOpen, FreshContext, file, Phases
  <2>2. ASSUME NEW p \in Passwords, DbKey(p) PROVE TypeOK'
    BY <2>2 DEF TypeOK, DbKey, context, file, Phases, Call, Ops
  <2>3. CASE ValidateFails
    <3>1. lastCall' \in [op : Ops, ok : BOOLEAN]
      <4>1. PICK op \in Ops : lastCall' = Call(op, FALSE)
        BY <2>3 DEF ValidateFails, Ops
      <4> QED
        BY <4>1, CallType
    <3> QED
      BY <2>3, <3>1 DEF TypeOK, ValidateFails, context, file
  <2>4. CASE DbAcquireExclusiveAccess
    BY <2>4 DEF TypeOK, DbAcquireExclusiveAccess, context, file, Phases, Call, Ops
  <2>5. CASE LoadRootNodes
    BY <2>5 DEF TypeOK, LoadRootNodes, context, file, Phases
  <2>6. CASE RejectVersion
    BY <2>6 DEF TypeOK, RejectVersion, context, file, Phases
  <2>7. CASE DbUpgradeSchema
    BY <2>7, CreateSchemaType
       DEF TypeOK, DbUpgradeSchema, OnFileChanged, context, file, Phases, Call, Ops
  <2>8. CASE DbUpgradeSchemaFails
    BY <2>8, CreateSchemaType
       DEF TypeOK, DbUpgradeSchemaFails, context, file, Phases, Call, Ops
  <2>9. ASSUME NEW id \in RecordIds, DbAddNewItem(id) PROVE TypeOK'
    <3>1. IsContent(InsertItem(work, id, NewItemTitle))
      BY <2>9, InsertItemType, TextsAssumption DEF TypeOK, DbAddNewItem
    <3> QED
      BY <2>9, <3>1, StatementDoneType DEF DbAddNewItem
  <2>10. ASSUME NEW id \in RecordIds, NEW text \in Texts, DbUpdateItemNotes(id, text)
         PROVE  TypeOK'
    <3>1. IsContent(UpdateNotes(work, id, text))
      BY <2>10, UpdateNotesType DEF TypeOK, DbUpdateItemNotes
    <3> QED
      BY <2>10, <3>1, StatementDoneType DEF DbUpdateItemNotes, RowsChanged
  <2>11. ASSUME NEW id \in RecordIds, NEW text \in Texts, DbUpdateItemTitle(id, text)
         PROVE  TypeOK'
    <3>1. IsContent(UpdateTitle(work, id, text))
      BY <2>11, UpdateTitleType DEF TypeOK, DbUpdateItemTitle, Items
    <3> QED
      BY <2>11, <3>1, StatementDoneType DEF DbUpdateItemTitle, RowsChanged
  <2>12. ASSUME NEW title \in Texts, NEW notes \in Texts,
                DbUpdateFileDetails(title, notes)
         PROVE  TypeOK'
    <3>1. IsContent(UpdateFileDetails(work, title, notes))
      BY <2>12, UpdateFileDetailsType DEF TypeOK, DbUpdateFileDetails
    <3> QED
      BY <2>12, <3>1, StatementDoneType DEF DbUpdateFileDetails, RowsChanged
  <2>13. ASSUME NEW id \in RecordIds, NEW readonly \in BOOLEAN,
                DbSetReadOnlyItem(id, readonly)
         PROVE  TypeOK'
    <3>1. IsContent(SetReadOnly(work, id, readonly))
      BY <2>13, SetReadOnlyType DEF TypeOK, DbSetReadOnlyItem, Items
    <3> QED
      BY <2>13, <3>1, StatementDoneType DEF DbSetReadOnlyItem
  <2>14. ASSUME NEW id \in RecordIds, DbRemoveItem(id) PROVE TypeOK'
    <3>1. IsContent(RemoveItem(work, id)) /\ Cardinality(Subtree(work, id)) \in Nat
      BY <2>14, RemoveItemType, SubtreeCounted DEF TypeOK, DbRemoveItem, Items
    <3> QED
      BY <2>14, <3>1, StatementDoneType DEF DbRemoveItem
  <2>15. CASE StatementFails
    BY <2>15 DEF TypeOK, StatementFails, RollBack, OnFileChanged, file, Call, Ops
  <2>16. ASSUME NEW next \in {"ready", "rekeying"}, DbSave(next) PROVE TypeOK'
    BY <2>16 DEF TypeOK, DbSave, Commit, SetSavedState, ReacquireIgnored, context,
                 file, Phases, Call, Ops
  <2>17. CASE DbSaveFails
    BY <2>17 DEF TypeOK, DbSaveFails, RollBack, context, file, Call, Ops
  <2>18. CASE PropertiesUnmodified
    BY <2>18 DEF TypeOK, PropertiesUnmodified, context, file, Phases
  <2>19. ASSUME NEW p \in Passwords, DbRekey(p) PROVE TypeOK'
    BY <2>19 DEF TypeOK, DbRekey, context, Phases, Call, Ops
  <2>20. CASE DbRekeyFails
    BY <2>20 DEF TypeOK, DbRekeyFails, context, file, Phases, Call, Ops
  <2>21. CASE DbCloseSave
    BY <2>21 DEF TypeOK, DbCloseSave, Commit, HandleClosed, FreshContext, file,
                 Phases, Call, Ops
  <2>22. CASE DbClose
    BY <2>22 DEF TypeOK, DbClose, HandleClosed, FreshContext, file, Phases, Call, Ops
  <2>23. CASE Crash
    BY <2>23 DEF TypeOK, Crash, HandleClosed, FreshContext, file, Phases, Call, Ops
  <2>24. CASE UNCHANGED vars
    BY <2>24 DEF TypeOK, vars
  <2> QED
    BY <2>1, <2>2, <2>3, <2>4, <2>5, <2>6, <2>7, <2>8, <2>9, <2>10, <2>11, <2>12,
       <2>13, <2>14, <2>15, <2>16, <2>17, <2>18, <2>19, <2>20, <2>21, <2>22, <2>23,
       <2>24
       DEF Next, Open, Edit, SaveOrClose
<1> QED
  BY <1>1, <1>2, PTL DEF Spec

-----------------------------------------------------------------------------
(* Durability: what is not marked dirty is on disk, and a DbSave that       *)
(* answers TRUE has written everything.                                     *)

Durable == PendingOnlyInTransaction /\ CleanMeansSaved /\ SaveMeansDurable

\* A statement either counts a row, which makes the file dirty, or leaves the
\* content alone.
LEMMA StatementDoneDurable ==
    ASSUME TypeOK, Durable, Editable,
           NEW new, NEW n \in Nat, n = 0 => new = work, StatementDone(new, n)
    PROVE  Durable'
<1> USE DEF Editable, StatementDone, DbIsInTransaction
<1>1. n > 0 => DbIsDirty'
  <2>1. lastSavedTotalChanges \in Nat /\ totalChanges \in Nat
    BY DEF TypeOK
  <2>2. lastSavedTotalChanges <= totalChanges
    BY DEF Durable, PendingOnlyInTransaction
  <2> QED
    BY <2>1, <2>2 DEF DbIsDirty
<1>2. n = 0 => work' = work /\ DbIsDirty' = DbIsDirty
  BY DEF DbIsDirty, TypeOK
<1>3. PendingOnlyInTransaction'
  BY DEF Durable, PendingOnlyInTransaction, TypeOK
<1>4. CleanMeansSaved'
  <2>1. CASE n = 0
    BY <1>2, <2>1 DEF Durable, CleanMeansSaved
  <2>2. CASE n > 0
    BY <1>1, <2>2 DEF CleanMeansSaved
  <2> QED
    BY <2>1, <2>2
<1>5. SaveMeansDurable'
  BY DEF SaveMeansDurable, Call
<1> QED
  BY <1>3, <1>4, <1>5 DEF Durable

\* Closing, in any way, leaves no connection and nothing pending.
LEMMA HandleClosedDurable ==
    ASSUME HandleClosed, lastCall'.op # "DbSave"
    PROVE  Durable'
BY DEF HandleClosed, FreshContext, Durable, PendingOnlyInTransaction, CleanMeansSaved,
       SaveMeansDurable, Call

\* No Db* function, failure of SQLite or crash breaks Durable: the dirty
\* test, the pending changes and the answer of DbSave stay consistent.
THEOREM DurableInductive == TypeOK /\ Durable /\ [Next]_vars => Durable'
<1> SUFFICES ASSUME TypeOK, Durable, [Next]_vars PROVE Durable'
  OBVIOUS
<1> USE DEF Durable
<1>1. ASSUME NEW rw \in BOOLEAN, DbOpen(rw) PROVE Durable'
  BY <1>1 DEF DbOpen, FreshContext, file, PendingOnlyInTransaction, CleanMeansSaved,
              SaveMeansDurable, Call
<1>2. ASSUME NEW p \in Passwords, DbKey(p) PROVE Durable'
  BY <1>2 DEF DbKey, context, file, PendingOnlyInTransaction, CleanMeansSaved,
              SaveMeansDurable, Call, DbIsInTransaction
<1>3. CASE ValidateFails
  <2>1. lastCall'.op # "DbSave"
    BY <1>3 DEF ValidateFails, Call
  <2> QED
    BY <1>3, <2>1 DEF ValidateFails, context, file, PendingOnlyInTransaction,
                CleanMeansSaved, SaveMeansDurable, Call, DbIsInTransaction
<1>4. CASE DbAcquireExclusiveAccess
  BY <1>4 DEF DbAcquireExclusiveAccess, context, file, PendingOnlyInTransaction,
              CleanMeansSaved, SaveMeansDurable, Call, DbIsInTransaction
<1>5. CASE LoadRootNodes
  BY <1>5 DEF LoadRootNodes, context, file, PendingOnlyInTransaction,
              CleanMeansSaved, SaveMeansDurable, Call, DbIsInTransaction
<1>6. CASE RejectVersion
  BY <1>6 DEF RejectVersion, context, file, PendingOnlyInTransaction,
              CleanMeansSaved, SaveMeansDurable, Call, DbIsInTransaction
<1>7. CASE DbUpgradeSchema
  <2>1. PendingOnlyInTransaction'
    BY <1>7 DEF DbUpgradeSchema, PendingOnlyInTransaction, DbIsInTransaction, TypeOK
  <2>2. CleanMeansSaved' /\ SaveMeansDurable'
    BY <1>7 DEF DbUpgradeSchema, CleanMeansSaved, SaveMeansDurable, DbIsDirty, Call
  <2> QED
    BY <2>1, <2>2
<1>8. CASE DbUpgradeSchemaFails
  <2>1. PendingOnlyInTransaction'
    BY <1>8 DEF DbUpgradeSchemaFails, PendingOnlyInTransaction, DbIsInTransaction,
                TypeOK, context, file
  <2>2. CleanMeansSaved' /\ SaveMeansDurable'
    BY <1>8 DEF DbUpgradeSchemaFails, CleanMeansSaved, SaveMeansDurable, Call
  <2> QED
    BY <2>1, <2>2
<1>9. ASSUME NEW id \in RecordIds, DbAddNewItem(id) PROVE Durable'
  BY <1>9, StatementDoneDurable DEF DbAddNewItem
<1>10. ASSUME NEW id \in RecordIds, NEW text \in Texts, DbUpdateItemNotes(id, text)
       PROVE  Durable'
  BY <1>10, StatementDoneDurable DEF DbUpdateItemNotes, RowsChanged
<1>11. ASSUME NEW id \in RecordIds, NEW text \in Texts, DbUpdateItemTitle(id, text)
       PROVE  Durable'
  BY <1>11, StatementDoneDurable DEF DbUpdateItemTitle, RowsChanged
<1>12. ASSUME NEW title \in Texts, NEW notes \in Texts, DbUpdateFileDetails(title, notes)
       PROVE  Durable'
  BY <1>12, StatementDoneDurable DEF DbUpdateFileDetails, RowsChanged
<1>13. ASSUME NEW id \in RecordIds, NEW readonly \in BOOLEAN,
              DbSetReadOnlyItem(id, readonly)
       PROVE  Durable'
  BY <1>13, StatementDoneDurable DEF DbSetReadOnlyItem
<1>14. ASSUME NEW id \in RecordIds, DbRemoveItem(id) PROVE Durable'
  <2>1. Cardinality(Subtree(work, id)) \in Nat \ {0}
    BY <1>14, SubtreeCounted DEF DbRemoveItem, Items, TypeOK
  <2> QED
    BY <1>14, <2>1, StatementDoneDurable DEF DbRemoveItem
<1>15. CASE StatementFails
  <2>1. \/ UNCHANGED <<inTx, work>>
        \/ inTx' = FALSE /\ work' = disk
    BY <1>15 DEF StatementFails, RollBack
  <2>2. UNCHANGED <<phase, readWrite, totalChanges, isDirty, lastSavedTotalChanges, disk>>
    BY <1>15 DEF StatementFails, file
  <2>3. PendingOnlyInTransaction' /\ CleanMeansSaved'
    BY <2>1, <2>2, <1>15 DEF PendingOnlyInTransaction, CleanMeansSaved, DbIsInTransaction, DbIsDirty,
                       StatementFails, Editable
  <2>4. SaveMeansDurable'
    BY <1>15 DEF StatementFails, SaveMeansDurable, Call
  <2> QED
    BY <2>3, <2>4
<1>16. ASSUME NEW next \in {"ready", "rekeying"}, DbSave(next) PROVE Durable'
  <2>1. disk' = work'
    BY <1>16 DEF DbSave, Commit, file, Editable, DbIsInTransaction,
                 PendingOnlyInTransaction, CleanMeansSaved
  <2>2. lastSavedTotalChanges' <= totalChanges'
    BY <1>16 DEF DbSave, SetSavedState, context, TypeOK, PendingOnlyInTransaction
  <2> QED
    BY <1>16, <2>1, <2>2 DEF DbSave, PendingOnlyInTransaction, CleanMeansSaved,
                             SaveMeansDurable
<1>17. CASE DbSaveFails
  <2>1. \/ UNCHANGED <<inTx, work>>
        \/ inTx' = FALSE /\ work' = disk
    BY <1>17 DEF DbSaveFails, RollBack
  <2>2. UNCHANGED <<phase, readWrite, totalChanges, isDirty, lastSavedTotalChanges, disk>>
    BY <1>17 DEF DbSaveFails, context, file
  <2>3. PendingOnlyInTransaction' /\ CleanMeansSaved'
    BY <2>1, <2>2, <1>17 DEF PendingOnlyInTransaction, CleanMeansSaved, DbIsInTransaction, DbIsDirty,
                       DbSaveFails, Editable
  <2>4. SaveMeansDurable'
    BY <1>17 DEF DbSaveFails, SaveMeansDurable, Call
  <2> QED
    BY <2>3, <2>4
<1>18. CASE PropertiesUnmodified
  BY <1>18 DEF PropertiesUnmodified, context, file, PendingOnlyInTransaction, Editable,
               CleanMeansSaved, SaveMeansDurable, Call, DbIsInTransaction, DbIsDirty
<1>19. ASSUME NEW p \in Passwords, DbRekey(p) PROVE Durable'
  BY <1>19 DEF DbRekey, context, PendingOnlyInTransaction, CleanMeansSaved,
               SaveMeansDurable, Call
<1>20. CASE DbRekeyFails
  BY <1>20 DEF DbRekeyFails, context, file, PendingOnlyInTransaction,
               CleanMeansSaved, SaveMeansDurable, Call, DbIsInTransaction, DbIsDirty
<1>21. CASE DbCloseSave
  BY <1>21, HandleClosedDurable DEF DbCloseSave, Call
<1>22. CASE DbClose
  BY <1>22, HandleClosedDurable DEF DbClose, Call
<1>23. CASE Crash
  BY <1>23, HandleClosedDurable DEF Crash, Call
<1>24. CASE UNCHANGED vars
  BY <1>24 DEF vars, PendingOnlyInTransaction, CleanMeansSaved, SaveMeansDurable,
               DbIsInTransaction, DbIsDirty
<1> QED
  BY <1>1, <1>2, <1>3, <1>4, <1>5, <1>6, <1>7, <1>8, <1>9, <1>10, <1>11, <1>12,
     <1>13, <1>14, <1>15, <1>16, <1>17, <1>18, <1>19, <1>20, <1>21, <1>22, <1>23, <1>24
     DEF Next, Open, Edit, SaveOrClose

\* Nothing is pending outside a transaction, and a file that is not dirty is
\* saved, in every reachable state and under every failure.
THEOREM DurabilityCorrect == Spec => []Durable
<1>1. Init => Durable
  BY DEF Init, Durable, PendingOnlyInTransaction, CleanMeansSaved, SaveMeansDurable, Call
<1> QED
  BY <1>1, TypeCorrect, DurableInductive, PTL DEF Spec

\* AppCloseFile asks nothing about a file that is not dirty: rightly so.
THEOREM CleanCorrect == Spec => []CleanMeansSaved
BY DurabilityCorrect, PTL DEF Durable

\* What is not committed is inside a transaction, so that No gives it up.
THEOREM PendingCorrect == Spec => []PendingOnlyInTransaction
BY DurabilityCorrect, PTL DEF Durable

\* DbSave answers TRUE only when everything is on disk.
THEOREM SaveCorrect == Spec => []SaveMeansDurable
BY DurabilityCorrect, PTL DEF Durable

-----------------------------------------------------------------------------
(* Integrity: the parent relation stays a tree. *)

\* A statement that keeps the tree of the working content keeps it on disk too.
LEMMA StatementDoneIntegrity ==
    ASSUME Integrity, NEW new, NEW n, IntegrityOK(new), StatementDone(new, n)
    PROVE  Integrity'
BY DEF Integrity, StatementDone

\* No step breaks the record tree of the working or the stored content.
THEOREM IntegrityInductive == TypeOK /\ Integrity /\ [Next]_vars => Integrity'
<1> SUFFICES ASSUME TypeOK, Integrity, [Next]_vars PROVE Integrity'
  OBVIOUS
<1>1. IsContent(work) /\ IntegrityOK(work)
  BY DEF TypeOK, Integrity
<1>2. ASSUME Open PROVE Integrity'
  <2>1. CASE DbUpgradeSchema
    BY <2>1, CreateSchemaIntegrity DEF DbUpgradeSchema, Integrity, file
  <2>2. CASE DbUpgradeSchemaFails
    BY <2>2, CreateSchemaIntegrity DEF DbUpgradeSchemaFails, Integrity, file
  <2>3. CASE UNCHANGED <<work, file>>
    BY <2>3 DEF Integrity, file
  <2> QED
    BY <1>2, <2>1, <2>2, <2>3
       DEF Open, DbOpen, DbKey, ValidateFails, DbAcquireExclusiveAccess,
           LoadRootNodes, RejectVersion, file
<1>3. ASSUME Edit PROVE Integrity'
  <2>1. ASSUME NEW id \in RecordIds, DbAddNewItem(id) PROVE Integrity'
    BY <1>1, <2>1, InsertItemIntegrity, StatementDoneIntegrity DEF DbAddNewItem
  <2>2. ASSUME NEW id \in RecordIds, NEW text \in Texts, DbUpdateItemNotes(id, text)
        PROVE  Integrity'
    BY <1>1, <2>2, UpdateNotesIntegrity, StatementDoneIntegrity DEF DbUpdateItemNotes
  <2>3. ASSUME NEW id \in RecordIds, NEW text \in Texts, DbUpdateItemTitle(id, text)
        PROVE  Integrity'
    BY <1>1, <2>3, UpdateTitleIntegrity, StatementDoneIntegrity
       DEF DbUpdateItemTitle, Items
  <2>4. ASSUME NEW title \in Texts, NEW notes \in Texts, DbUpdateFileDetails(title, notes)
        PROVE  Integrity'
    BY <1>1, <2>4, UpdateFileDetailsIntegrity, StatementDoneIntegrity
       DEF DbUpdateFileDetails
  <2>5. ASSUME NEW id \in RecordIds, NEW readonly \in BOOLEAN,
               DbSetReadOnlyItem(id, readonly)
        PROVE  Integrity'
    BY <1>1, <2>5, SetReadOnlyIntegrity, StatementDoneIntegrity
       DEF DbSetReadOnlyItem, Items
  <2>6. ASSUME NEW id \in RecordIds, DbRemoveItem(id) PROVE Integrity'
    BY <1>1, <2>6, RemoveItemIntegrity, StatementDoneIntegrity DEF DbRemoveItem
  <2>7. CASE StatementFails
    BY <2>7 DEF StatementFails, RollBack, file, Integrity
  <2> QED
    BY <1>3, <2>1, <2>2, <2>3, <2>4, <2>5, <2>6, <2>7 DEF Edit
<1>4. ASSUME SaveOrClose PROVE Integrity'
  <2>1. work' \in {work, disk, disk'} /\ disk' \in {work, disk}
    BY <1>4 DEF SaveOrClose, DbSave, DbSaveFails, PropertiesUnmodified, DbRekey,
                DbRekeyFails, DbCloseSave, DbClose, Crash, Commit, RollBack,
                HandleClosed, file
  <2> QED
    BY <2>1 DEF Integrity
<1>5. CASE UNCHANGED vars
  BY <1>5 DEF vars, Integrity
<1> QED
  BY <1>2, <1>3, <1>4, <1>5 DEF Next

\* The record tree is a tree in every reachable state, on disk and in memory.
THEOREM IntegrityCorrect == Spec => []Integrity
<1>1. Init => Integrity
  <2> SUFFICES ASSUME Init PROVE Integrity
    OBVIOUS
  <2>1. \A c \in InitialContents : IntegrityOK(c)
    <3>1. IntegrityOK(EmptyContent)
      BY DEF IntegrityOK, EmptyContent, DbSchemaVersion
    <3>2. IntegrityOK([CreateSchema EXCEPT !.schema = 2])
      BY DEF IntegrityOK, CreateSchema, DbSchemaVersion
    <3>3. IntegrityOK(InsertItem(CreateSchema, FileRecord, NewItemTitle))
      <4>1. FileRecord \in Ids(CreateSchema) \ {RootRecord}
        BY DEF CreateSchema, Ids, FileRecord, RootRecord
      <4> QED
        BY <4>1, CreateSchemaType, CreateSchemaIntegrity, InsertItemIntegrity
    <3> QED
      BY <3>1, <3>2, <3>3, CreateSchemaIntegrity DEF InitialContents
  <2> QED
    BY <2>1 DEF Init, Integrity
<1> QED
  BY <1>1, TypeCorrect, IntegrityInductive, PTL DEF Spec

-----------------------------------------------------------------------------
(* The status bar.  One callback is sent for the first change since the last *)
(* save, so lastState has to remember what DbIsDirty says.                   *)

\* Until the file is ready nothing has changed; from then on lastState is
\* "dirty" exactly while the file is; the status bar follows lastState.
StatusInv ==
    /\ (status = "changed" <=> lastState = "dirty")
    /\ (phase \in {"none", "opened", "keyed", "locked"}
          => lastState = "none" /\ ~DbIsDirty)
    /\ (phase \in {"ready", "rekeying"} => (lastState = "dirty" <=> DbIsDirty))

\* A statement, whatever it changed, leaves a file dirty that was dirty.
LEMMA StatementStatus ==
    ASSUME TypeOK, Durable, StatusInv, Editable, NEW n \in Nat,
           totalChanges' = totalChanges + n, OnFileChanged,
           UNCHANGED <<phase, isDirty, lastSavedTotalChanges>>
    PROVE  StatusInv'
<1>1. DbIsDirty => DbIsDirty'
  <2>1. lastSavedTotalChanges <= totalChanges
    BY DEF Durable, PendingOnlyInTransaction
  <2> QED
    BY <2>1 DEF TypeOK, DbIsDirty
<1> QED
  BY <1>1 DEF StatusInv, OnFileChanged, DbIsDirty, Editable, TypeOK

\* No call leaves the status bar with what the flag no longer says.
THEOREM StatusInductive == TypeOK /\ Durable /\ StatusInv /\ [Next]_vars => StatusInv'
<1> SUFFICES ASSUME TypeOK, Durable, StatusInv, [Next]_vars PROVE StatusInv'
  OBVIOUS
<1>1. ASSUME Open PROVE StatusInv'
  <2>1. ASSUME NEW rw \in BOOLEAN, DbOpen(rw) PROVE StatusInv'
    BY <2>1 DEF DbOpen, FreshContext, StatusInv, DbIsDirty
  <2>2. ASSUME NEW p \in Passwords, DbKey(p) PROVE StatusInv'
    BY <2>2 DEF DbKey, context, StatusInv, DbIsDirty
  <2>3. CASE ValidateFails
    BY <2>3 DEF ValidateFails, context, StatusInv, DbIsDirty
  <2>4. CASE DbAcquireExclusiveAccess
    BY <2>4 DEF DbAcquireExclusiveAccess, context, StatusInv, DbIsDirty
  <2>5. CASE LoadRootNodes \/ RejectVersion
    BY <2>5 DEF LoadRootNodes, RejectVersion, context, StatusInv, DbIsDirty
  <2>6. CASE DbUpgradeSchema
    BY <2>6 DEF DbUpgradeSchema, OnFileChanged, StatusInv, DbIsDirty
  <2>7. CASE DbUpgradeSchemaFails
    BY <2>7 DEF DbUpgradeSchemaFails, context, StatusInv
  <2> QED
    BY <1>1, <2>1, <2>2, <2>3, <2>4, <2>5, <2>6, <2>7 DEF Open
<1>2. ASSUME Edit PROVE StatusInv'
  <2>1. CASE StatementFails
    <3>1. totalChanges' = totalChanges + 0
      BY <2>1 DEF StatementFails, TypeOK
    <3> QED
      BY <2>1, <3>1, StatementStatus DEF StatementFails
  <2>2. ASSUME NEW new, NEW n \in Nat, Editable, StatementDone(new, n) PROVE StatusInv'
    BY <2>2, StatementStatus DEF StatementDone
  <2>3. ASSUME NEW id \in RecordIds, DbRemoveItem(id) PROVE StatusInv'
    <3>1. Cardinality(Subtree(work, id)) \in Nat
      BY <2>3, SubtreeCounted DEF DbRemoveItem, Items, TypeOK
    <3> QED
      BY <2>2, <2>3, <3>1 DEF DbRemoveItem
  <2> QED
    BY <1>2, <2>1, <2>2, <2>3
       DEF Edit, DbAddNewItem, DbUpdateItemNotes, DbUpdateItemTitle,
           DbUpdateFileDetails, DbSetReadOnlyItem, RowsChanged
<1>3. ASSUME SaveOrClose PROVE StatusInv'
  <2>1. ASSUME NEW next \in {"ready", "rekeying"}, DbSave(next) PROVE StatusInv'
    BY <2>1 DEF DbSave, SetSavedState, Editable, context, StatusInv, DbIsDirty
  <2>2. CASE DbSaveFails
    BY <2>2 DEF DbSaveFails, context, StatusInv, DbIsDirty
  <2>3. CASE PropertiesUnmodified
    BY <2>3 DEF PropertiesUnmodified, Editable, context, StatusInv, DbIsDirty
  <2>4. ASSUME NEW p \in Passwords, DbRekey(p) PROVE StatusInv'
    BY <2>4 DEF DbRekey, context, StatusInv, DbIsDirty
  <2>5. CASE DbRekeyFails
    BY <2>5 DEF DbRekeyFails, context, StatusInv, DbIsDirty
  <2>6. CASE DbCloseSave \/ DbClose \/ Crash
    BY <2>6 DEF DbCloseSave, DbClose, Crash, HandleClosed, FreshContext, StatusInv, DbIsDirty
  <2> QED
    BY <1>3, <2>1, <2>2, <2>3, <2>4, <2>5, <2>6 DEF SaveOrClose
<1>4. CASE UNCHANGED vars
  BY <1>4 DEF vars, StatusInv, DbIsDirty
<1> QED
  BY <1>1, <1>2, <1>3, <1>4 DEF Next

\* The user reads in the status bar whether there is something to save.
THEOREM StatusCorrect == Spec => []StatusShowsDirty
<1>1. Init => StatusInv
  BY DEF Init, StatusInv, DbIsDirty
<1>2. StatusInv => StatusShowsDirty
  BY DEF StatusInv, StatusShowsDirty
<1> QED
  BY <1>1, <1>2, TypeCorrect, DurabilityCorrect, StatusInductive, PTL DEF Spec

-----------------------------------------------------------------------------
(* The key.  An empty file opens with any password, and gets the one of the  *)
(* session with the first thing that is written.                             *)

\* A content without a schema has no records.
NoSchemaNoRecords == \A c \in {work, disk} : c.schema = 0 => Ids(c) = {}

\* A file that has its schema does not lose it.
SchemaStays == disk.schema # 0 => work.schema # 0

KeyInv == SessionKeyOpensFile /\ NoSchemaNoRecords /\ SchemaStays

\* A statement needs a record, so what it commits by itself, outside a
\* transaction, goes into a file that has its key already.
LEMMA StatementKey ==
    ASSUME Durable, KeyInv, Editable, Ids(work) # {},
           NEW new, new.schema = work.schema, NEW n, StatementDone(new, n)
    PROVE  KeyInv'
<1>1. work.schema # 0 /\ new.schema # 0
  BY DEF KeyInv, NoSchemaNoRecords
<1>2. inTx \/ disk.schema # 0
  BY <1>1 DEF Durable, PendingOnlyInTransaction, DbIsInTransaction
<1>3. SessionKeyOpensFile'
  BY <1>2 DEF KeyInv, SessionKeyOpensFile, KeyReadsFile, StatementDone, Editable,
              DbIsInTransaction
<1>4. NoSchemaNoRecords'
  BY <1>1 DEF KeyInv, NoSchemaNoRecords, StatementDone
<1>5. SchemaStays'
  BY <1>1 DEF SchemaStays, StatementDone
<1> QED
  BY <1>3, <1>4, <1>5 DEF KeyInv

\* A statement leaves the schema alone.
LEMMA SchemaKept ==
    ASSUME NEW c, IsContent(c), NEW table
    PROVE  [c EXCEPT !.table = table].schema = c.schema
BY DEF IsContent

\* Closing keeps a content that was there before.
LEMMA HandleClosedKey ==
    ASSUME KeyInv, HandleClosed, disk' \in {work, disk}
    PROVE  KeyInv'
BY DEF KeyInv, SessionKeyOpensFile, NoSchemaNoRecords, SchemaStays, HandleClosed

\* No call leaves file and connection with keys that differ.
THEOREM KeyInductive == TypeOK /\ Durable /\ KeyInv /\ [Next]_vars => KeyInv'
<1> SUFFICES ASSUME TypeOK, Durable, KeyInv, [Next]_vars PROVE KeyInv'
  OBVIOUS
<1>1. ASSUME Open PROVE KeyInv'
  <2> USE DEF KeyInv, SessionKeyOpensFile, KeyReadsFile, NoSchemaNoRecords, SchemaStays, file
  <2>1. ASSUME NEW rw \in BOOLEAN, DbOpen(rw) PROVE KeyInv'
    BY <2>1 DEF DbOpen
  <2>2. ASSUME NEW p \in Passwords, DbKey(p) PROVE KeyInv'
    BY <2>2 DEF DbKey
  <2>3. CASE ValidateFails
    BY <2>3 DEF ValidateFails
  <2>4. CASE DbAcquireExclusiveAccess
    BY <2>4 DEF DbAcquireExclusiveAccess
  <2>5. CASE LoadRootNodes \/ RejectVersion
    BY <2>5 DEF LoadRootNodes, RejectVersion
  <2>6. CASE DbUpgradeSchema
    BY <2>6 DEF DbUpgradeSchema, CreateSchema, DbSchemaVersion
  <2>7. CASE DbUpgradeSchemaFails
    <3>1. work' \in {work, CreateSchema} /\ UNCHANGED <<disk, diskKey>> /\ phase' = "failed"
      BY <2>7 DEF DbUpgradeSchemaFails
    <3> QED
      BY <3>1 DEF CreateSchema, DbSchemaVersion
  <2> QED
    BY <1>1, <2>1, <2>2, <2>3, <2>4, <2>5, <2>6, <2>7 DEF Open
<1>2. ASSUME Edit PROVE KeyInv'
  <2>1. CASE StatementFails
    BY <2>1 DEF StatementFails, RollBack, KeyInv, SessionKeyOpensFile, KeyReadsFile,
                NoSchemaNoRecords, SchemaStays, file
  <2>2. ASSUME NEW id \in RecordIds, DbAddNewItem(id) PROVE KeyInv'
    BY <2>2, StatementKey DEF DbAddNewItem, InsertItem
  <2>3. ASSUME NEW id \in RecordIds, NEW text \in Texts, DbUpdateItemNotes(id, text)
        PROVE  KeyInv'
    <3>1. UpdateNotes(work, id, text).schema = work.schema
      BY SchemaKept DEF TypeOK, UpdateNotes
    <3>2. Editable /\ Ids(work) # {}
      BY <2>3 DEF DbUpdateItemNotes
    <3> QED
      BY <2>3, <3>1, <3>2, StatementKey DEF DbUpdateItemNotes
  <2>4. ASSUME NEW id \in RecordIds, NEW text \in Texts, DbUpdateItemTitle(id, text)
        PROVE  KeyInv'
    <3>1. UpdateTitle(work, id, text).schema = work.schema
      BY SchemaKept DEF TypeOK, UpdateTitle
    <3>2. Editable /\ Ids(work) # {}
      BY <2>4 DEF DbUpdateItemTitle, Items
    <3> QED
      BY <2>4, <3>1, <3>2, StatementKey DEF DbUpdateItemTitle
  <2>5. ASSUME NEW title \in Texts, NEW notes \in Texts, DbUpdateFileDetails(title, notes)
        PROVE  KeyInv'
    <3>1. Editable /\ FileRecord \in Ids(work)
      BY <2>5 DEF DbUpdateFileDetails
    <3>2. /\ IsContent(UpdateTitle(work, FileRecord, title))
          /\ UpdateTitle(work, FileRecord, title).schema = work.schema
      BY <3>1, UpdateTitleType, SchemaKept DEF TypeOK, UpdateTitle
    <3>3. UpdateFileDetails(work, title, notes).schema = work.schema
      BY <3>2, SchemaKept DEF UpdateFileDetails, UpdateNotes
    <3> QED
      BY <2>5, <3>1, <3>3, StatementKey DEF DbUpdateFileDetails
  <2>6. ASSUME NEW id \in RecordIds, NEW readonly \in BOOLEAN, DbSetReadOnlyItem(id, readonly)
        PROVE  KeyInv'
    <3>1. SetReadOnly(work, id, readonly).schema = work.schema
      BY SchemaKept DEF TypeOK, SetReadOnly
    <3>2. Editable /\ Ids(work) # {}
      BY <2>6 DEF DbSetReadOnlyItem, Items
    <3> QED
      BY <2>6, <3>1, <3>2, StatementKey DEF DbSetReadOnlyItem
  <2>7. ASSUME NEW id \in RecordIds, DbRemoveItem(id) PROVE KeyInv'
    <3>1. RemoveItem(work, id).schema = work.schema
      BY SchemaKept DEF TypeOK, RemoveItem
    <3>2. Editable /\ Ids(work) # {}
      BY <2>7 DEF DbRemoveItem, Items
    <3> QED
      BY <2>7, <3>1, <3>2, StatementKey DEF DbRemoveItem
  <2> QED
    BY <1>2, <2>1, <2>2, <2>3, <2>4, <2>5, <2>6, <2>7 DEF Edit
<1>3. ASSUME SaveOrClose PROVE KeyInv'
  <2> USE DEF KeyInv, SessionKeyOpensFile, KeyReadsFile, NoSchemaNoRecords, SchemaStays, file
  <2>1. ASSUME NEW next \in {"ready", "rekeying"}, DbSave(next) PROVE KeyInv'
    BY <2>1 DEF DbSave, Commit, Editable
  <2>2. CASE DbSaveFails
    BY <2>2 DEF DbSaveFails, RollBack
  <2>3. CASE PropertiesUnmodified
    BY <2>3 DEF PropertiesUnmodified, Editable
  <2>4. ASSUME NEW p \in Passwords, DbRekey(p) PROVE KeyInv'
    BY <2>4 DEF DbRekey
  <2>5. CASE DbRekeyFails
    BY <2>5 DEF DbRekeyFails
  <2>6. CASE DbCloseSave \/ DbClose \/ Crash
    <3>1. disk' \in {work, disk} /\ HandleClosed
      BY <2>6 DEF DbCloseSave, DbClose, Crash, Commit
    <3> QED
      BY <3>1, HandleClosedKey
  <2> QED
    BY <1>3, <2>1, <2>2, <2>3, <2>4, <2>5, <2>6 DEF SaveOrClose
<1>4. CASE UNCHANGED vars
  BY <1>4 DEF vars, KeyInv, SessionKeyOpensFile, KeyReadsFile, NoSchemaNoRecords, SchemaStays
<1> QED
  BY <1>1, <1>2, <1>3, <1>4 DEF Next

\* File and connection have one key, in every reachable state.
THEOREM KeyInvCorrect == Spec => []KeyInv
<1>1. Init => KeyInv
  <2> SUFFICES ASSUME Init PROVE KeyInv
    OBVIOUS
  <2>1. \A c \in InitialContents : c.schema = 0 => Ids(c) = {}
    BY DEF InitialContents, EmptyContent, CreateSchema, InsertItem, DbSchemaVersion, Ids
  <2> QED
    BY <2>1 DEF Init, KeyInv, SessionKeyOpensFile, NoSchemaNoRecords, SchemaStays
<1> QED
  BY <1>1, TypeCorrect, DurabilityCorrect, KeyInductive, PTL DEF Spec

\* The password that was typed opens what the session wrote, also a new file
\* and one whose password was changed.
THEOREM SessionKeyCorrect == Spec => []SessionKeyOpensFile
<1>1. KeyInv => SessionKeyOpensFile
  BY DEF KeyInv
<1> QED
  BY <1>1, KeyInvCorrect, PTL

-----------------------------------------------------------------------------
(* DataStore implements Document, whatever SQLite does. *)

\* sqlite3_rekey commits: there must be nothing the user did not save.
NothingPendingAtRekey == phase = "rekeying" => work = disk

\* FilePropertiesMsg comes to DbRekey after a successful DbSave, or when
\* nothing was modified.
THEOREM RekeyInductive ==
    TypeOK /\ Durable /\ NothingPendingAtRekey /\ [Next]_vars => NothingPendingAtRekey'
<1> SUFFICES ASSUME TypeOK, Durable, NothingPendingAtRekey, [Next]_vars
             PROVE  NothingPendingAtRekey'
  OBVIOUS
<1> USE DEF NothingPendingAtRekey
<1>1. ASSUME Open PROVE NothingPendingAtRekey'
  BY <1>1 DEF Open, DbOpen, DbKey, ValidateFails, DbAcquireExclusiveAccess, LoadRootNodes,
              RejectVersion, DbUpgradeSchema, DbUpgradeSchemaFails
<1>2. ASSUME Edit PROVE NothingPendingAtRekey'
  <2>1. CASE StatementFails
    BY <2>1 DEF StatementFails, Editable
  <2>2. ASSUME NEW new, NEW n, Editable, StatementDone(new, n)
        PROVE  NothingPendingAtRekey'
    BY <2>2 DEF StatementDone, Editable
  <2> QED
    BY <1>2, <2>1, <2>2
       DEF Edit, DbAddNewItem, DbUpdateItemNotes, DbUpdateItemTitle,
           DbUpdateFileDetails, DbSetReadOnlyItem, DbRemoveItem
<1>3. ASSUME NEW next \in {"ready", "rekeying"}, DbSave(next) PROVE NothingPendingAtRekey'
  <2>1. Durable'
    BY <1>3, DurableInductive DEF Next, SaveOrClose
  <2> QED
    BY <1>3, <2>1 DEF Durable, SaveMeansDurable, DbSave
<1>4. CASE PropertiesUnmodified
  BY <1>4 DEF PropertiesUnmodified, Editable, Durable, CleanMeansSaved, file
<1>5. CASE DbSaveFails
  BY <1>5 DEF DbSaveFails, Editable
<1>6. ASSUME NEW p \in Passwords, DbRekey(p) PROVE NothingPendingAtRekey'
  BY <1>6 DEF DbRekey
<1>7. CASE DbRekeyFails
  BY <1>7 DEF DbRekeyFails
<1>8. CASE DbCloseSave \/ DbClose \/ Crash
  BY <1>8 DEF DbCloseSave, DbClose, Crash, HandleClosed
<1>9. CASE UNCHANGED vars
  BY <1>9 DEF vars
<1> QED
  BY <1>1, <1>2, <1>3, <1>4, <1>5, <1>6, <1>7, <1>8, <1>9 DEF Next, SaveOrClose

\* When the password is changed everything is saved, under every failure of
\* the statements and of the save before.
THEOREM NothingPendingCorrect == Spec => []NothingPendingAtRekey
<1>1. Init => NothingPendingAtRekey
  BY DEF Init, NothingPendingAtRekey
<1> QED
  BY <1>1, TypeCorrect, DurabilityCorrect, RekeyInductive, PTL DEF Spec

\* The connection edits the file directly.
Direct == phase \in {"ready", "rekeying"} /\ readWrite /\ ~DbIsInTransaction

\* A statement that ran to its end is an edit of the document.
LEMMA StatementEdits ==
    ASSUME TypeOK, Durable, Edit, ~StatementFails
    PROVE  Doc!Edit
<1> USE DEF DbIsInTransaction
<1>1. ASSUME NEW new, new.schema = work.schema, NEW n, Editable, StatementDone(new, n)
      PROVE  Doc!Edit
  <2>1. phase = "ready" /\ readWrite /\ work' = new /\ diskKey' = diskKey
        /\ phase' = phase /\ readWrite' = readWrite /\ inTx' = inTx
    BY <1>1 DEF StatementDone, Editable
  <2>2. CASE inTx
    <3>1. disk' = disk
      BY <1>1, <2>2 DEF StatementDone
    <3> QED
      BY <2>1, <2>2, <3>1 DEF Doc!Edit
  <2>3. CASE ~inTx
    <3>1. disk' = new /\ work = disk
      BY <1>1, <2>3 DEF StatementDone, Durable, PendingOnlyInTransaction
    <3>2. disk'.schema = disk.schema
      BY <1>1, <3>1
    <3> QED
      BY <2>1, <2>3, <3>1, <3>2 DEF Doc!Edit
  <2> QED
    BY <2>2, <2>3
<1>2. ASSUME NEW id \in RecordIds, DbAddNewItem(id) PROVE Doc!Edit
  BY <1>1, <1>2 DEF DbAddNewItem, InsertItem
<1>3. ASSUME NEW id \in RecordIds, NEW text \in Texts, DbUpdateItemNotes(id, text)
      PROVE  Doc!Edit
  <2>1. UpdateNotes(work, id, text).schema = work.schema
    BY SchemaKept DEF TypeOK, UpdateNotes
  <2> QED
    BY <1>1, <1>3, <2>1 DEF DbUpdateItemNotes
<1>4. ASSUME NEW id \in RecordIds, NEW text \in Texts, DbUpdateItemTitle(id, text)
      PROVE  Doc!Edit
  <2>1. UpdateTitle(work, id, text).schema = work.schema
    BY SchemaKept DEF TypeOK, UpdateTitle
  <2> QED
    BY <1>1, <1>4, <2>1 DEF DbUpdateItemTitle
<1>5. ASSUME NEW title \in Texts, NEW notes \in Texts, DbUpdateFileDetails(title, notes)
      PROVE  Doc!Edit
  <2>1. Editable /\ FileRecord \in Ids(work)
    BY <1>5 DEF DbUpdateFileDetails
  <2>2. /\ IsContent(UpdateTitle(work, FileRecord, title))
        /\ UpdateTitle(work, FileRecord, title).schema = work.schema
    BY <2>1, UpdateTitleType, SchemaKept DEF TypeOK, UpdateTitle
  <2>3. UpdateFileDetails(work, title, notes).schema = work.schema
    BY <2>2, SchemaKept DEF UpdateFileDetails, UpdateNotes
  <2> QED
    BY <1>1, <1>5, <2>3 DEF DbUpdateFileDetails
<1>6. ASSUME NEW id \in RecordIds, NEW readonly \in BOOLEAN, DbSetReadOnlyItem(id, readonly)
      PROVE  Doc!Edit
  <2>1. SetReadOnly(work, id, readonly).schema = work.schema
    BY SchemaKept DEF TypeOK, SetReadOnly
  <2> QED
    BY <1>1, <1>6, <2>1 DEF DbSetReadOnlyItem
<1>7. ASSUME NEW id \in RecordIds, DbRemoveItem(id) PROVE Doc!Edit
  <2>1. RemoveItem(work, id).schema = work.schema
    BY SchemaKept DEF TypeOK, RemoveItem
  <2> QED
    BY <1>1, <1>7, <2>1 DEF DbRemoveItem
<1> QED
  BY <1>2, <1>3, <1>4, <1>5, <1>6, <1>7 DEF Edit

\* Every step of the data store is a step of Document or a stutter.
THEOREM DocumentStep ==
    TypeOK /\ Durable /\ KeyInv /\ NothingPendingAtRekey /\ [Next]_vars
        => [Doc!DocNext]_(Doc!docVars)
<1> SUFFICES ASSUME TypeOK, Durable, KeyInv, NothingPendingAtRekey, [Next]_vars
             PROVE  [Doc!DocNext]_(Doc!docVars)
  OBVIOUS
<1> USE DEF Doc!docVars, Doc!DocNext, DbIsInTransaction
<1>1. ASSUME Open PROVE [Doc!DocNext]_(Doc!docVars)
  <2>1. ASSUME NEW rw \in BOOLEAN, DbOpen(rw) PROVE Doc!OpenDoc
    BY <2>1 DEF DbOpen, file, Doc!OpenDoc, Durable, PendingOnlyInTransaction
  <2>2. CASE DbUpgradeSchema
    <3>1. ~Direct /\ ~Direct'
      BY <2>2 DEF DbUpgradeSchema, Direct, Durable, PendingOnlyInTransaction
    <3> QED
      BY <2>2, <3>1 DEF DbUpgradeSchema, file, Direct, Doc!Edit
  <2>3. CASE DbUpgradeSchemaFails
    BY <2>3 DEF DbUpgradeSchemaFails, file, Doc!Edit
  <2>4. CASE LoadRootNodes
    <3>1. ~Direct /\ ~Direct'
      BY <2>4 DEF LoadRootNodes, Direct, Durable, PendingOnlyInTransaction
    <3> QED
      BY <2>4, <3>1 DEF LoadRootNodes, file, Direct
  <2>5. ASSUME NEW p \in Passwords, DbKey(p) PROVE UNCHANGED Doc!docVars
    BY <2>5 DEF DbKey, file
  <2>6. CASE ValidateFails
    BY <2>6 DEF ValidateFails, file
  <2>7. CASE DbAcquireExclusiveAccess
    BY <2>7 DEF DbAcquireExclusiveAccess, file
  <2>8. CASE RejectVersion
    BY <2>8 DEF RejectVersion, file
  <2> QED
    BY <1>1, <2>1, <2>2, <2>3, <2>4, <2>5, <2>6, <2>7, <2>8 DEF Open
<1>2. ASSUME Edit PROVE [Doc!DocNext]_(Doc!docVars)
  <2>1. CASE StatementFails
    <3>1. CASE UNCHANGED <<inTx, work>>
      BY <2>1, <3>1 DEF StatementFails, file
    <3>2. CASE "stmtRollback" \in Faults /\ RollBack
      BY <2>1, <3>2 DEF StatementFails, Editable, RollBack, file, TransactionFaults,
                        Doc!LoseWork
    <3> QED
      BY <2>1, <3>1, <3>2 DEF StatementFails
  <2>2. CASE ~StatementFails
    BY <1>2, <2>2, StatementEdits
  <2> QED
    BY <2>1, <2>2
<1>3. ASSUME SaveOrClose PROVE [Doc!DocNext]_(Doc!docVars)
  <2>1. ASSUME NEW next \in {"ready", "rekeying"}, DbSave(next) PROVE Doc!Save
    <3>1. Durable'
      BY <2>1, DurableInductive DEF Next, SaveOrClose
    <3>2. disk' = work'
      BY <2>1, <3>1 DEF Durable, SaveMeansDurable, DbSave
    <3>3. "beginFail" \notin Faults => inTx'
      <4>1. CASE ReacquireIgnored
        BY <4>1 DEF ReacquireIgnored
      <4>2. CASE inTx /\ UNCHANGED inTx
        BY <4>2
      <4> QED
        BY <2>1, <4>1, <4>2 DEF DbSave
    <3>4. Faults \cap TransactionFaults = {} => inTx'
      BY <3>3 DEF TransactionFaults
    <3>5. disk.schema # 0 => work.schema # 0 /\ diskKey' = diskKey
      BY <2>1 DEF DbSave, Commit, Editable, file, KeyInv, SchemaStays,
                  SessionKeyOpensFile, KeyReadsFile
    <3>6. Doc!SaveWorking
      BY <2>1, <3>2, <3>5 DEF DbSave, Doc!SaveWorking
    <3> QED
      BY <2>1, <3>4, <3>6 DEF DbSave, Editable, Doc!Save
  <2>2. CASE DbSaveFails
    <3>1. CASE UNCHANGED <<inTx, work>>
      BY <2>2, <3>1 DEF DbSaveFails, file
    <3>2. CASE "commitRollback" \in Faults /\ RollBack
      BY <2>2, <3>2 DEF DbSaveFails, Editable, RollBack, file, TransactionFaults, Doc!LoseWork
    <3> QED
      BY <2>2, <3>1, <3>2 DEF DbSaveFails
  <2>3. CASE PropertiesUnmodified
    BY <2>3 DEF PropertiesUnmodified, Editable, file
  <2>4. ASSUME NEW p \in Passwords, DbRekey(p) PROVE Doc!ChangePassword
    <3>1. work = disk /\ disk' = work /\ work' = work
      BY <2>4 DEF DbRekey, NothingPendingAtRekey
    <3>2. phase = "rekeying" /\ phase' = "ready" /\ readWrite' = readWrite
      BY <2>4 DEF DbRekey
    <3>3. CASE inTx' = inTx
      BY <3>1, <3>2, <3>3 DEF Doc!ChangePassword
    <3>4. CASE inTx' = FALSE
      BY <3>1, <3>2, <3>4 DEF Doc!ChangePassword
    <3> QED
      BY <2>4, <3>3, <3>4 DEF DbRekey
  <2>5. CASE DbRekeyFails
    BY <2>5 DEF DbRekeyFails, file
  <2>6. CASE DbCloseSave
    <3>1. \/ Commit
          \/ UNCHANGED file
      BY <2>6 DEF DbCloseSave
    <3>2. phase = "ready" /\ HandleClosed
      BY <2>6 DEF DbCloseSave, Editable
    <3>3. CASE Commit
      <4>1. disk.schema # 0 => work.schema # 0 /\ diskKey' = diskKey
        BY <3>2, <3>3 DEF Commit, KeyInv, SchemaStays, SessionKeyOpensFile, KeyReadsFile
      <4>2. Doc!SaveWorking
        BY <3>3, <4>1 DEF Commit, Doc!SaveWorking
      <4> QED
        BY <3>2, <3>3, <4>2 DEF Commit, HandleClosed, Doc!CloseSaved
    <3>4. CASE UNCHANGED file
      BY <3>2, <3>4 DEF file, HandleClosed, Doc!Discard
    <3> QED
      BY <3>1, <3>3, <3>4
  <2>7. CASE DbClose \/ Crash
    BY <2>7 DEF DbClose, Crash, HandleClosed, file, Doc!Discard
  <2> QED
    BY <1>3, <2>1, <2>2, <2>3, <2>4, <2>5, <2>6, <2>7 DEF SaveOrClose
<1>4. CASE UNCHANGED vars
  BY <1>4 DEF vars
<1> QED
  BY <1>1, <1>2, <1>3, <1>4 DEF Next

\* The data store implements Document: what is stored changes only on a save,
\* on closing with Yes or, edit by edit, while the connection is direct; only
\* a change of password or a failure of SQLite makes it so.
THEOREM Implementation == Spec => ImplementsDocument
<1>1. Init => Doc!DocInit
  BY DEF Init, Doc!DocInit
<1> QED
  BY <1>1, TypeCorrect, DurabilityCorrect, KeyInvCorrect,
     NothingPendingCorrect, DocumentStep, PTL DEF Spec, ImplementsDocument, Doc!DocSpec
=============================================================================
