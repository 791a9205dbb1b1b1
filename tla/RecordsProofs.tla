--------------------------- MODULE RecordsProofs ---------------------------
(***************************************************************************)
(* What the statements of Records do to a content, for every table: the    *)
(* lemmas the proofs about DataStore and Editor share.                     *)
(***************************************************************************)
EXTENDS Records, FiniteSetTheorems, WellFoundedInduction, TLAPS

-----------------------------------------------------------------------------
(* The statements produce contents. *)

\* DbCreateSchema makes a well-typed table.
LEMMA CreateSchemaType == IsContent(CreateSchema)
BY TextsAssumption, MaxRecordIdAssumption
   DEF CreateSchema, IsContent, IsTable, Row, Record, RecordIds, RootRecord,
       FileRecord, DbSchemaVersion

\* A file SQLite has just created is a well-typed content.
LEMMA EmptyContentType == IsContent(EmptyContent)
BY MaxRecordIdAssumption DEF EmptyContent, IsContent, IsTable, RecordIds

\* DbAddNewItem's INSERT keeps a content well typed while ids are left.
LEMMA InsertItemType ==
    ASSUME NEW c, IsContent(c), c.seq < MaxRecordId,
           NEW parent \in RecordIds, NEW title \in Texts
    PROVE  IsContent(InsertItem(c, parent, title))
<1> DEFINE new == c.seq + 1
           S == Ids(c) \cup {new}
           t == [i \in S |-> IF i = new THEN Row(parent, title) ELSE c.table[i]]
<1>1. c.seq \in 0 .. MaxRecordId /\ c.schema \in 0 .. 2
  BY DEF IsContent
<1>2. new \in RecordIds /\ new \in 0 .. MaxRecordId
  BY <1>1, MaxRecordIdAssumption DEF RecordIds, RootRecord
<1>3. Row(parent, title) \in Record
  BY TextsAssumption DEF Row, Record
<1>4. \A i \in Ids(c) : c.table[i] \in Record
  BY DEF IsContent, IsTable, Ids
<1>5. DOMAIN t = S /\ t \in [S -> Record]
  BY <1>3, <1>4
<1>6. S \subseteq RecordIds
  BY <1>2 DEF IsContent, IsTable, Ids
<1>7. IsTable(t)
  BY <1>5, <1>6 DEF IsTable
<1>8. InsertItem(c, parent, title) = [schema |-> c.schema, table |-> t, seq |-> new]
  BY DEF InsertItem
<1> QED
  BY <1>1, <1>2, <1>7, <1>8 DEF IsContent

\* DbUpdateItemTitle's UPDATE keeps a content well typed.
LEMMA UpdateTitleType ==
    ASSUME NEW c, IsContent(c), NEW id \in Ids(c), NEW title \in Texts
    PROVE  IsContent(UpdateTitle(c, id, title))
BY DEF UpdateTitle, IsContent, IsTable, Record, Ids

\* DbUpdateItemNotes' UPDATE keeps a content well typed.
LEMMA UpdateNotesType ==
    ASSUME NEW c, IsContent(c), NEW id \in Ids(c), NEW notes \in Texts
    PROVE  IsContent(UpdateNotes(c, id, notes))
BY DEF UpdateNotes, IsContent, IsTable, Record, Ids

\* DbSetReadOnlyItem's UPDATE keeps a content well typed.
LEMMA SetReadOnlyType ==
    ASSUME NEW c, IsContent(c), NEW id \in Ids(c), NEW readonly \in BOOLEAN
    PROVE  IsContent(SetReadOnly(c, id, readonly))
BY DEF SetReadOnly, IsContent, IsTable, Record, Ids

\* DbRemoveItem's DELETE, cascade included, keeps a content well typed.
LEMMA RemoveItemType ==
    ASSUME NEW c, IsContent(c), NEW id
    PROVE  IsContent(RemoveItem(c, id))
BY DEF RemoveItem, IsContent, IsTable, Ids

\* DbUpdateFileDetails' UPDATE of record 0 keeps a content well typed.
LEMMA UpdateFileDetailsType ==
    ASSUME NEW c, IsContent(c), FileRecord \in Ids(c),
           NEW title \in Texts, NEW notes \in Texts
    PROVE  IsContent(UpdateFileDetails(c, title, notes))
<1>1. IsContent(UpdateTitle(c, FileRecord, title))
  BY UpdateTitleType
<1>2. Ids(UpdateTitle(c, FileRecord, title)) = Ids(c)
  BY DEF UpdateTitle, Ids, IsContent, IsTable
<1> QED
  BY <1>1, <1>2, UpdateNotesType DEF UpdateFileDetails

\* A removed record is one of the rows its removal counts.
LEMMA SubtreeCounted ==
    ASSUME NEW c, IsContent(c), NEW id \in Ids(c)
    PROVE  Cardinality(Subtree(c, id)) \in Nat \ {0}
<1>1. IsFiniteSet(Subtree(c, id))
  <2>1. IsFiniteSet(RecordIds)
    BY FS_Interval, MaxRecordIdAssumption DEF RecordIds, RootRecord
  <2>2. Subtree(c, id) \subseteq RecordIds
    BY DEF Subtree, Ids, IsContent, IsTable
  <2> QED
    BY <2>1, <2>2, FS_Subset
<1>2. id \in Subtree(c, id)
  BY DEF Subtree
<1> QED
  BY <1>1, <1>2, FS_CardinalityType, FS_EmptySet

-----------------------------------------------------------------------------
(* Integrity: the parent relation stays a tree. *)

\* The schema DbCreateSchema makes is a tree with its two root records.
LEMMA CreateSchemaIntegrity == IntegrityOK(CreateSchema)
BY DEF IntegrityOK, WellFormedTree, HasRoots, CreateSchema, Row, Ids, Items,
       RootRecord, FileRecord, DbSchemaVersion

\* A new item hangs below an existing record and gets the largest id.
LEMMA InsertItemIntegrity ==
    ASSUME NEW c, IsContent(c), IntegrityOK(c), NEW title,
           NEW parent \in Ids(c) \ {RootRecord}
    PROVE  IntegrityOK(InsertItem(c, parent, title))
<1> DEFINE new == c.seq + 1
           d == InsertItem(c, parent, title)
<1> SUFFICES ASSUME c.schema = DbSchemaVersion PROVE WellFormedTree(d)
  BY DEF IntegrityOK, InsertItem
<1>1. WellFormedTree(c)
  BY DEF IntegrityOK
<1>2. c.seq \in Nat /\ Ids(c) \subseteq RecordIds /\ RecordIds \subseteq Int
  BY MaxRecordIdAssumption DEF IsContent, IsTable, Ids, RecordIds, RootRecord
<1>3. /\ d.seq = new
      /\ Ids(d) = Ids(c) \cup {new}
      /\ \A i \in Ids(d) : d.table[i] = IF i = new THEN Row(parent, title) ELSE c.table[i]
  BY DEF InsertItem, Ids
<1> HIDE DEF d
<1>4. FileRecord <= parent /\ parent <= c.seq
  BY <1>1, <1>2 DEF WellFormedTree, Items, RecordIds, RootRecord, FileRecord
<1>5. HasRoots(d)
  BY <1>1, <1>2, <1>3 DEF HasRoots, WellFormedTree, RootRecord, FileRecord
<1>6. ASSUME NEW i \in Items(d)
      PROVE  /\ d.table[i].parent \in Ids(d)
             /\ FileRecord <= d.table[i].parent
             /\ d.table[i].parent < i
             /\ i <= d.seq
  <2>1. CASE i = new
    <3>1. d.table[i].parent = parent
      BY <1>3, <2>1 DEF Items, Row
    <3> QED
      BY <1>2, <1>3, <1>4, <2>1, <3>1 DEF FileRecord, RecordIds, RootRecord
  <2>2. CASE i # new
    <3>1. i \in Items(c) /\ d.table[i] = c.table[i]
      BY <1>3, <2>2 DEF Items
    <3>2. /\ c.table[i].parent \in Ids(c)
          /\ FileRecord <= c.table[i].parent
          /\ c.table[i].parent < i
          /\ i <= c.seq
      BY <1>1, <3>1 DEF WellFormedTree
    <3>3. i \in Int
      BY <1>2, <3>1 DEF Items
    <3> QED
      BY <1>2, <1>3, <3>1, <3>2, <3>3
  <2> QED
    BY <2>1, <2>2
<1> QED
  BY <1>5, <1>6 DEF WellFormedTree

\* A statement that touches neither ids nor parents keeps the tree.
LEMMA SameParentsIntegrity ==
    ASSUME NEW c, NEW d, IntegrityOK(c),
           d.schema = c.schema, d.seq = c.seq, Ids(d) = Ids(c),
           \A i \in Ids(c) : d.table[i].parent = c.table[i].parent
    PROVE  IntegrityOK(d)
BY DEF IntegrityOK, WellFormedTree, HasRoots, Items

\* Changing a title (DbUpdateItemTitle) keeps the tree.
LEMMA UpdateTitleIntegrity ==
    ASSUME NEW c, IsContent(c), IntegrityOK(c), NEW id \in Ids(c), NEW title
    PROVE  IntegrityOK(UpdateTitle(c, id, title))
<1>1. \A i \in Ids(c) : UpdateTitle(c, id, title).table[i].parent = c.table[i].parent
  BY DEF UpdateTitle, IsContent, IsTable, Ids, Record
<1> QED
  BY <1>1, SameParentsIntegrity DEF UpdateTitle, IsContent, IsTable, Ids

\* Changing notes (DbUpdateItemNotes) keeps the tree.
LEMMA UpdateNotesIntegrity ==
    ASSUME NEW c, IsContent(c), IntegrityOK(c), NEW id \in Ids(c), NEW notes
    PROVE  IntegrityOK(UpdateNotes(c, id, notes))
<1>1. \A i \in Ids(c) : UpdateNotes(c, id, notes).table[i].parent = c.table[i].parent
  BY DEF UpdateNotes, IsContent, IsTable, Ids, Record
<1> QED
  BY <1>1, SameParentsIntegrity DEF UpdateNotes, IsContent, IsTable, Ids

\* Protecting an item (DbSetReadOnlyItem) keeps the tree.
LEMMA SetReadOnlyIntegrity ==
    ASSUME NEW c, IsContent(c), IntegrityOK(c), NEW id \in Ids(c), NEW readonly
    PROVE  IntegrityOK(SetReadOnly(c, id, readonly))
<1>1. \A i \in Ids(c) : SetReadOnly(c, id, readonly).table[i].parent = c.table[i].parent
  BY DEF SetReadOnly, IsContent, IsTable, Ids, Record
<1> QED
  BY <1>1, SameParentsIntegrity DEF SetReadOnly, IsContent, IsTable, Ids

\* The cascade removes no root record and leaves no record without parent.
LEMMA RemoveItemIntegrity ==
    ASSUME NEW c, IsContent(c), IntegrityOK(c), NEW id \in Items(c)
    PROVE  IntegrityOK(RemoveItem(c, id))
<1> DEFINE d == RemoveItem(c, id)
           D == Subtree(c, id)
<1> SUFFICES ASSUME c.schema = DbSchemaVersion PROVE WellFormedTree(d)
  BY DEF IntegrityOK, RemoveItem, IsContent
<1>1. WellFormedTree(c)
  BY DEF IntegrityOK
<1>2. /\ d.seq = c.seq
      /\ Ids(d) = Ids(c) \ D
      /\ \A i \in Ids(d) : d.table[i] = c.table[i]
  BY DEF RemoveItem, Ids, IsContent
<1>3. RootRecord \notin D /\ FileRecord \notin D
  <2> DEFINE S == Items(c)
  <2>1. S \in SUBSET Ids(c) /\ id \in S
    BY DEF Items
  <2>2. ASSUME NEW j \in Ids(c), c.table[j].parent \in S PROVE j \in S
    <3>1. j # RootRecord /\ j # FileRecord
      BY <1>1, <2>2 DEF WellFormedTree, HasRoots, Items, RootRecord, FileRecord
    <3> QED
      BY <3>1, MaxRecordIdAssumption
         DEF Items, Ids, IsContent, IsTable, RecordIds, RootRecord, FileRecord
  <2>3. D \subseteq S
    BY <2>1, <2>2 DEF Subtree
  <2> QED
    BY <2>3 DEF Items, RootRecord, FileRecord
<1>4. ASSUME NEW j \in Ids(c), c.table[j].parent \in D PROVE j \in D
  BY <1>4 DEF Subtree
<1>5. HasRoots(d)
  BY <1>1, <1>2, <1>3 DEF WellFormedTree, HasRoots
<1>6. ASSUME NEW i \in Items(d)
      PROVE  /\ d.table[i].parent \in Ids(d)
             /\ FileRecord <= d.table[i].parent
             /\ d.table[i].parent < i
             /\ i <= d.seq
  BY <1>1, <1>2, <1>4 DEF WellFormedTree, Items
<1> QED
  BY <1>5, <1>6 DEF WellFormedTree

\* Changing record 0 (DbUpdateFileDetails) keeps the tree.
LEMMA UpdateFileDetailsIntegrity ==
    ASSUME NEW c, IsContent(c), IntegrityOK(c), FileRecord \in Ids(c),
           NEW title \in Texts, NEW notes
    PROVE  IntegrityOK(UpdateFileDetails(c, title, notes))
<1>1. IsContent(UpdateTitle(c, FileRecord, title))
  BY UpdateTitleType
<1>2. IntegrityOK(UpdateTitle(c, FileRecord, title))
  BY UpdateTitleIntegrity
<1>3. Ids(UpdateTitle(c, FileRecord, title)) = Ids(c)
  BY DEF UpdateTitle, Ids, IsContent, IsTable
<1> QED
  BY <1>1, <1>2, <1>3, UpdateNotesIntegrity DEF UpdateFileDetails

-----------------------------------------------------------------------------
(* Ids are numbers: what holds for no least id holds for none. *)

\* A set of numbers that is not empty has a least one.
LEMMA LeastNatural ==
    ASSUME NEW T, T \subseteq Nat, T # {}
    PROVE  \E x \in T : \A y \in T : x <= y
<1> DEFINE R == OpToRel(<, Nat)
<1>1. IsWellFoundedOn(R, Nat)
  BY NatLessThanWellFounded
<1>2. \A x, y \in Nat : x < y => <<x, y>> \in R
  BY DEF OpToRel
<1> HIDE DEF R
<1>3. PICK x \in T : \A y \in T : ~(<<y, x>> \in R)
  BY <1>1, WFMin
<1>4. ASSUME NEW y \in T PROVE x <= y
  <2>1. ~(y < x)
    BY <1>2, <1>3
  <2> QED BY <2>1
<1> QED BY <1>3, <1>4

\* A set of ids that is not empty has a largest one.
LEMMA LargestId ==
    ASSUME NEW T, T \subseteq Nat, NEW bound \in Nat, \A y \in T : y <= bound, T # {}
    PROVE  \E x \in T : \A y \in T : y <= x
<1> DEFINE Down == {bound - y : y \in T}
<1>1. Down \subseteq Nat /\ Down # {}
  <2>1. \A y \in T : bound - y \in Nat
    OBVIOUS
  <2> QED BY <2>1
<1>2. PICK z \in Down : \A w \in Down : z <= w
  BY <1>1, LeastNatural
<1>3. PICK x \in T : z = bound - x
  OBVIOUS
<1>4. ASSUME NEW y \in T PROVE y <= x
  <2>1. bound - y \in Down
    OBVIOUS
  <2>2. bound - x <= bound - y
    BY <1>2, <1>3, <2>1
  <2> QED BY <2>2
<1> QED BY <1>4

\* The ids of a table are numbers, but for the root record.
LEMMA IdsAreNumbers ==
    ASSUME NEW c, IsContent(c)
    PROVE  /\ Items(c) \subseteq Nat \ {0}
           /\ Ids(c) \subseteq Items(c) \cup {RootRecord, FileRecord}
           /\ Items(c) \subseteq Ids(c)
           /\ c.seq \in Nat
BY MaxRecordIdAssumption
   DEF IsContent, IsTable, Items, Ids, RecordIds, RootRecord, FileRecord

\* The parent of an item is record 0 or an older item.
LEMMA ParentOfItem ==
    ASSUME NEW c, IsContent(c), WellFormedTree(c), NEW i \in Items(c)
    PROVE  /\ c.table[i].parent \in Items(c) \cup {FileRecord}
           /\ c.table[i].parent < i
           /\ i <= c.seq
BY MaxRecordIdAssumption
   DEF WellFormedTree, Items, Ids, IsContent, IsTable, RecordIds, RootRecord, FileRecord

-----------------------------------------------------------------------------
(* Levels.  RecordLevel is a recursive function: that there is one follows *)
(* from the order of the ids, and with it the equation that defines it.    *)

\* One step of the climb of DbGetRecordLevel, f telling the levels above.
LevelStep(c, f, i) ==
    IF c.table[i].parent = RootRecord THEN 0
    ELSE IF c.table[i].parent = FileRecord THEN 1
    ELSE 1 + f[c.table[i].parent]

\* f is the climb on the records up to n.
ClimbUpTo(c, f, n) == f = [i \in {j \in Ids(c) : j <= n} |-> LevelStep(c, f, i)]

\* The climb up to one id can be prolonged to the next.
LEMMA ClimbOneMore ==
    ASSUME NEW c, IsContent(c), WellFormedTree(c), NEW n \in Nat,
           NEW f, ClimbUpTo(c, f, n)
    PROVE  \E g : ClimbUpTo(c, g, n + 1)
<1> DEFINE g == [i \in {j \in Ids(c) : j <= n + 1} |-> LevelStep(c, f, i)]
<1>1. ASSUME NEW i \in Ids(c), i <= n + 1 PROVE LevelStep(c, f, i) = LevelStep(c, g, i)
  <2>1. CASE c.table[i].parent \in {RootRecord, FileRecord}
    BY <2>1 DEF LevelStep
  <2>2. CASE c.table[i].parent \notin {RootRecord, FileRecord}
    <3>1. i \in Items(c)
      BY <2>2, IdsAreNumbers DEF WellFormedTree, HasRoots
    <3> DEFINE p == c.table[i].parent
    <3>2. p \in Ids(c) /\ p \in Nat /\ p < i /\ i \in Nat
      BY <2>2, <3>1, ParentOfItem, IdsAreNumbers
    <3>3. p \in {j \in Ids(c) : j <= n} /\ p \in {j \in Ids(c) : j <= n + 1}
      BY <1>1, <3>2
    <3> HIDE DEF p
    <3>4. f[p] = LevelStep(c, f, p)
      BY <3>3 DEF ClimbUpTo
    <3>5. g[p] = LevelStep(c, f, p)
      BY <3>3
    <3> QED BY <3>4, <3>5 DEF LevelStep, p
  <2> QED BY <2>1, <2>2
<1>2. g = [i \in {j \in Ids(c) : j <= n + 1} |-> LevelStep(c, g, i)]
  BY <1>1
<1> QED BY <1>2 DEF ClimbUpTo

\* In a tree every climb ends: the recursive function of RecordLevel exists.
LEMMA ClimbExists ==
    ASSUME NEW c, IsContent(c), WellFormedTree(c)
    PROVE  \E f : f = [i \in Ids(c) |-> LevelStep(c, f, i)]
<1> DEFINE Has(n) == \E f : ClimbUpTo(c, f, n)
           Fails == {n \in Nat : ~Has(n)}
<1>1. Has(0)
  <2> DEFINE f == [i \in {j \in Ids(c) : j <= 0} |-> 0]
  <2>1. ASSUME NEW i \in Ids(c), i <= 0 PROVE LevelStep(c, f, i) = 0
    BY <2>1, IdsAreNumbers DEF LevelStep, WellFormedTree, HasRoots
  <2>2. ClimbUpTo(c, f, 0)
    BY <2>1 DEF ClimbUpTo
  <2> QED BY <2>2
<1>2. ASSUME NEW n \in Nat, Has(n) PROVE Has(n + 1)
  BY <1>2, ClimbOneMore
<1>3. Fails = {}
  <2> SUFFICES ASSUME Fails # {} PROVE FALSE
    OBVIOUS
  <2> HIDE DEF Has
  <2>1. PICK n \in Fails : \A m \in Fails : n <= m
    BY LeastNatural
  <2>2. n # 0
    BY <1>1
  <2>3. n - 1 \in Nat /\ n - 1 \notin Fails /\ (n - 1) + 1 = n
    BY <2>1, <2>2
  <2> QED BY <1>2, <2>3
<1>4. PICK f : ClimbUpTo(c, f, MaxRecordId)
  BY <1>3, MaxRecordIdAssumption
<1>5. {j \in Ids(c) : j <= MaxRecordId} = Ids(c)
  BY MaxRecordIdAssumption DEF IsContent, IsTable, Ids, RecordIds, RootRecord
<1> QED BY <1>4, <1>5 DEF ClimbUpTo

\* The equation of RecordLevel: an item is one level below its parent.
LEMMA LevelOfItem ==
    ASSUME NEW c, IsContent(c), WellFormedTree(c), NEW i \in Items(c)
    PROVE  RecordLevel(c, i) = IF c.table[i].parent = FileRecord THEN 1
                               ELSE 1 + RecordLevel(c, c.table[i].parent)
<1> DEFINE step(g, j) == LevelStep(c, g, j)
           climb == CHOOSE g : g = [j \in Ids(c) |-> step(g, j)]
<1>1. \E g : g = [j \in Ids(c) |-> step(g, j)]
  BY ClimbExists
<1>2. climb = [j \in Ids(c) |-> step(climb, j)]
  <2> HIDE DEF step
  <2> QED BY <1>1, Zenon
<1>3. \A j \in Ids(c) : RecordLevel(c, j) = climb[j]
  BY DEF RecordLevel, LevelStep
<1> DEFINE p == c.table[i].parent
<1>4. i \in Ids(c) /\ p \in Ids(c) /\ p # RootRecord
  <2>1. p \in Items(c) \cup {FileRecord} /\ i \in Ids(c) /\ FileRecord \in Ids(c)
    BY ParentOfItem, IdsAreNumbers DEF WellFormedTree, HasRoots
  <2> QED BY <2>1 DEF Items, RootRecord, FileRecord
<1> HIDE DEF climb
<1>5. climb[i] = LevelStep(c, climb, i)
  BY <1>2, <1>4
<1> QED BY <1>3, <1>4, <1>5 DEF LevelStep, RootRecord, FileRecord

\* The levels of items depend on the parents only: two trees that agree on the
\* items of the one give them the same levels.
LEMMA LevelsAgree ==
    ASSUME NEW c, IsContent(c), WellFormedTree(c),
           NEW d, IsContent(d), WellFormedTree(d),
           Items(c) \subseteq Items(d),
           \A i \in Items(c) : d.table[i].parent = c.table[i].parent
    PROVE  \A i \in Items(c) : RecordLevel(d, i) = RecordLevel(c, i)
<1> DEFINE Differs == {i \in Items(c) : RecordLevel(d, i) # RecordLevel(c, i)}
<1> SUFFICES ASSUME Differs # {} PROVE FALSE
  OBVIOUS
<1>1. Differs \subseteq Nat
  BY IdsAreNumbers
<1>2. PICK i \in Differs : \A j \in Differs : i <= j
  BY <1>1, LeastNatural
<1> DEFINE p == c.table[i].parent
<1>3. /\ i \in Items(c) /\ i \in Items(d) /\ d.table[i].parent = p
      /\ RecordLevel(d, i) # RecordLevel(c, i)
  BY <1>2
<1>4. p \in Items(c) \cup {FileRecord} /\ p < i
  BY <1>3, ParentOfItem
<1>5. RecordLevel(c, i) = IF p = FileRecord THEN 1 ELSE 1 + RecordLevel(c, p)
  BY <1>3, LevelOfItem
<1>6. RecordLevel(d, i) = IF p = FileRecord THEN 1 ELSE 1 + RecordLevel(d, p)
  BY <1>3, LevelOfItem
<1>7. p # FileRecord /\ RecordLevel(d, p) # RecordLevel(c, p)
  BY <1>3, <1>5, <1>6
<1>8. p \in Differs
  BY <1>4, <1>7
<1>9. i <= p
  BY <1>2, <1>8
<1> QED BY <1>1, <1>2, <1>4, <1>8, <1>9

-----------------------------------------------------------------------------
(* Statements that change neither ids nor parents *)

\* The shape of a content: what the tree view and the limits depend on.
SameShape(c, d) ==
    /\ d.schema = c.schema /\ d.seq = c.seq /\ Ids(d) = Ids(c)
    /\ \A i \in Ids(c) : d.table[i].parent = c.table[i].parent

\* What is derived from ids and parents is the same in contents of one shape.
LEMMA ShapeQueries ==
    ASSUME NEW c, NEW d, SameShape(c, d)
    PROVE  /\ Items(d) = Items(c)
           /\ \A id : ChildIds(d, id) = ChildIds(c, id)
           /\ \A id : Subtree(d, id) = Subtree(c, id)
<1>1. Ids(d) = Ids(c) /\ \A i \in Ids(c) : d.table[i].parent = c.table[i].parent
  BY DEF SameShape
<1>2. Items(d) = Items(c)
  BY <1>1 DEF Items
<1>3. ASSUME NEW id PROVE ChildIds(d, id) = ChildIds(c, id)
  BY <1>1 DEF ChildIds
<1>4. ASSUME NEW id PROVE Subtree(d, id) = Subtree(c, id)
  <2>1. ASSUME NEW S
        PROVE  (\A j \in Ids(d) : d.table[j].parent \in S => j \in S)
                 <=> (\A j \in Ids(c) : c.table[j].parent \in S => j \in S)
    BY <1>1
  <2> QED BY <1>1, <2>1 DEF Subtree
<1> QED BY <1>2, <1>3, <1>4

\* A title is no part of the shape.
LEMMA UpdateTitleShape ==
    ASSUME NEW c, IsContent(c), NEW id \in Ids(c), NEW title
    PROVE  /\ SameShape(c, UpdateTitle(c, id, title))
           /\ \A i \in Ids(c) :
                /\ UpdateTitle(c, id, title).table[i].notes = c.table[i].notes
                /\ UpdateTitle(c, id, title).table[i].readonly = c.table[i].readonly
BY DEF SameShape, UpdateTitle, IsContent, IsTable, Ids, Record

\* Nor are notes; those of other records stay what they are.
LEMMA UpdateNotesShape ==
    ASSUME NEW c, IsContent(c), NEW id \in Ids(c), NEW notes
    PROVE  /\ SameShape(c, UpdateNotes(c, id, notes))
           /\ UpdateNotes(c, id, notes).table[id].notes = notes
           /\ \A i \in Ids(c) :
                /\ UpdateNotes(c, id, notes).table[i].readonly = c.table[i].readonly
                /\ i # id => UpdateNotes(c, id, notes).table[i].notes = c.table[i].notes
BY DEF SameShape, UpdateNotes, IsContent, IsTable, Ids, Record

\* Nor is the protection of an item.
LEMMA SetReadOnlyShape ==
    ASSUME NEW c, IsContent(c), NEW id \in Ids(c), NEW readonly
    PROVE  /\ SameShape(c, SetReadOnly(c, id, readonly))
           /\ SetReadOnly(c, id, readonly).table[id].readonly = readonly
           /\ \A i \in Ids(c) :
                SetReadOnly(c, id, readonly).table[i].notes = c.table[i].notes
BY DEF SameShape, SetReadOnly, IsContent, IsTable, Ids, Record

\* Title and description of the file are in record 0, which is no item.
LEMMA UpdateFileDetailsShape ==
    ASSUME NEW c, IsContent(c), FileRecord \in Ids(c), NEW title \in Texts, NEW notes
    PROVE  /\ SameShape(c, UpdateFileDetails(c, title, notes))
           /\ \A i \in Items(c) :
                /\ UpdateFileDetails(c, title, notes).table[i].notes = c.table[i].notes
                /\ UpdateFileDetails(c, title, notes).table[i].readonly = c.table[i].readonly
<1> DEFINE d == UpdateTitle(c, FileRecord, title)
           e == UpdateNotes(d, FileRecord, notes)
<1>1. IsContent(d)
  BY UpdateTitleType
<1>2. SameShape(c, d) /\ \A i \in Ids(c) : /\ d.table[i].notes = c.table[i].notes
                                           /\ d.table[i].readonly = c.table[i].readonly
  BY UpdateTitleShape
<1>3. FileRecord \in Ids(d)
  BY <1>2 DEF SameShape
<1>4. SameShape(d, e) /\ \A i \in Ids(d) : /\ e.table[i].readonly = d.table[i].readonly
                                           /\ i # FileRecord => e.table[i].notes = d.table[i].notes
  BY <1>1, <1>3, UpdateNotesShape
<1>5. UpdateFileDetails(c, title, notes) = e
  BY DEF UpdateFileDetails
<1>6. \A i \in Items(c) : i \in Ids(c) /\ i # FileRecord
  BY DEF Items, FileRecord
<1> HIDE DEF d, e
<1> QED BY <1>2, <1>4, <1>5, <1>6 DEF SameShape

\* Contents of one shape are trees together.
LEMMA ShapeTree ==
    ASSUME NEW c, NEW d, SameShape(c, d), WellFormedTree(c)
    PROVE  WellFormedTree(d)
BY DEF SameShape, WellFormedTree, HasRoots, Items

-----------------------------------------------------------------------------
(* Inserting and removing a record *)

\* What an insertion changes: one record more, below its parent.
LEMMA InsertItemQueries ==
    ASSUME NEW c, IsContent(c), WellFormedTree(c), NEW title,
           NEW parent \in Items(c) \cup {FileRecord},
           NEW d, d = InsertItem(c, parent, title)
    PROVE  /\ d.seq = c.seq + 1 /\ d.seq \notin Ids(c) /\ d.schema = c.schema
           /\ Items(d) = Items(c) \cup {d.seq}
           /\ d.table[d.seq] = Row(parent, title)
           /\ \A i \in Ids(c) : d.table[i] = c.table[i]
           /\ ChildIds(d, parent) = ChildIds(c, parent) \cup {d.seq}
           /\ \A id : id # parent => ChildIds(d, id) = ChildIds(c, id)
<1>1. /\ d.seq = c.seq + 1 /\ d.schema = c.schema
      /\ Ids(d) = Ids(c) \cup {d.seq}
      /\ \A i \in Ids(d) : d.table[i] = IF i = d.seq THEN Row(parent, title) ELSE c.table[i]
  BY DEF InsertItem, Ids
<1>2. \A i \in Ids(c) : i \in Int /\ i <= c.seq
  <2>1. \A i \in Items(c) : i <= c.seq
    BY DEF WellFormedTree
  <2> QED BY <2>1, IdsAreNumbers DEF RootRecord, FileRecord
<1>3. c.seq \in Nat
  BY IdsAreNumbers
<1>4. d.seq \notin Ids(c) /\ d.seq > FileRecord
  BY <1>1, <1>2, <1>3 DEF FileRecord
<1>5. Items(d) = Items(c) \cup {d.seq}
  BY <1>1, <1>4 DEF Items
<1>6. d.table[d.seq] = Row(parent, title) /\ \A i \in Ids(c) : d.table[i] = c.table[i]
  BY <1>1, <1>4
<1>7. d.table[d.seq].parent = parent
  BY <1>6 DEF Row
<1>8. ChildIds(d, parent) = ChildIds(c, parent) \cup {d.seq}
  BY <1>1, <1>6, <1>7 DEF ChildIds
<1>9. ASSUME NEW id, id # parent PROVE ChildIds(d, id) = ChildIds(c, id)
  BY <1>1, <1>6, <1>7, <1>9 DEF ChildIds
<1> QED BY <1>1, <1>4, <1>5, <1>6, <1>8, <1>9

\* What the cascade removes: the record, with a record its children, and
\* nothing older than the record.
LEMMA SubtreeIsBelow ==
    ASSUME NEW c, IsContent(c), WellFormedTree(c), NEW id \in Items(c)
    PROVE  /\ id \in Subtree(c, id)
           /\ \A j \in Ids(c) : c.table[j].parent \in Subtree(c, id) => j \in Subtree(c, id)
           /\ \A j \in Subtree(c, id) : j \in Items(c) /\ j >= id
<1>1. id \in Subtree(c, id)
  BY DEF Subtree, Items
<1>2. \A j \in Ids(c) : c.table[j].parent \in Subtree(c, id) => j \in Subtree(c, id)
  BY DEF Subtree
<1>3. Subtree(c, id) \subseteq {j \in Items(c) : j >= id}
  <2> DEFINE S == {j \in Items(c) : j >= id}
  <2>1. S \in SUBSET Ids(c) /\ id \in S
    BY IdsAreNumbers
  <2>2. ASSUME NEW j \in Ids(c), c.table[j].parent \in S PROVE j \in S
    <3>1. j \in Items(c)
      BY <2>2, IdsAreNumbers DEF WellFormedTree, HasRoots, Items, RootRecord, FileRecord
    <3>2. c.table[j].parent < j /\ j \in Nat /\ id \in Nat /\ c.table[j].parent \in Nat
      BY <2>2, <3>1, ParentOfItem, IdsAreNumbers
    <3> QED BY <2>2, <3>1, <3>2
  <2> QED BY <2>1, <2>2 DEF Subtree
<1> QED BY <1>1, <1>2, <1>3

\* What a removal leaves: the other records, and of the children of each those
\* that are left.
LEMMA RemoveItemQueries ==
    ASSUME NEW c, IsContent(c), WellFormedTree(c), NEW id \in Items(c),
           NEW d, d = RemoveItem(c, id)
    PROVE  /\ d.seq = c.seq /\ d.schema = c.schema
           /\ Items(d) = Items(c) \ Subtree(c, id)
           /\ \A i \in Ids(d) : i \in Ids(c) /\ d.table[i] = c.table[i]
           /\ \A i : ChildIds(d, i) = ChildIds(c, i) \ Subtree(c, id)
<1>1. /\ d.seq = c.seq /\ d.schema = c.schema
      /\ Ids(d) = Ids(c) \ Subtree(c, id)
      /\ \A i \in Ids(d) : d.table[i] = c.table[i]
  BY DEF RemoveItem, Ids, IsContent
<1>2. Items(d) = Items(c) \ Subtree(c, id)
  BY <1>1 DEF Items
<1>3. ASSUME NEW i PROVE ChildIds(d, i) = ChildIds(c, i) \ Subtree(c, id)
  BY <1>1 DEF ChildIds
<1> QED BY <1>1, <1>2, <1>3

=============================================================================
