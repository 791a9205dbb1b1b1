---------------------------- MODULE EditorProofs ----------------------------
(***************************************************************************)
(* The record table, the tree view and the edit control stay together, for *)
(* every set of files and texts and every limit.  The tree view is         *)
(* reasoned about as a function of its own: what loading, inserting and    *)
(* deleting do to a tree that shows a content, and then, per command, that *)
(* the tree, the table and the edit control change in step.                *)
(***************************************************************************)
EXTENDS Editor, RecordsProofs

\* A content the editor may work on.
Sound(c) ==
    /\ IsContent(c)
    /\ c.schema = DbSchemaVersion
    /\ WellFormedTree(c)
    /\ WithinLimitsContent(c)

\* The type of the tree view's items.
IsTree(t) ==
    /\ DOMAIN t \subseteq ItemIds
    /\ t \in [DOMAIN t -> [under : RecordIds \ {RootRecord}, expanded : BOOLEAN]]

\* Tree t shows content c, and no item hangs below one that is not shown.
Shows(t, c) ==
    /\ RootIds(c) \subseteq DOMAIN t
    /\ \A i \in DOMAIN t :
          /\ i \in Items(c)
          /\ t[i].under = c.table[i].parent
          /\ t[i].under \in DOMAIN t \cup {NoItem}
          /\ Kids(t, i) = IF t[i].expanded THEN ChildIds(c, i) ELSE {}

\* The views of an open file.
OpenFile ==
    open => /\ Sound(work)
            /\ Shows(nodes, work)
            /\ caret = NoItem <=> nodes = EmptyTree

\* Between two files nothing is shown, selected or renamed.
ClosedFile == ~open => nodes = EmptyTree /\ caret = NoItem /\ label = NoItem

\* In a read-only file nobody has typed over the notes of a record, and no
\* label is edited.
TypedIfWritable ==
    /\ open /\ ~rw /\ caret # NoItem => ~edit.modified
    /\ label # NoItem => rw

EditorInv == TypeOK /\ OpenFile /\ ClosedFile /\ EditShowsSelected /\ TypedIfWritable

-----------------------------------------------------------------------------
(* Contents *)

\* The number of items is a number.
LEMMA ItemsCounted ==
    ASSUME NEW c, IsContent(c)
    PROVE  IsFiniteSet(Items(c)) /\ Cardinality(Items(c)) \in Nat
<1>1. IsFiniteSet(RecordIds)
  BY FS_Interval, MaxRecordIdAssumption DEF RecordIds, RootRecord
<1>2. Items(c) \subseteq RecordIds
  BY DEF Items, Ids, IsContent, IsTable
<1> QED BY <1>1, <1>2, FS_Subset, FS_CardinalityType

\* A statement that leaves ids and parents alone leaves a content sound.
LEMMA SoundOfShape ==
    ASSUME NEW c, Sound(c), NEW d, IsContent(d), SameShape(c, d)
    PROVE  Sound(d)
<1>1. WellFormedTree(d) /\ Items(d) = Items(c) /\ d.schema = DbSchemaVersion
  BY ShapeTree, ShapeQueries DEF Sound, SameShape
<1>2. \A i \in Items(c) : d.table[i].parent = c.table[i].parent
  BY DEF SameShape, Items
<1>3. \A i \in Items(c) : RecordLevel(d, i) = RecordLevel(c, i)
  BY <1>1, <1>2, LevelsAgree DEF Sound
<1> QED BY <1>1, <1>3 DEF Sound, WithinLimitsContent

\* An insertion where the menu offers one keeps a content sound: at the top, or
\* below an item above the last level.
LEMMA SoundInsert ==
    ASSUME NEW c, Sound(c), Cardinality(Items(c)) < MaxRecordCount, c.seq < MaxRecordId,
           NEW parent \in Items(c) \cup {FileRecord}, NEW title \in Texts,
           parent # FileRecord => RecordLevel(c, parent) < MaxLevelDepth
    PROVE  Sound(InsertItem(c, parent, title))
<1> DEFINE d == InsertItem(c, parent, title)
<1>1. parent \in Ids(c) \ {RootRecord} /\ parent \in RecordIds
  BY IdsAreNumbers DEF Sound, WellFormedTree, HasRoots, Items, RootRecord, FileRecord,
                       IsContent, IsTable, Ids
<1>2. IsContent(d)
  BY <1>1, InsertItemType DEF Sound
<1>3. d.schema = DbSchemaVersion /\ d.seq \notin Ids(c) /\ Items(d) = Items(c) \cup {d.seq}
      /\ d.table[d.seq] = Row(parent, title)
      /\ \A i \in Ids(c) : d.table[i] = c.table[i]
  BY InsertItemQueries DEF Sound
<1>4. WellFormedTree(d)
  BY <1>1, <1>3, InsertItemIntegrity DEF Sound, IntegrityOK
<1> HIDE DEF d
<1>5. Cardinality(Items(d)) <= MaxRecordCount
  <2>1. d.seq \notin Items(c)
    BY <1>3 DEF Items
  <2>2. IsFiniteSet(Items(c)) /\ Cardinality(Items(c)) \in Nat
    BY ItemsCounted DEF Sound
  <2>3. Cardinality(Items(d)) = Cardinality(Items(c)) + 1
    BY <1>3, <2>1, <2>2, FS_AddElement
  <2> QED BY <2>2, <2>3, LimitsAssumption
<1>6. \A i \in Items(c) : RecordLevel(d, i) = RecordLevel(c, i)
  <2>1. Items(c) \subseteq Items(d)
    BY <1>3
  <2>2. \A i \in Items(c) : d.table[i].parent = c.table[i].parent
    BY <1>3, IdsAreNumbers DEF Sound
  <2> QED BY <1>2, <1>4, <2>1, <2>2, LevelsAgree DEF Sound
<1>7. RecordLevel(d, d.seq) \in 1 .. MaxLevelDepth
  <2>1. d.seq \in Items(d) /\ d.table[d.seq].parent = parent
    BY <1>3 DEF Row
  <2>2. RecordLevel(d, d.seq) = IF parent = FileRecord THEN 1 ELSE 1 + RecordLevel(d, parent)
    BY <1>2, <1>4, <2>1, LevelOfItem
  <2>3. CASE parent = FileRecord
    BY <2>2, <2>3, LimitsAssumption
  <2>4. CASE parent # FileRecord
    <3>1. RecordLevel(d, parent) = RecordLevel(c, parent)
          /\ RecordLevel(c, parent) \in 1 .. MaxLevelDepth
      BY <1>6, <2>4 DEF Sound, WithinLimitsContent
    <3> QED BY <2>2, <2>4, <3>1, LimitsAssumption
  <2> QED BY <2>3, <2>4
<1>8. WithinLimitsContent(d)
  BY <1>3, <1>5, <1>6, <1>7 DEF WithinLimitsContent, Sound
<1> QED BY <1>2, <1>3, <1>4, <1>8 DEF Sound, d

\* A removal keeps a content sound.
LEMMA SoundRemove ==
    ASSUME NEW c, Sound(c), NEW id \in Items(c)
    PROVE  Sound(RemoveItem(c, id))
<1> DEFINE d == RemoveItem(c, id)
<1>1. IsContent(d)
  BY RemoveItemType DEF Sound
<1>2. /\ d.schema = DbSchemaVersion
      /\ Items(d) \subseteq Items(c)
      /\ \A i \in Ids(d) : d.table[i] = c.table[i]
  BY RemoveItemQueries DEF Sound
<1>3. WellFormedTree(d)
  BY <1>2, RemoveItemIntegrity DEF Sound, IntegrityOK
<1> HIDE DEF d
<1>4. Cardinality(Items(d)) <= MaxRecordCount
  <2>1. IsFiniteSet(Items(c)) /\ Cardinality(Items(c)) \in Nat
    BY ItemsCounted DEF Sound
  <2>2. Cardinality(Items(d)) \in Nat
    BY <1>1, ItemsCounted
  <2>3. Cardinality(Items(d)) <= Cardinality(Items(c))
    BY <1>2, <2>1, FS_Subset
  <2>4. Cardinality(Items(c)) <= MaxRecordCount
    BY DEF Sound, WithinLimitsContent
  <2> QED BY <2>1, <2>2, <2>3, <2>4, LimitsAssumption
<1>5. \A i \in Items(d) : RecordLevel(c, i) = RecordLevel(d, i)
  <2>1. \A i \in Items(d) : c.table[i].parent = d.table[i].parent
    BY <1>1, <1>2, IdsAreNumbers
  <2> QED BY <1>1, <1>2, <1>3, <2>1, LevelsAgree DEF Sound
<1>6. WithinLimitsContent(d)
  BY <1>2, <1>4, <1>5 DEF WithinLimitsContent, Sound
<1> QED BY <1>1, <1>2, <1>3, <1>6 DEF Sound, d

-----------------------------------------------------------------------------
(* The tree view *)

\* Children of record 0 or an item are items, and younger than it.
LEMMA ChildrenAreItems ==
    ASSUME NEW c, IsContent(c), WellFormedTree(c), NEW id \in Items(c) \cup {FileRecord}
    PROVE  /\ ChildIds(c, id) \subseteq Items(c)
           /\ \A j \in ChildIds(c, id) : id < j /\ c.table[j].parent = id
           /\ id \notin ChildIds(c, id)
<1>1. ASSUME NEW j \in ChildIds(c, id)
      PROVE  j \in Items(c) /\ id < j /\ c.table[j].parent = id
  <2>1. j \in Ids(c) /\ c.table[j].parent = id
    BY DEF ChildIds
  <2>2. j \in Items(c)
    BY <2>1, IdsAreNumbers DEF WellFormedTree, HasRoots, Items, RootRecord, FileRecord
  <2> QED BY <2>1, <2>2, ParentOfItem
<1>2. id \in Nat
  BY IdsAreNumbers DEF FileRecord
<1> QED BY <1>1, <1>2

\* The first child is the youngest one.
LEMMA FirstChildIsYoungest ==
    ASSUME NEW c, IsContent(c), WellFormedTree(c), NEW id \in Items(c) \cup {FileRecord},
           ChildIds(c, id) # {}
    PROVE  /\ FirstChild(c, id) \in ChildIds(c, id)
           /\ \A j \in ChildIds(c, id) : j <= FirstChild(c, id)
<1>1. ChildIds(c, id) \subseteq Nat /\ c.seq \in Nat
      /\ \A j \in ChildIds(c, id) : j <= c.seq
  BY ChildrenAreItems, IdsAreNumbers, ParentOfItem
<1>2. \E i \in ChildIds(c, id) : \A j \in ChildIds(c, id) : j <= i
  BY <1>1, LargestId
<1> QED BY <1>2 DEF FirstChild

\* A tree stays one when items are inserted below an item or at the top.
LEMMA InsertedIsTree ==
    ASSUME NEW t, IsTree(t), NEW ids, ids \subseteq ItemIds,
           NEW under \in RecordIds \ {RootRecord}
    PROVE  IsTree(Inserted(t, ids, under))
<1>1. Node(under) \in [under : RecordIds \ {RootRecord}, expanded : BOOLEAN]
  BY DEF Node
<1> QED BY <1>1 DEF IsTree, Inserted

\* Items of a content can be shown.
LEMMA ItemsAreItemIds ==
    ASSUME NEW c, IsContent(c)
    PROVE  Items(c) \subseteq ItemIds
BY DEF Items, ItemIds, Ids, IsContent, IsTable, RootRecord, FileRecord, RecordIds

\* The tree of no items.
LEMMA EmptyTreeIsTree == IsTree(EmptyTree) /\ DOMAIN EmptyTree = {}
BY DEF IsTree, EmptyTree

\* A tree is empty when it has no items.
LEMMA EmptyTreeUnique ==
    ASSUME NEW t, IsTree(t), DOMAIN t = {}
    PROVE  t = EmptyTree
BY DEF IsTree, EmptyTree

\* LoadRootNodes: the roots, none of them expanded.
LEMMA RootsShown ==
    ASSUME NEW c, Sound(c), NEW t, t = LoadChildNodes(EmptyTree, c, NoItem)
    PROVE  IsTree(t) /\ Shows(t, c) /\ DOMAIN t = RootIds(c)
<1> DEFINE R == RootIds(c)
<1>1. /\ R \subseteq Items(c) /\ FileRecord \notin R
      /\ \A i \in R : c.table[i].parent = FileRecord
  BY ChildrenAreItems DEF Sound, RootIds
<1>2. t = Inserted(EmptyTree, R, NoItem)
  BY DEF LoadChildNodes, RootIds, NoItem
<1>3. DOMAIN t = R /\ \A i \in R : t[i] = Node(NoItem)
  BY <1>2, EmptyTreeIsTree DEF Inserted
<1>4. IsTree(t)
  <2>1. R \subseteq ItemIds
    BY <1>1, ItemsAreItemIds DEF Sound
  <2>2. NoItem \in RecordIds \ {RootRecord}
    BY MaxRecordIdAssumption DEF NoItem, RecordIds, RootRecord, FileRecord
  <2> QED BY <1>2, <2>1, <2>2, EmptyTreeIsTree, InsertedIsTree
<1>5. ASSUME NEW i \in R
      PROVE  t[i].under = NoItem /\ t[i].expanded = FALSE /\ Kids(t, i) = {}
  <2>1. \A j \in R : t[j].under = NoItem /\ t[j].expanded = FALSE
    BY <1>3 DEF Node
  <2> QED BY <1>1, <1>3, <2>1 DEF Kids, NoItem
<1> QED BY <1>1, <1>3, <1>4, <1>5 DEF Shows, NoItem

\* MainWmNotifyTvnItemExpanding: all children of the item, and nothing twice.
LEMMA ExpandShows ==
    ASSUME NEW c, Sound(c), NEW t, IsTree(t), Shows(t, c), NEW id \in DOMAIN t,
           ~t[id].expanded, NEW u, u = LoadChildNodes(t, c, id)
    PROVE  IsTree(u) /\ Shows(u, c) /\ DOMAIN u = DOMAIN t \cup ChildIds(c, id)
<1> DEFINE C == ChildIds(c, id)
           l == Inserted(t, C, id)
<1>1. id \in Items(c) /\ id # NoItem
  BY DEF Shows, Items, NoItem, FileRecord
<1>2. C \subseteq Items(c) /\ id \notin C /\ \A j \in C : c.table[j].parent = id
  BY <1>1, ChildrenAreItems DEF Sound
<1>3. C \cap DOMAIN t = {}
  <2>1. Kids(t, id) = {}
    BY DEF Shows
  <2>2. ASSUME NEW j \in C, j \in DOMAIN t PROVE j \in Kids(t, id)
    BY <1>2, <2>2 DEF Shows, Kids
  <2> QED BY <2>1, <2>2
<1>4. /\ DOMAIN l = DOMAIN t \cup C
      /\ \A i \in C : l[i] = Node(id)
      /\ \A i \in DOMAIN t : l[i] = t[i]
  BY <1>3 DEF Inserted
<1>5. IsTree(l)
  <2>1. C \subseteq ItemIds
    BY <1>2, ItemsAreItemIds DEF Sound
  <2>2. id \in RecordIds \ {RootRecord}
    BY DEF IsTree, ItemIds
  <2> QED BY <2>1, <2>2, InsertedIsTree
<1>6. u = [l EXCEPT ![id].expanded = TRUE]
  BY <1>1 DEF LoadChildNodes
<1> HIDE DEF l, C
<1>7. /\ IsTree(u) /\ DOMAIN u = DOMAIN t \cup C
      /\ \A i \in DOMAIN u : u[i].under = l[i].under
      /\ \A i \in DOMAIN u : i # id => u[i] = l[i]
      /\ u[id].expanded = TRUE
  <2>1. id \in DOMAIN l /\ l \in [DOMAIN l -> [under : RecordIds \ {RootRecord}, expanded : BOOLEAN]]
        /\ DOMAIN l \subseteq ItemIds
    BY <1>4, <1>5 DEF IsTree
  <2>2. DOMAIN u = DOMAIN l
    BY <1>6
  <2>3. u[id] = [l[id] EXCEPT !.expanded = TRUE]
    BY <1>6, <2>1
  <2>4. u[id].under = l[id].under /\ u[id].expanded = TRUE
        /\ u[id] \in [under : RecordIds \ {RootRecord}, expanded : BOOLEAN]
    BY <2>1, <2>3
  <2>5. \A i \in DOMAIN l : i # id => u[i] = l[i]
    BY <1>6, <2>1
  <2>6. u \in [DOMAIN l -> [under : RecordIds \ {RootRecord}, expanded : BOOLEAN]]
    BY <1>6, <2>1
  <2> QED BY <1>4, <2>1, <2>2, <2>4, <2>5, <2>6 DEF IsTree
<1>8. \A i \in C : u[i].under = id /\ u[i].expanded = FALSE
  BY <1>2, <1>4, <1>7 DEF Node
<1>9. \A i \in DOMAIN t : u[i].under = t[i].under /\ (i # id => u[i].expanded = t[i].expanded)
  BY <1>4, <1>7
<1>10. Kids(u, id) = C
  <2>1. Kids(t, id) = {}
    BY DEF Shows
  <2> QED BY <1>7, <1>8, <1>9, <2>1 DEF Kids
<1>11. ASSUME NEW i, i # id PROVE Kids(u, i) = Kids(t, i)
  BY <1>3, <1>7, <1>8, <1>9, <1>11 DEF Kids
<1>12. ASSUME NEW i \in C PROVE Kids(t, i) = {}
  <2>1. i \notin DOMAIN t /\ i # NoItem
    BY <1>2, <1>3 DEF Items, NoItem, FileRecord
  <2> QED BY <2>1 DEF Shows, Kids
<1>13. ASSUME NEW i \in DOMAIN u
       PROVE  /\ i \in Items(c)
              /\ u[i].under = c.table[i].parent
              /\ u[i].under \in DOMAIN u \cup {NoItem}
              /\ Kids(u, i) = IF u[i].expanded THEN ChildIds(c, i) ELSE {}
  <2>1. CASE i \in C
    BY <1>2, <1>7, <1>8, <1>11, <1>12, <2>1
  <2>2. CASE i = id
    BY <1>1, <1>7, <1>9, <1>10, <2>2 DEF Shows, C
  <2>3. CASE i \in DOMAIN t /\ i # id
    BY <1>7, <1>9, <1>11, <2>3 DEF Shows
  <2> QED BY <1>7, <2>1, <2>2, <2>3
<1> QED BY <1>7, <1>13 DEF Shows, C

\* A record inserted at the top, or below an item whose children are shown.
LEMMA InsertShows ==
    ASSUME NEW c, Sound(c), NEW t, IsTree(t), Shows(t, c), NEW title,
           NEW parent \in DOMAIN t \cup {NoItem}, parent # NoItem => t[parent].expanded,
           NEW d, d = InsertItem(c, parent, title), d.seq \in ItemIds,
           NEW u, u = Inserted(t, {d.seq}, parent)
    PROVE  IsTree(u) /\ Shows(u, d) /\ DOMAIN u = DOMAIN t \cup {d.seq}
<1> DEFINE n == d.seq
<1>1. parent \in Items(c) \cup {FileRecord}
  BY DEF Shows, NoItem
<1>2. /\ n \notin Ids(c) /\ Items(d) = Items(c) \cup {n}
      /\ d.table[n] = Row(parent, title)
      /\ \A i \in Ids(c) : d.table[i] = c.table[i]
      /\ ChildIds(d, parent) = ChildIds(c, parent) \cup {n}
      /\ \A id : id # parent => ChildIds(d, id) = ChildIds(c, id)
  BY <1>1, InsertItemQueries DEF Sound
<1>3. \A i \in DOMAIN t : i \in Items(c) /\ i \in Ids(c)
  BY IdsAreNumbers DEF Shows, Sound
<1>4. n \notin DOMAIN t /\ n # NoItem /\ parent # n
  BY <1>2, <1>3 DEF ItemIds, NoItem
<1>5. /\ DOMAIN u = DOMAIN t \cup {n}
      /\ u[n] = Node(parent)
      /\ \A i \in DOMAIN t : u[i] = t[i]
  BY <1>4 DEF Inserted
<1>6. IsTree(u)
  <2>1. parent \in RecordIds \ {RootRecord}
    BY MaxRecordIdAssumption DEF IsTree, ItemIds, NoItem, RecordIds, RootRecord, FileRecord
  <2> QED BY <2>1, InsertedIsTree
<1> HIDE DEF n
<1>7. Kids(u, parent) = Kids(t, parent) \cup {n}
  BY <1>4, <1>5 DEF Kids, Node
<1>8. ASSUME NEW i, i # parent PROVE Kids(u, i) = Kids(t, i)
  BY <1>4, <1>5, <1>8 DEF Kids, Node
<1>9. Kids(t, n) = {}
  BY <1>4 DEF Shows, Kids
<1>10. ASSUME NEW i \in DOMAIN u
       PROVE  /\ i \in Items(d)
              /\ u[i].under = d.table[i].parent
              /\ u[i].under \in DOMAIN u \cup {NoItem}
              /\ Kids(u, i) = IF u[i].expanded THEN ChildIds(d, i) ELSE {}
  <2>1. CASE i = n
    <3>1. u[n].under = parent /\ u[n].expanded = FALSE /\ d.table[n].parent = parent
      BY <1>2, <1>5 DEF Node, Row
    <3>2. Kids(u, n) = {}
      BY <1>4, <1>8, <1>9
    <3> QED BY <1>2, <1>5, <2>1, <3>1, <3>2
  <2>2. CASE i \in DOMAIN t /\ i = parent
    <3>1. i # NoItem
      BY <1>3, <2>2 DEF Items, NoItem, FileRecord
    <3> QED BY <1>2, <1>3, <1>5, <1>7, <2>2, <3>1 DEF Shows
  <2>3. CASE i \in DOMAIN t /\ i # parent
    BY <1>2, <1>3, <1>5, <1>8, <2>3 DEF Shows
  <2> QED BY <1>5, <2>1, <2>2, <2>3
<1>11. RootIds(d) \subseteq DOMAIN u
  BY <1>2, <1>5 DEF RootIds, Shows
<1> QED BY <1>5, <1>6, <1>10, <1>11 DEF Shows, n

\* A record inserted in the table below an item that was never expanded leaves
\* the tree right: it is read with the others when the item is expanded.
LEMMA UnexpandedShows ==
    ASSUME NEW c, Sound(c), NEW t, Shows(t, c), NEW title,
           NEW parent \in DOMAIN t, ~t[parent].expanded,
           NEW d, d = InsertItem(c, parent, title)
    PROVE  Shows(t, d)
<1>1. parent \in Items(c) /\ parent # FileRecord
  BY DEF Shows, Items, FileRecord
<1>2. /\ Items(d) = Items(c) \cup {d.seq}
      /\ \A i \in Ids(c) : d.table[i] = c.table[i]
      /\ \A id : id # parent => ChildIds(d, id) = ChildIds(c, id)
  BY <1>1, InsertItemQueries DEF Sound
<1>3. \A i \in DOMAIN t : i \in Ids(c)
  BY IdsAreNumbers DEF Shows, Sound
<1> QED BY <1>1, <1>2, <1>3 DEF Shows, RootIds

\* A statement that leaves ids and parents alone leaves the tree right.
LEMMA ShapeShows ==
    ASSUME NEW c, IsContent(c), NEW t, Shows(t, c), NEW d, SameShape(c, d)
    PROVE  Shows(t, d)
<1>1. Items(d) = Items(c) /\ \A id : ChildIds(d, id) = ChildIds(c, id)
  BY ShapeQueries
<1>2. \A i \in DOMAIN t : d.table[i].parent = c.table[i].parent
  BY IdsAreNumbers DEF Shows, SameShape
<1> QED BY <1>1, <1>2 DEF Shows, RootIds

-----------------------------------------------------------------------------
(* Deleting an item *)

\* The items that go with a tree item are those whose records the cascade
\* removes, as far as they are shown.
LEMMA HangingIsSubtree ==
    ASSUME NEW c, Sound(c), NEW t, Shows(t, c), NEW id \in DOMAIN t
    PROVE  Hanging(t, id) = Subtree(c, id) \cap DOMAIN t
<1>1. /\ DOMAIN t \subseteq Items(c) /\ Items(c) \subseteq Ids(c)
      /\ \A j \in DOMAIN t : t[j].under = c.table[j].parent
      /\ \A j \in DOMAIN t : t[j].under \in Items(c) => t[j].under \in DOMAIN t
  <2>1. NoItem \notin Items(c)
    BY DEF Items, NoItem, FileRecord
  <2> QED BY <2>1, IdsAreNumbers DEF Shows, Sound
<1>2. ASSUME NEW i \in Hanging(t, id) PROVE i \in Subtree(c, id) \cap DOMAIN t
  <2> SUFFICES ASSUME NEW S \in SUBSET Ids(c), id \in S,
                      \A j \in Ids(c) : c.table[j].parent \in S => j \in S
               PROVE  i \in S
    BY <1>1 DEF Hanging, Subtree
  <2> DEFINE T == S \cap DOMAIN t
  <2>1. T \in SUBSET DOMAIN t /\ id \in T
    OBVIOUS
  <2>2. \A j \in DOMAIN t : t[j].under \in T => j \in T
    BY <1>1
  <2>3. i \in T
    BY <2>1, <2>2 DEF Hanging
  <2> QED BY <2>3
<1>3. ASSUME NEW i \in Subtree(c, id) \cap DOMAIN t PROVE i \in Hanging(t, id)
  <2> SUFFICES ASSUME NEW S \in SUBSET DOMAIN t, id \in S,
                      \A j \in DOMAIN t : t[j].under \in S => j \in S
               PROVE  i \in S
    BY DEF Hanging
  <2> DEFINE T == S \cup (Items(c) \ DOMAIN t)
  <2>1. T \in SUBSET Ids(c) /\ id \in T /\ T \subseteq Items(c)
    BY <1>1
  <2>2. ASSUME NEW j \in Ids(c), c.table[j].parent \in T PROVE j \in T
    <3>1. c.table[j].parent \in Items(c)
      BY <2>1, <2>2
    <3>2. j \in Items(c)
      BY <3>1, IdsAreNumbers
         DEF Sound, WellFormedTree, HasRoots, Items, RootRecord, FileRecord
    <3>3. CASE j \notin DOMAIN t
      BY <3>2, <3>3
    <3>4. CASE j \in DOMAIN t
      BY <1>1, <2>2, <3>1, <3>4
    <3> QED BY <3>3, <3>4
  <2>3. i \in T
    BY <2>1, <2>2 DEF Subtree
  <2> QED BY <2>3
<1> QED BY <1>2, <1>3

\* Tree item and record go together: the tree that is left shows the content
\* that is left, whether or not the parent counts as expanded afterwards.
LEMMA DeleteShows ==
    ASSUME NEW c, Sound(c), NEW t, IsTree(t), Shows(t, c), NEW id \in DOMAIN t,
           NEW u \in Deleted(t, id), NEW d, d = RemoveItem(c, id)
    PROVE  IsTree(u) /\ Shows(u, d) /\ DOMAIN u = DOMAIN t \ Subtree(c, id)
<1> DEFINE D == Subtree(c, id)
           rest == [i \in DOMAIN t \ Hanging(t, id) |-> t[i]]
           p == t[id].under
<1>1. id \in Items(c)
  BY DEF Shows
<1>2. /\ Items(d) = Items(c) \ D
      /\ \A i \in Ids(d) : i \in Ids(c) /\ d.table[i] = c.table[i]
      /\ \A i : ChildIds(d, i) = ChildIds(c, i) \ D
  BY <1>1, RemoveItemQueries DEF Sound
<1>3. \A i \in Items(d) : d.table[i].parent = c.table[i].parent
  BY <1>2 DEF Items
<1>4. /\ DOMAIN rest = DOMAIN t \ D
      /\ \A i \in DOMAIN t \ D : rest[i] = t[i]
  BY HangingIsSubtree
<1>5. IsTree(rest)
  BY DEF IsTree
<1> HIDE DEF rest
<1>6. \A i : Kids(rest, i) = Kids(t, i) \ D
  BY <1>4 DEF Kids
<1>7. \A i \in DOMAIN t : t[i].under \in D => i \in D
  <2>1. \A i \in DOMAIN t : i \in Ids(c) /\ t[i].under = c.table[i].parent
    BY IdsAreNumbers DEF Shows, Sound
  <2> QED BY <1>1, <2>1, SubtreeIsBelow DEF Sound
<1>8. ASSUME NEW i \in DOMAIN rest
      PROVE  /\ i \in Items(d)
             /\ rest[i].under = d.table[i].parent
             /\ rest[i].under \in DOMAIN rest \cup {NoItem}
             /\ Kids(rest, i) = IF rest[i].expanded THEN ChildIds(d, i) ELSE {}
  <2>1. i \in DOMAIN t /\ i \notin D /\ rest[i] = t[i]
    BY <1>4
  <2>2. /\ i \in Items(c) /\ t[i].under = c.table[i].parent
        /\ t[i].under \in DOMAIN t \cup {NoItem}
        /\ Kids(t, i) = IF t[i].expanded THEN ChildIds(c, i) ELSE {}
    BY <2>1 DEF Shows
  <2>3. i \in Items(d)
    BY <1>2, <2>1, <2>2
  <2>4. rest[i].under \in DOMAIN rest \cup {NoItem}
    BY <1>4, <1>7, <2>1, <2>2
  <2>5. Kids(rest, i) = IF rest[i].expanded THEN ChildIds(d, i) ELSE {}
    BY <1>2, <1>6, <2>1, <2>2
  <2> QED BY <1>3, <2>1, <2>2, <2>3, <2>4, <2>5
<1>9. RootIds(d) \subseteq DOMAIN rest
  BY <1>2, <1>4 DEF RootIds, Shows
<1>10. Shows(rest, d)
  BY <1>8, <1>9 DEF Shows
<1>11. CASE u = rest
  BY <1>4, <1>5, <1>10, <1>11
<1>12. CASE p # NoItem /\ Kids(rest, p) = {} /\ u = [rest EXCEPT ![p].expanded = FALSE]
  <2>1. rest \in [DOMAIN rest -> [under : RecordIds \ {RootRecord}, expanded : BOOLEAN]]
        /\ DOMAIN rest \subseteq ItemIds
    BY <1>5 DEF IsTree
  <2>2. DOMAIN u = DOMAIN rest
    BY <1>12
  <2>3. \A i \in DOMAIN rest : u[i].under = rest[i].under /\ (i # p => u[i] = rest[i])
    BY <1>12, <2>1
  <2>4. p \in DOMAIN rest => u[p].expanded = FALSE
    BY <1>12, <2>1
  <2>5. u \in [DOMAIN rest -> [under : RecordIds \ {RootRecord}, expanded : BOOLEAN]]
    BY <1>12, <2>1
  <2>6. \A i : Kids(u, i) = Kids(rest, i)
    BY <2>2, <2>3 DEF Kids
  <2>7. Shows(u, d)
    <3>1. ASSUME NEW i \in DOMAIN u
          PROVE  Kids(u, i) = IF u[i].expanded THEN ChildIds(d, i) ELSE {}
      <4>1. CASE i = p
        BY <1>12, <2>2, <2>4, <2>6, <4>1
      <4>2. CASE i # p
        BY <1>10, <2>2, <2>3, <2>6, <4>2 DEF Shows
      <4> QED BY <4>1, <4>2
    <3> QED BY <1>10, <2>2, <2>3, <3>1 DEF Shows
  <2> QED BY <1>4, <2>1, <2>2, <2>5, <2>7 DEF IsTree
<1>13. u = rest \/ (p # NoItem /\ Kids(rest, p) = {} /\ u = [rest EXCEPT ![p].expanded = FALSE])
  BY DEF Deleted, rest
<1> QED BY <1>11, <1>12, <1>13

\* The selection moves to an item that is left, or to none when none is left.
LEMMA DeleteSelects ==
    ASSUME NEW c, Sound(c), NEW t, IsTree(t), Shows(t, c), NEW id \in DOMAIN t,
           NEW new \in SelectedAfterDelete(t, id),
           NEW left, left = DOMAIN t \ Subtree(c, id)
    PROVE  /\ new \in left \cup {NoItem}
           /\ new = NoItem <=> left = {}
<1> DEFINE D == Subtree(c, id)
           p == t[id].under
           siblings == Kids(t, p) \ {id}
<1>1. /\ DOMAIN t \subseteq Items(c) /\ Items(c) \subseteq Nat \ {0}
      /\ \A j \in DOMAIN t : t[j].under = c.table[j].parent
      /\ \A j \in DOMAIN t : t[j].under \in DOMAIN t \cup {NoItem}
      /\ \A j \in DOMAIN t : t[j].under < j
  BY IdsAreNumbers, ParentOfItem DEF Shows, Sound
<1>2. /\ \A j \in D : j \in Items(c) /\ j >= id
      /\ \A j \in DOMAIN t : t[j].under \in D => j \in D
      /\ id \in D
  <2>1. \A j \in DOMAIN t : j \in Ids(c)
    BY <1>1, IdsAreNumbers DEF Sound
  <2> QED BY <1>1, <2>1, SubtreeIsBelow DEF Sound
<1>3. p \notin D
  BY <1>1, <1>2 DEF NoItem, FileRecord
<1>4. ASSUME NEW j \in D \cap DOMAIN t, j # id PROVE t[j].under \in D
  <2> DEFINE S == {k \in Ids(c) : k = id \/ c.table[k].parent \in D}
  <2>1. D \subseteq Ids(c)
    BY DEF Subtree
  <2>2. S \in SUBSET Ids(c) /\ id \in S
    BY <1>2, <2>1
  <2>3. S \subseteq D
    BY <1>1, <1>2, SubtreeIsBelow DEF Sound
  <2>4. \A k \in Ids(c) : c.table[k].parent \in S => k \in S
    BY <2>3
  <2>5. j \in S
    BY <2>2, <2>4 DEF Subtree
  <2> QED BY <1>1, <1>4, <2>5
<1>5. CASE siblings # {}
  <2>1. new \in siblings
    BY <1>5 DEF SelectedAfterDelete
  <2>2. new \in DOMAIN t /\ t[new].under = p /\ new # id
    BY <2>1 DEF Kids
  <2>3. new \notin D
    BY <1>3, <1>4, <2>2
  <2> QED BY <1>1, <2>2, <2>3 DEF NoItem, FileRecord
<1>6. CASE siblings = {}
  <2>1. new = p
    BY <1>6 DEF SelectedAfterDelete
  <2>2. CASE p # NoItem
    BY <1>1, <1>3, <2>1, <2>2
  <2>3. CASE p = NoItem
    <3> SUFFICES ASSUME left # {} PROVE FALSE
      BY <2>1, <2>3
    <3>1. left \subseteq Nat
      BY <1>1
    <3>2. PICK i \in left : \A j \in left : i <= j
      BY <3>1, LeastNatural
    <3>3. i \in DOMAIN t /\ i \notin D
      BY <3>2
    <3>4. t[i].under \in DOMAIN t \cup {NoItem} /\ t[i].under < i
      BY <1>1, <3>3
    <3>5. t[i].under # NoItem
      <4>1. i \notin Kids(t, NoItem) \ {id}
        BY <1>6, <2>3
      <4> QED BY <1>2, <3>3, <4>1 DEF Kids
    <3>6. t[i].under \in left
      BY <1>2, <3>3, <3>4, <3>5
    <3>7. i <= t[i].under
      BY <3>2, <3>6
    <3> QED BY <1>1, <3>3, <3>4, <3>5, <3>6, <3>7
  <2> QED BY <2>2, <2>3
<1> QED BY <1>5, <1>6

-----------------------------------------------------------------------------
(* The edit control *)

EditType ==
    [text : EditTexts, modified : BOOLEAN, readonly : BOOLEAN, of : RecordIds \ {RootRecord}]

\* d is c but for the notes of record id.
Written(c, d, id) ==
    /\ IsContent(d) /\ SameShape(c, d)
    /\ \A i \in Ids(c) :
          /\ d.table[i].readonly = c.table[i].readonly
          /\ i # id => d.table[i].notes = c.table[i].notes

\* Trimming gives a text, and trimming it again changes nothing.
LEMMA TrimmedTwice ==
    ASSUME NEW text \in EditTexts
    PROVE  Trimmed(text) \in Texts /\ Trimmed(Trimmed(text)) = Trimmed(text)
BY TrimAssumption DEF EditTexts, Trimmed

\* The control takes the notes and the protection of the record.
LEMMA CallbackType ==
    ASSUME NEW c, IsContent(c), NEW id \in Ids(c) \ {RootRecord}, NEW readWrite \in BOOLEAN
    PROVE  RecordCallback(c, id, readWrite) \in EditType
<1>1. c.table[id].notes \in Texts /\ c.table[id].readonly \in BOOLEAN /\ id \in RecordIds
  BY DEF IsContent, IsTable, Ids, Record
<1> QED BY <1>1 DEF RecordCallback, EditType, EditTexts

\* An emptied control.
LEMMA ClearedType ==
    ASSUME NEW readonly \in BOOLEAN
    PROVE  ClearedEdit(readonly) \in EditType
BY TextsAssumption, MaxRecordIdAssumption
   DEF ClearedEdit, EditType, EditTexts, NoItem, RecordIds, RootRecord, FileRecord

\* Nothing is written when nothing was typed.
LEMMA WrittenNothing ==
    ASSUME NEW c, IsContent(c), NEW id
    PROVE  Written(c, c, id)
BY DEF Written, SameShape

\* SaveNotesChanges writes the notes of its record and nothing else.
LEMMA NotesAreWritten ==
    ASSUME TypeOK, NEW c, IsContent(c), NEW id \in Ids(c)
    PROVE  /\ Written(c, SaveNotesChanges(c, id), id)
           /\ edit.modified => SaveNotesChanges(c, id).table[id].notes = Trimmed(edit.text)
           /\ ~edit.modified => SaveNotesChanges(c, id) = c
<1>1. Trimmed(edit.text) \in Texts
  BY TrimmedTwice DEF TypeOK
<1>2. CASE ~edit.modified
  BY <1>2, WrittenNothing DEF SaveNotesChanges
<1>3. CASE edit.modified
  <2>1. SaveNotesChanges(c, id) = UpdateNotes(c, id, Trimmed(edit.text))
    BY <1>3 DEF SaveNotesChanges
  <2>2. IsContent(UpdateNotes(c, id, Trimmed(edit.text)))
    BY <1>1, UpdateNotesType
  <2> QED BY <1>3, <2>1, <2>2, UpdateNotesShape DEF Written
<1> QED BY <1>2, <1>3

\* So does the selection's notification, for the record it leaves, in a file
\* that can be written.
LEMMA SelChangeWrites ==
    ASSUME TypeOK, NEW c, IsContent(c), caret \in Ids(c), NEW new
    PROVE  /\ Written(c, NotesSavedOnSelChange(c, new), caret)
           /\ edit.modified /\ rw =>
                 NotesSavedOnSelChange(c, new).table[caret].notes = Trimmed(edit.text)
           /\ ~edit.modified \/ ~rw => NotesSavedOnSelChange(c, new) = c
BY NotesAreWritten, WrittenNothing DEF NotesSavedOnSelChange

\* And Save and Yes, which need a selected item.
LEMMA SaveWrites ==
    ASSUME TypeOK, NEW c, IsContent(c), caret # NoItem => caret \in Ids(c)
    PROVE  /\ Written(c, SaveNotesIfModified(c), caret)
           /\ edit.modified /\ caret # NoItem =>
                 SaveNotesIfModified(c).table[caret].notes = Trimmed(edit.text)
           /\ ~edit.modified \/ caret = NoItem => SaveNotesIfModified(c) = c
BY NotesAreWritten, WrittenNothing DEF SaveNotesIfModified

-----------------------------------------------------------------------------
(* What the invariant says of the selected item *)

\* The selected item is a record of the table, under its parent.
LEMMA CaretIsItem ==
    ASSUME EditorInv, open, NEW id \in DOMAIN nodes
    PROVE  /\ id \in Items(work) /\ id \in Ids(work) /\ id # NoItem /\ id # RootRecord
           /\ id \in ItemIds
           /\ nodes[id].under = work.table[id].parent
           /\ nodes[id].under \in DOMAIN nodes \cup {NoItem}
<1>1. Sound(work) /\ Shows(nodes, work)
  BY DEF EditorInv, OpenFile
<1>2. id \in Items(work)
  BY <1>1 DEF Shows
<1> QED
  BY <1>1, <1>2, IdsAreNumbers, ItemsAreItemIds
     DEF Shows, Sound, Items, NoItem, RootRecord, FileRecord

\* Selected or not, lParam is the id of a record.
LEMMA CaretIsRecord ==
    ASSUME EditorInv, open
    PROVE  caret \in Ids(work) /\ caret # RootRecord
<1>1. CASE caret = NoItem
  BY <1>1 DEF EditorInv, OpenFile, Sound, WellFormedTree, HasRoots, NoItem, RootRecord,
       FileRecord
<1>2. CASE caret # NoItem
  BY <1>2, CaretIsItem DEF EditorInv, TypeOK
<1> QED BY <1>1, <1>2

\* A statement that leaves ids and parents alone leaves the tree right.
LEMMA ShapeKeepsOpenFile ==
    ASSUME EditorInv, open, UNCHANGED <<open, nodes, caret>>,
           IsContent(work'), SameShape(work, work')
    PROVE  OpenFile'
<1>1. Sound(work) /\ Shows(nodes, work)
  BY DEF EditorInv, OpenFile
<1>2. Sound(work') /\ Shows(nodes, work')
  BY <1>1, SoundOfShape, ShapeShows DEF Sound
<1> QED BY <1>2 DEF EditorInv, OpenFile

-----------------------------------------------------------------------------
(* Opening and closing *)

\* A new file is a content the editor may work on.
LEMMA SoundCreate == Sound(CreateSchema)
<1>1. Items(CreateSchema) = {}
  BY DEF CreateSchema, Items, Ids, RootRecord, FileRecord
<1>2. Cardinality(Items(CreateSchema)) = 0
  BY <1>1, FS_EmptySet
<1>3. CreateSchema.schema = DbSchemaVersion
  BY DEF CreateSchema
<1> QED
  BY <1>1, <1>2, <1>3, CreateSchemaType, CreateSchemaIntegrity, LimitsAssumption
     DEF Sound, IntegrityOK, WithinLimitsContent

\* So is a file after DbUpgradeSchema.
LEMMA SoundUpgraded ==
    ASSUME NEW file \in Files
    PROVE  Sound(Upgraded(file))
<1>1. CASE file.schema = 0
  BY <1>1, SoundCreate DEF Upgraded
<1>2. CASE file.schema # 0
  <2>1. file.schema = DbSchemaVersion
    BY <1>2, FilesAssumption
  <2> QED BY <1>2, <2>1, FilesAssumption DEF Upgraded, Sound
<1> QED BY <1>1, <1>2

\* LoadRootNodes brings all views in step with the content it is given.
LEMMA LoadRootsKeeps ==
    ASSUME EditorInv, NEW c, Sound(c), open' = TRUE, rw' \in BOOLEAN, work' = c,
           dirty' \in BOOLEAN, LoadRootNodes(c), label' \in {NoItem, caret'},
           label' # NoItem => rw',
           command' \in Commands
    PROVE  EditorInv'
<1>1. /\ IsTree(nodes') /\ Shows(nodes', c) /\ DOMAIN nodes' = RootIds(c)
  BY RootsShown DEF LoadRootNodes
<1>2. CASE RootIds(c) = {}
  <2>1. caret' = NoItem /\ edit' = edit
    BY <1>2 DEF LoadRootNodes
  <2>2. nodes' = EmptyTree
    BY <1>1, <1>2, EmptyTreeUnique
  <2>3. TypeOK'
    BY <1>1, <2>1 DEF EditorInv, TypeOK, IsTree, Sound
  <2>4. OpenFile'
    BY <1>1, <2>1, <2>2 DEF OpenFile
  <2> QED
    BY <2>1, <2>3, <2>4 DEF EditorInv, ClosedFile, EditShowsSelected, TypedIfWritable
<1>3. CASE RootIds(c) # {}
  <2> DEFINE first == FirstChild(c, FileRecord)
  <2>1. caret' = first /\ edit' = RecordCallback(c, first, rw')
    BY <1>3 DEF LoadRootNodes
  <2>2. first \in RootIds(c)
    BY <1>3, FirstChildIsYoungest DEF RootIds, Sound
  <2>3. first \in Ids(c) \ {RootRecord} /\ first # NoItem
    <3>1. first \in Items(c)
      BY <2>2, ChildrenAreItems DEF RootIds, Sound
    <3> QED BY <3>1 DEF Items, RootRecord, NoItem, FileRecord
  <2>4. edit' \in EditType
    BY <2>1, <2>3, CallbackType DEF Sound
  <2> HIDE DEF first
  <2>5. TypeOK'
    BY <1>1, <2>1, <2>2, <2>4 DEF TypeOK, EditType, IsTree, Sound
  <2>6. nodes' # EmptyTree
    BY <1>1, <1>3, EmptyTreeIsTree
  <2>7. OpenFile'
    BY <1>1, <2>1, <2>3, <2>6 DEF OpenFile
  <2>8. /\ edit'.of = first /\ edit'.modified = FALSE /\ edit'.text = c.table[first].notes
        /\ edit'.readonly = (c.table[first].readonly \/ ~rw')
    BY <2>1 DEF RecordCallback
  <2>9. EditShowsSelected'
    BY <2>1, <2>8 DEF EditShowsSelected
  <2> QED BY <2>5, <2>7, <2>8, <2>9 DEF EditorInv, ClosedFile, TypedIfWritable
<1> QED BY <1>2, <1>3

\* OpenFileInternal
LEMMA OpenKeeps ==
    ASSUME EditorInv, NEW file \in Files, NEW readWrite \in BOOLEAN,
           OpenFileInternal(file, readWrite)
    PROVE  EditorInv'
<1> DEFINE c == Upgraded(file)
<1>1. Sound(c)
  BY SoundUpgraded
<1> HIDE DEF c
<1>2. /\ open' = TRUE /\ rw' = readWrite /\ work' = c /\ dirty' \in BOOLEAN
      /\ LoadRootNodes(c) /\ label' = NoItem /\ command' = "open"
  BY DEF OpenFileInternal, c
<1> QED BY <1>1, <1>2, LoadRootsKeeps DEF Commands

\* AppNewFile: the title and the description, and an item if there was none.
LEMMA NewFileKeeps ==
    ASSUME EditorInv, NEW file \in Files, NEW readWrite \in BOOLEAN,
           NEW title \in Texts, NEW description \in Texts,
           AppNewFile(file, readWrite, title, description)
    PROVE  EditorInv'
<1> DEFINE details == IF readWrite
                      THEN UpdateFileDetails(Upgraded(file), title, description)
                      ELSE file
           addItem == Items(details) = {} /\ readWrite /\ details.seq < MaxRecordId
           c == IF addItem THEN InsertItem(details, FileRecord, NewItemTitle) ELSE details
<1>1. /\ open' = TRUE /\ rw' = readWrite /\ work' = c /\ dirty' \in BOOLEAN
      /\ LoadRootNodes(c) /\ label' = (IF addItem THEN c.seq ELSE NoItem)
      /\ command' = "open" /\ (file.schema = 0 => readWrite)
  BY DEF AppNewFile
<1>2. Sound(details)
  <2> DEFINE u == Upgraded(file)
             w == UpdateFileDetails(u, title, description)
  <2>1. Sound(u)
    BY SoundUpgraded
  <2>2. CASE readWrite
    <3>1. FileRecord \in Ids(u)
      BY <2>1 DEF Sound, WellFormedTree, HasRoots
    <3> HIDE DEF u
    <3>2. IsContent(w) /\ SameShape(u, w)
      BY <2>1, <3>1, UpdateFileDetailsType, UpdateFileDetailsShape DEF Sound
    <3>3. Sound(w)
      BY <2>1, <3>2, SoundOfShape
    <3> QED BY <2>2, <3>3 DEF u
  <2>3. CASE ~readWrite
    <3>1. u = file
      BY <1>1, <2>3 DEF Upgraded
    <3> QED BY <2>1, <2>3, <3>1
  <2> QED BY <2>2, <2>3
<1> HIDE DEF details
<1>3. CASE ~addItem
  <2>1. c = details /\ label' = NoItem
    BY <1>1, <1>3
  <2> HIDE DEF addItem, c
  <2> QED BY <1>1, <1>2, <2>1, LoadRootsKeeps DEF Commands
<1>4. CASE addItem
  <2> DEFINE d == InsertItem(details, FileRecord, NewItemTitle)
  <2>1. c = d /\ label' = d.seq /\ Items(details) = {} /\ details.seq < MaxRecordId /\ rw'
    BY <1>1, <1>4
  <2>2. Cardinality(Items(details)) < MaxRecordCount
    <3>1. Cardinality(Items(details)) = 0
      BY <2>1, FS_EmptySet
    <3> QED BY <3>1, LimitsAssumption
  <2>3. Sound(d)
    BY <1>2, <2>1, <2>2, SoundInsert, TextsAssumption
  <2>4. /\ Items(d) = {d.seq} /\ ChildIds(d, FileRecord) = ChildIds(details, FileRecord) \cup {d.seq}
    BY <1>2, <2>1, InsertItemQueries DEF Sound
  <2> HIDE DEF addItem, c, d
  <2>5. RootIds(d) # {} /\ RootIds(d) \subseteq {d.seq}
    BY <2>3, <2>4, ChildrenAreItems DEF RootIds, Sound
  <2>6. FirstChild(d, FileRecord) = d.seq
    BY <2>3, <2>5, FirstChildIsYoungest DEF RootIds, Sound
  <2>7. caret' = d.seq
    BY <1>1, <2>1, <2>5, <2>6 DEF LoadRootNodes
  <2> QED BY <1>1, <2>1, <2>3, <2>7, LoadRootsKeeps DEF Commands
<1> QED BY <1>3, <1>4

\* AppCloseFile
LEMMA CloseKeeps ==
    ASSUME EditorInv, AppCloseFile
    PROVE  EditorInv'
<1>1. /\ open /\ open' = FALSE /\ rw' = rw /\ dirty' = FALSE
      /\ nodes' = EmptyTree /\ caret' = NoItem /\ label' = NoItem
      /\ edit' \in {ClearedEdit(edit.readonly), ClearedEdit(~rw)}
      /\ work' \in {SaveNotesIfModified(work), CreateSchema, work}
      /\ command' \in Commands
  BY DEF AppCloseFile, ClearWorkspace, EditAfterClear, DbClose, RolledBack, Commands
<1>2. rw \in BOOLEAN /\ edit.readonly \in BOOLEAN
  BY DEF EditorInv, TypeOK
<1>3. edit' \in EditType
  BY <1>1, <1>2, ClearedType
<1>4. IsContent(work')
  <2>1. TypeOK /\ IsContent(work)
    BY DEF EditorInv, TypeOK
  <2>2. IsContent(SaveNotesIfModified(work))
    BY <1>1, <2>1, CaretIsRecord, SaveWrites DEF Written
  <2> QED BY <1>1, <2>1, <2>2, CreateSchemaType
<1>5. TypeOK'
  BY <1>1, <1>2, <1>3, <1>4, EmptyTreeIsTree DEF TypeOK, EditType, IsTree
<1> QED
  BY <1>1, <1>5 DEF EditorInv, OpenFile, ClosedFile, EditShowsSelected, TypedIfWritable

-----------------------------------------------------------------------------
(* Working in the tree *)

\* The selection moves in a tree that shows the content: the notes of the item
\* it leaves are written, and the control takes those of the new one.
LEMMA SelectionKeeps ==
    ASSUME EditorInv, open, NEW c, Sound(c), caret \in Ids(c), NEW new, SelChanged(c, new),
           IsTree(nodes'), Shows(nodes', c), new \in DOMAIN nodes', label' \in {NoItem, new},
           label' # NoItem => rw,
           open' = open, rw' = rw, dirty' \in BOOLEAN, command' \in Commands
    PROVE  EditorInv'
<1> DEFINE d == NotesSavedOnSelChange(c, new)
<1>1. caret' = new /\ edit' = RecordCallback(d, new, rw) /\ work' = d
  BY DEF SelChanged
<1>2. TypeOK /\ rw \in BOOLEAN
  BY DEF EditorInv, TypeOK
<1>3. Written(c, d, caret)
  BY <1>2, SelChangeWrites DEF Sound
<1> HIDE DEF d
<1>4. Sound(d) /\ Shows(nodes', d)
  BY <1>3, SoundOfShape, ShapeShows DEF Written, Sound
<1>5. new \in Ids(d) \ {RootRecord} /\ new # NoItem
  <2>1. new \in Items(d)
    BY <1>4 DEF Shows
  <2> QED BY <2>1 DEF Items, RootRecord, NoItem, FileRecord
<1>6. edit' \in EditType
  BY <1>1, <1>2, <1>4, <1>5, CallbackType DEF Sound
<1>7. TypeOK'
  BY <1>1, <1>2, <1>4, <1>6 DEF TypeOK, EditType, IsTree, Sound
<1>8. nodes' # EmptyTree
  BY EmptyTreeIsTree
<1>9. OpenFile'
  BY <1>1, <1>4, <1>5, <1>8 DEF OpenFile
<1>10. /\ edit'.of = new /\ edit'.modified = FALSE /\ edit'.text = d.table[new].notes
       /\ edit'.readonly = (d.table[new].readonly \/ ~rw')
  BY <1>1 DEF RecordCallback
<1>11. EditShowsSelected'
  BY <1>1, <1>10 DEF EditShowsSelected
<1> QED BY <1>7, <1>9, <1>10, <1>11 DEF EditorInv, ClosedFile, TypedIfWritable

\* Another item is selected.
LEMMA SelectKeeps ==
    ASSUME EditorInv, NEW id, Select(id)
    PROVE  EditorInv'
<1>1. /\ open /\ id \in DOMAIN nodes /\ SelChanged(work, id) /\ dirty' \in BOOLEAN
      /\ command' = "other" /\ UNCHANGED <<open, rw, nodes, label>> /\ label = NoItem
  BY DEF Select, InTree, MarkDirty, EditorInv, TypeOK
<1>2. Sound(work) /\ Shows(nodes, work) /\ IsTree(nodes)
  BY <1>1 DEF EditorInv, OpenFile, TypeOK, IsTree
<1> QED BY <1>1, <1>2, CaretIsRecord, SelectionKeeps DEF Commands

\* An item is expanded for the first time.
LEMMA ExpandKeeps ==
    ASSUME EditorInv, NEW id, Expand(id)
    PROVE  EditorInv'
<1>1. /\ open /\ id \in DOMAIN nodes /\ ~nodes[id].expanded /\ command' = "other"
      /\ nodes' = LoadChildNodes(nodes, work, id)
      /\ UNCHANGED <<open, rw, work, dirty, caret, label, edit>>
  BY DEF Expand, InTree
<1>2. Sound(work) /\ Shows(nodes, work) /\ IsTree(nodes) /\ caret # NoItem
  <2>1. nodes # EmptyTree
    BY <1>1, EmptyTreeIsTree
  <2> QED BY <1>1, <2>1 DEF EditorInv, OpenFile, TypeOK, IsTree
<1>3. IsTree(nodes') /\ Shows(nodes', work) /\ DOMAIN nodes' = DOMAIN nodes \cup ChildIds(work, id)
  BY <1>1, <1>2, ExpandShows
<1>4. nodes' # EmptyTree
  BY <1>1, <1>3, EmptyTreeIsTree
<1>5. TypeOK'
  BY <1>1, <1>3 DEF EditorInv, TypeOK, IsTree, Commands
<1>6. OpenFile'
  BY <1>1, <1>2, <1>3, <1>4 DEF OpenFile
<1> QED
  BY <1>1, <1>5, <1>6 DEF EditorInv, ClosedFile, EditShowsSelected, TypedIfWritable

\* A new record next to the selected one: its siblings are shown, and it is on
\* the level of the selected one.
LEMMA NewItemKeeps ==
    ASSUME EditorInv, NewItem
    PROVE  EditorInv'
<1> DEFINE under == IF caret = NoItem THEN NoItem ELSE nodes[caret].under
           added == InsertItem(work, under, NewItemTitle)
<1>1. /\ open /\ Cardinality(Items(work)) < MaxRecordCount /\ work.seq < MaxRecordId
      /\ nodes' = Inserted(nodes, {added.seq}, under)
      /\ SelChanged(added, added.seq) /\ label' = added.seq /\ rw
      /\ dirty' \in BOOLEAN /\ command' = "other" /\ UNCHANGED <<open, rw>>
  BY DEF NewItem, InTree, CanAddItem, MarkDirty, EditorInv, TypeOK
<1>2. Sound(work) /\ Shows(nodes, work) /\ IsTree(nodes)
  BY <1>1 DEF EditorInv, OpenFile, TypeOK, IsTree
<1>3. /\ under \in DOMAIN nodes \cup {NoItem}
      /\ under # NoItem => nodes[under].expanded /\ RecordLevel(work, under) < MaxLevelDepth
  <2>1. CASE caret = NoItem
    BY <2>1
  <2>2. CASE caret # NoItem
    <3>1. caret \in DOMAIN nodes
      BY <2>2 DEF EditorInv, TypeOK
    <3>2. /\ caret \in Items(work) /\ under = nodes[caret].under
          /\ under = work.table[caret].parent /\ under \in DOMAIN nodes \cup {NoItem}
      BY <1>1, <2>2, <3>1, CaretIsItem
    <3>3. ASSUME under # NoItem
          PROVE  nodes[under].expanded /\ RecordLevel(work, under) < MaxLevelDepth
      <4>1. under \in DOMAIN nodes /\ caret \in Kids(nodes, under)
        BY <3>1, <3>2, <3>3 DEF Kids
      <4>2. nodes[under].expanded
        BY <1>2, <4>1 DEF Shows
      <4>3. RecordLevel(work, caret) = 1 + RecordLevel(work, under)
        BY <1>2, <3>2, <3>3, LevelOfItem DEF Sound, NoItem
      <4>4. under \in Items(work)
        BY <1>1, <4>1, CaretIsItem
      <4>5. RecordLevel(work, caret) \in 1 .. MaxLevelDepth
            /\ RecordLevel(work, under) \in 1 .. MaxLevelDepth
        BY <1>2, <3>2, <4>4 DEF Sound, WithinLimitsContent
      <4> QED BY <4>2, <4>3, <4>5, LimitsAssumption
    <3> QED BY <3>2, <3>3
  <2> QED BY <2>1, <2>2
<1> HIDE DEF under
<1>4. under \in Items(work) \cup {FileRecord}
  BY <1>1, <1>3, CaretIsItem DEF NoItem
<1>5. Sound(added)
  BY <1>1, <1>2, <1>3, <1>4, SoundInsert, TextsAssumption DEF NoItem
<1>6. /\ Items(added) = Items(work) \cup {added.seq} /\ caret \in Ids(added)
      /\ added.seq \in ItemIds
  <2>1. Items(added) = Items(work) \cup {added.seq}
    BY <1>2, <1>4, InsertItemQueries DEF Sound
  <2>2. Ids(work) \subseteq Ids(added)
    BY DEF InsertItem, Ids
  <2>3. caret \in Ids(work)
    BY <1>1, CaretIsRecord
  <2>4. added.seq \in ItemIds
    BY <1>5, <2>1, ItemsAreItemIds DEF Sound
  <2> QED BY <2>1, <2>2, <2>3, <2>4
<1>7. IsTree(nodes') /\ Shows(nodes', added) /\ DOMAIN nodes' = DOMAIN nodes \cup {added.seq}
  BY <1>1, <1>2, <1>3, <1>6, InsertShows
<1> HIDE DEF added
<1> QED BY <1>1, <1>5, <1>6, <1>7, SelectionKeeps DEF Commands

\* A new record below the selected one, above the last level.  The tree may
\* have read it with its siblings; it is the youngest of them.
LEMMA NewSubitemKeeps ==
    ASSUME EditorInv, NewSubitem
    PROVE  EditorInv' /\ caret' = work'.seq
<1> DEFINE added == InsertItem(work, caret, NewItemTitle)
           new == IF nodes[caret].expanded THEN added.seq ELSE FirstChild(added, caret)
<1>1. /\ open /\ Cardinality(Items(work)) < MaxRecordCount /\ work.seq < MaxRecordId
      /\ caret # NoItem /\ RecordLevel(work, caret) \in 1 .. MaxLevelDepth - 1
      /\ nodes' = TreeWithSubitem(added, caret)
      /\ SelChanged(added, new) /\ label' = new /\ rw
      /\ dirty' \in BOOLEAN /\ command' = "other" /\ UNCHANGED <<open, rw>>
  BY DEF NewSubitem, CanAddSubitem, InTree, CanAddItem, MarkDirty, EditorInv, TypeOK
<1>2. Sound(work) /\ Shows(nodes, work) /\ IsTree(nodes)
  BY <1>1 DEF EditorInv, OpenFile, TypeOK, IsTree
<1>3. caret \in DOMAIN nodes
  BY <1>1 DEF EditorInv, TypeOK
<1>4. caret \in Items(work) /\ caret \in Ids(work)
  BY <1>1, <1>3, CaretIsItem
<1>5. Sound(added)
  <2>1. RecordLevel(work, caret) < MaxLevelDepth
    BY <1>1, LimitsAssumption
  <2> QED BY <1>1, <1>2, <1>4, <2>1, SoundInsert, TextsAssumption
<1>6. /\ Items(added) = Items(work) \cup {added.seq} /\ added.seq = work.seq + 1
      /\ ChildIds(added, caret) = ChildIds(work, caret) \cup {added.seq}
  BY <1>2, <1>4, InsertItemQueries DEF Sound
<1>7. caret \in Ids(added) /\ caret \in Items(added) /\ added.seq \in ItemIds
  <2>1. Ids(work) \subseteq Ids(added)
    BY DEF InsertItem, Ids
  <2> QED BY <1>4, <1>5, <1>6, <2>1, ItemsAreItemIds DEF Sound
<1>8. FirstChild(added, caret) = added.seq
  <2>1. \A j \in ChildIds(added, caret) : j \in Nat /\ j <= added.seq
    BY <1>5, <1>7, ChildrenAreItems, ParentOfItem, IdsAreNumbers DEF Sound
  <2>2. /\ FirstChild(added, caret) \in ChildIds(added, caret)
        /\ added.seq <= FirstChild(added, caret)
    BY <1>5, <1>6, <1>7, FirstChildIsYoungest DEF Sound
  <2>3. added.seq \in Nat
    BY <1>6, <2>1
  <2> QED BY <2>1, <2>2, <2>3
<1>9. new = added.seq
  BY <1>8
<1>10. IsTree(nodes') /\ Shows(nodes', added) /\ added.seq \in DOMAIN nodes'
  <2>1. CASE nodes[caret].expanded
    <3>1. nodes' = Inserted(nodes, {added.seq}, caret)
      BY <1>1, <2>1 DEF TreeWithSubitem
    <3>2. added = InsertItem(work, caret, NewItemTitle) /\ added.seq \in ItemIds
          /\ caret \in DOMAIN nodes \cup {NoItem}
      BY <1>3, <1>7
    <3> HIDE DEF added
    <3>3. Shows(nodes', added) /\ IsTree(nodes')
          /\ DOMAIN nodes' = DOMAIN nodes \cup {added.seq}
      BY <1>2, <2>1, <3>1, <3>2, InsertShows
    <3> QED BY <3>3
  <2>2. CASE ~nodes[caret].expanded
    <3>1. nodes' = LoadChildNodes(nodes, added, caret)
      BY <1>1, <2>2 DEF TreeWithSubitem
    <3>2. Shows(nodes, added)
      BY <1>2, <1>3, <2>2, UnexpandedShows
    <3> HIDE DEF added
    <3>3. /\ IsTree(nodes') /\ Shows(nodes', added)
          /\ DOMAIN nodes' = DOMAIN nodes \cup ChildIds(added, caret)
      BY <1>2, <1>3, <1>5, <2>2, <3>1, <3>2, ExpandShows
    <3> QED BY <1>6, <3>3
  <2> QED BY <2>1, <2>2
<1> HIDE DEF added, new
<1>11. EditorInv'
  BY <1>1, <1>5, <1>7, <1>9, <1>10, SelectionKeeps DEF Commands
<1>12. caret' = added.seq /\ work' = NotesSavedOnSelChange(added, new)
  BY <1>1, <1>9 DEF SelChanged
<1>13. Written(added, work', caret)
  BY <1>5, <1>7, <1>12, SelChangeWrites DEF Sound, EditorInv
<1> QED BY <1>11, <1>12, <1>13 DEF Written, SameShape

\* The selected item is deleted, and with it what hangs below it.
LEMMA DeleteKeeps ==
    ASSUME EditorInv, DeleteItem
    PROVE  EditorInv'
<1> DEFINE c == NotesSavedOnSelChange(work, caret')
           d == RemoveItem(c, caret)
           D == Subtree(c, caret)
<1>1. /\ open /\ label = NoItem /\ rw /\ caret # NoItem
      /\ nodes' \in Deleted(nodes, caret)
      /\ caret' \in SelectedAfterDelete(nodes, caret)
      /\ work' = d
      /\ edit' = IF DOMAIN nodes' = {} THEN ClearedEdit(TRUE) ELSE RecordCallback(c, caret', rw)
      /\ dirty' \in BOOLEAN /\ command' = "other" /\ UNCHANGED <<open, rw, label>>
  BY DEF DeleteItem, InTree, MarkDirty, EditorInv, TypeOK
<1>2. TypeOK /\ Sound(work) /\ Shows(nodes, work) /\ IsTree(nodes)
  BY <1>1 DEF EditorInv, OpenFile, TypeOK, IsTree
<1>3. caret \in DOMAIN nodes /\ caret \in Items(work) /\ caret \in Ids(work)
  <2>1. caret \in DOMAIN nodes
    BY <1>1, <1>2 DEF TypeOK
  <2> QED BY <1>1, <2>1, CaretIsItem
<1>4. Written(work, c, caret)
  BY <1>2, <1>3, SelChangeWrites DEF Sound
<1> HIDE DEF c
<1>5. Sound(c) /\ Shows(nodes, c)
  BY <1>2, <1>4, SoundOfShape, ShapeShows DEF Written, Sound
<1>6. caret \in Items(c)
  BY <1>3, <1>5 DEF Shows
<1>7. Sound(d)
  BY <1>5, <1>6, SoundRemove
<1>8. IsTree(nodes') /\ Shows(nodes', d) /\ DOMAIN nodes' = DOMAIN nodes \ D
  BY <1>1, <1>2, <1>3, <1>5, DeleteShows
<1>9. caret' \in DOMAIN nodes' \cup {NoItem} /\ (caret' = NoItem <=> DOMAIN nodes' = {})
  BY <1>1, <1>2, <1>3, <1>5, <1>8, DeleteSelects
<1>10. caret' = NoItem <=> nodes' = EmptyTree
  BY <1>8, <1>9, EmptyTreeUnique, EmptyTreeIsTree
<1>11. OpenFile'
  BY <1>1, <1>7, <1>8, <1>10 DEF OpenFile
<1>12. CASE caret' = NoItem
  <2>1. edit' = ClearedEdit(TRUE)
    BY <1>1, <1>9, <1>12
  <2>2. edit' \in EditType
    BY <2>1, ClearedType
  <2>3. TypeOK'
    BY <1>1, <1>2, <1>7, <1>8, <1>9, <2>2 DEF TypeOK, EditType, IsTree, Sound, Commands
  <2> QED
    BY <1>1, <1>11, <1>12, <2>3 DEF EditorInv, ClosedFile, EditShowsSelected, TypedIfWritable
<1>13. CASE caret' # NoItem
  <2>1. edit' = RecordCallback(c, caret', rw)
    BY <1>1, <1>9, <1>13
  <2>2. /\ caret' \in Ids(d) /\ caret' \in Ids(c) /\ d.table[caret'] = c.table[caret']
        /\ caret' # RootRecord
    <3>1. caret' \in Items(d)
      BY <1>8, <1>9, <1>13 DEF Shows
    <3> QED BY <1>5, <1>6, <3>1, RemoveItemQueries DEF Sound, Items, RootRecord, FileRecord
  <2>3. edit' \in EditType
    BY <1>2, <1>5, <2>1, <2>2, CallbackType DEF Sound, TypeOK
  <2>4. TypeOK'
    BY <1>1, <1>2, <1>7, <1>8, <1>9, <2>3 DEF TypeOK, EditType, IsTree, Sound, Commands
  <2> HIDE DEF d
  <2>5. /\ edit'.of = caret' /\ edit'.modified = FALSE /\ edit'.text = d.table[caret'].notes
        /\ edit'.readonly = (d.table[caret'].readonly \/ ~rw')
    <3>1. /\ edit'.of = caret' /\ edit'.modified = FALSE /\ edit'.text = c.table[caret'].notes
          /\ edit'.readonly = (c.table[caret'].readonly \/ ~rw)
      BY <2>1 DEF RecordCallback
    <3>2. rw' = rw
      BY <1>1
    <3> QED BY <2>2, <3>1, <3>2
  <2>6. EditShowsSelected'
    BY <1>1, <2>5 DEF EditShowsSelected
  <2> QED BY <1>1, <1>11, <2>4, <2>5, <2>6 DEF EditorInv, ClosedFile, TypedIfWritable
<1> QED BY <1>12, <1>13

\* The protection of the selected item changes, and with it the control's.
LEMMA ToggleKeeps ==
    ASSUME EditorInv, ToggleReadOnly
    PROVE  EditorInv'
<1> DEFINE readonly == ~work.table[caret].readonly
<1>1. /\ open /\ rw /\ caret # NoItem
      /\ work' = SetReadOnly(work, caret, readonly)
      /\ edit' = [edit EXCEPT !.readonly = readonly]
      /\ dirty' \in BOOLEAN /\ command' = "other"
      /\ UNCHANGED <<open, rw, nodes, caret, label>>
  BY DEF ToggleReadOnly, EditAfterToggle, InTree, MarkDirty, EditorInv, TypeOK
<1>2. TypeOK /\ caret \in Ids(work) /\ readonly \in BOOLEAN
  BY <1>1, CaretIsRecord DEF EditorInv, TypeOK
<1> HIDE DEF readonly
<1>3. /\ IsContent(work') /\ SameShape(work, work')
      /\ work'.table[caret].readonly = readonly
      /\ work'.table[caret].notes = work.table[caret].notes
  BY <1>1, <1>2, SetReadOnlyType, SetReadOnlyShape DEF TypeOK
<1>4. OpenFile'
  BY <1>1, <1>3, ShapeKeepsOpenFile
<1>5. edit \in EditType
  BY <1>2 DEF TypeOK, EditType
<1>6. /\ edit' \in EditType /\ edit'.readonly = readonly /\ edit'.text = edit.text
      /\ edit'.modified = edit.modified /\ edit'.of = edit.of
  BY <1>1, <1>2, <1>5 DEF EditType
<1>7. TypeOK'
  BY <1>1, <1>2, <1>3, <1>6 DEF TypeOK, EditType, Commands
<1>8. EditShowsSelected'
  BY <1>1, <1>3, <1>6 DEF EditorInv, EditShowsSelected
<1> QED BY <1>1, <1>4, <1>7, <1>8 DEF EditorInv, ClosedFile, TypedIfWritable

\* A label begins to be edited.
LEMMA BeginLabelKeeps ==
    ASSUME EditorInv, BeginLabelEdit
    PROVE  EditorInv'
BY DEF BeginLabelEdit, EditorInv, TypeOK, OpenFile, ClosedFile, EditShowsSelected,
       TypedIfWritable, Commands, InTree

\* Statements that leave ids, parents, protection and the notes of the items
\* alone leave the invariant alone.
LEMMA TitlesKeep ==
    ASSUME EditorInv, open, IsContent(work'), SameShape(work, work'),
           \A i \in Items(work) : /\ work'.table[i].notes = work.table[i].notes
                                /\ work'.table[i].readonly = work.table[i].readonly,
           dirty' \in BOOLEAN, label' \in {NoItem, label}, command' \in Commands,
           UNCHANGED <<open, rw, nodes, caret, edit>>
    PROVE  EditorInv'
<1>1. OpenFile'
  BY ShapeKeepsOpenFile
<1>2. TypeOK'
  BY DEF EditorInv, TypeOK
<1>3. caret # NoItem => caret \in Items(work)
  BY CaretIsItem DEF EditorInv, TypeOK
<1>4. EditShowsSelected'
  BY <1>3 DEF EditorInv, EditShowsSelected
<1> QED BY <1>1, <1>2, <1>4 DEF EditorInv, ClosedFile, TypedIfWritable

\* The label that was edited becomes the title, unless nothing is left of it.
LEMMA EndLabelKeeps ==
    ASSUME EditorInv, NEW text \in Typed, EndLabelEdit(text)
    PROVE  EditorInv'
<1>1. /\ open /\ label # NoItem /\ label' = NoItem
      /\ work' = IF Trim[text] = EmptyText THEN work ELSE UpdateTitle(work, label, Trim[text])
      /\ dirty' \in BOOLEAN /\ command' = "other" /\ UNCHANGED <<open, rw, nodes, caret, edit>>
  BY DEF EndLabelEdit, MarkDirty, EditorInv, TypeOK
<1>2. IsContent(work) /\ label \in Ids(work) /\ Trim[text] \in Texts
  BY <1>1, CaretIsRecord, TrimAssumption DEF EditorInv, TypeOK
<1>3. \A i \in Items(work) : i \in Ids(work)
  BY DEF Items
<1>4. /\ IsContent(work') /\ SameShape(work, work')
      /\ \A i \in Items(work) : /\ work'.table[i].notes = work.table[i].notes
                               /\ work'.table[i].readonly = work.table[i].readonly
  <2>1. CASE Trim[text] = EmptyText
    BY <1>1, <1>2, <2>1 DEF SameShape
  <2>2. CASE Trim[text] # EmptyText
    BY <1>1, <1>2, <1>3, <2>2, UpdateTitleType, UpdateTitleShape
  <2> QED BY <2>1, <2>2
<1> QED BY <1>1, <1>4, TitlesKeep DEF Commands

\* The user types, where the control can be typed into.
LEMMA TypeKeeps ==
    ASSUME EditorInv, NEW text \in Typed, Type(text)
    PROVE  EditorInv'
<1>1. /\ open /\ ~edit.readonly /\ edit' = [edit EXCEPT !.text = text, !.modified = TRUE]
      /\ command' = "other" /\ UNCHANGED <<open, rw, work, dirty, nodes, caret, label>>
  BY DEF Type, InTree
<1>2. edit \in EditType /\ text \in EditTexts
  BY DEF EditorInv, TypeOK, EditType, EditTexts
<1>3. /\ edit' \in EditType /\ edit'.readonly = edit.readonly
      /\ edit'.modified = TRUE /\ edit'.of = edit.of
  BY <1>1, <1>2 DEF EditType
<1>4. TypeOK'
  BY <1>1, <1>3 DEF EditorInv, TypeOK, EditType, Commands
<1>5. caret # NoItem => rw
  BY <1>1 DEF EditorInv, EditShowsSelected
<1>6. EditShowsSelected'
  BY <1>1, <1>3 DEF EditorInv, EditShowsSelected
<1>7. OpenFile'
  BY <1>1 DEF EditorInv, OpenFile
<1> QED BY <1>1, <1>4, <1>5, <1>6, <1>7 DEF EditorInv, ClosedFile, TypedIfWritable

-----------------------------------------------------------------------------
(* Saving and the properties of the file *)

\* Save: the control's text, trimmed, becomes the notes of its record.
LEMMA SaveKeeps ==
    ASSUME EditorInv, AppSaveFile
    PROVE  EditorInv'
<1>1. /\ open /\ work' = SaveNotesIfModified(work) /\ edit' = AfterSaveNotesIfModified
      /\ dirty' \in BOOLEAN /\ command' = "save" /\ UNCHANGED <<open, rw, nodes, caret, label>>
  BY DEF AppSaveFile, EditorInv, TypeOK
<1>2. TypeOK /\ IsContent(work) /\ caret \in Ids(work)
  BY <1>1, CaretIsRecord DEF EditorInv, TypeOK
<1>3. /\ Written(work, work', caret)
      /\ edit.modified /\ caret # NoItem => work'.table[caret].notes = Trimmed(edit.text)
      /\ ~edit.modified \/ caret = NoItem => work' = work
  BY <1>1, <1>2, SaveWrites
<1>4. IsContent(work') /\ SameShape(work, work')
      /\ work'.table[caret].readonly = work.table[caret].readonly
  BY <1>2, <1>3 DEF Written
<1>5. OpenFile'
  BY <1>1, <1>4, ShapeKeepsOpenFile
<1>6. edit \in EditType
  BY <1>2 DEF TypeOK, EditType
<1>7. /\ edit' \in EditType /\ edit'.text = edit.text /\ edit'.readonly = edit.readonly
      /\ edit'.of = edit.of /\ (edit'.modified => edit.modified)
  <2>1. CASE caret = NoItem
    BY <1>1, <1>6, <2>1 DEF AfterSaveNotesIfModified
  <2>2. CASE caret # NoItem
    <3>1. edit' = [edit EXCEPT !.modified = FALSE]
      BY <1>1, <2>2 DEF AfterSaveNotesIfModified
    <3> QED BY <1>6, <3>1 DEF EditType
  <2> QED BY <2>1, <2>2
<1>8. TypeOK'
  BY <1>1, <1>2, <1>4, <1>7 DEF TypeOK, EditType, Commands
<1>9. EditShowsSelected'
  <2>1. edit.text \in EditTexts
    BY <1>6 DEF EditType
  <2>2. ASSUME caret # NoItem, edit.modified
        PROVE  Trimmed(edit.text) = Trimmed(work'.table[caret].notes)
    BY <1>3, <2>1, <2>2, TrimmedTwice
  <2>3. ASSUME caret # NoItem, ~edit.modified
        PROVE  Trimmed(edit.text) = Trimmed(work'.table[caret].notes)
    BY <1>1, <1>3, <2>3 DEF EditorInv, EditShowsSelected
  <2> QED BY <1>1, <1>4, <1>7, <2>2, <2>3 DEF EditorInv, EditShowsSelected
<1> QED BY <1>1, <1>5, <1>7, <1>8, <1>9 DEF EditorInv, ClosedFile, TypedIfWritable

\* The property sheet writes to record 0, which no view shows.
LEMMA PropertiesKeep ==
    ASSUME EditorInv, NEW title \in Texts, NEW description \in Texts,
           FileProperties(title, description) \/ ChangePassword(title, description)
    PROVE  EditorInv'
<1>1. /\ open /\ work' = UpdateFileDetails(work, title, description)
      /\ dirty' \in BOOLEAN /\ command' \in Commands
      /\ UNCHANGED <<open, rw, nodes, caret, label, edit>>
  BY DEF FileProperties, ChangePassword, InTree, MarkDirty, EditorInv, TypeOK, Commands
<1>2. IsContent(work) /\ FileRecord \in Ids(work)
  BY <1>1 DEF EditorInv, TypeOK, OpenFile, Sound, WellFormedTree, HasRoots
<1>3. /\ IsContent(work') /\ SameShape(work, work')
      /\ \A i \in Items(work) : /\ work'.table[i].notes = work.table[i].notes
                               /\ work'.table[i].readonly = work.table[i].readonly
  BY <1>1, <1>2, UpdateFileDetailsType, UpdateFileDetailsShape
<1> QED BY <1>1, <1>3, TitlesKeep

-----------------------------------------------------------------------------
(* The invariant *)

\* Nothing is open at the start.
LEMMA InitEditorInv == Init => EditorInv
<1> SUFFICES ASSUME Init PROVE EditorInv
  OBVIOUS
<1>1. edit \in EditType
  BY ClearedType DEF Init
<1>2. TypeOK
  BY <1>1, CreateSchemaType, EmptyTreeIsTree DEF Init, TypeOK, EditType, IsTree, Commands
<1> QED
  BY <1>2 DEF Init, EditorInv, OpenFile, ClosedFile, EditShowsSelected, TypedIfWritable

\* Every command keeps the views together.
LEMMA NextEditorInv == EditorInv /\ [Next]_vars => EditorInv'
<1> SUFFICES ASSUME EditorInv, [Next]_vars PROVE EditorInv'
  OBVIOUS
<1>1. CASE UNCHANGED vars
  BY <1>1 DEF vars, EditorInv, TypeOK, OpenFile, ClosedFile, EditShowsSelected, TypedIfWritable
<1>2. CASE OpenOrClose
  BY <1>2, OpenKeeps, NewFileKeeps, CloseKeeps DEF OpenOrClose
<1>3. CASE Work
  BY <1>3, SelectKeeps, ExpandKeeps, NewItemKeeps, NewSubitemKeeps, DeleteKeeps, ToggleKeeps,
     BeginLabelKeeps, EndLabelKeeps, TypeKeeps DEF Work
<1>4. CASE SaveOrProperties
  BY <1>4, SaveKeeps, PropertiesKeep DEF SaveOrProperties
<1> QED BY <1>1, <1>2, <1>3, <1>4 DEF Next

\* The strengthened invariant holds throughout.
THEOREM EditorCorrect == Spec => []EditorInv
BY InitEditorInv, NextEditorInv, PTL DEF Spec

\* Table, tree, selection, label and control keep their types, for every set of
\* files and texts.
THEOREM EditorTypes == Spec => []TypeOK
<1>1. EditorInv => TypeOK
  BY DEF EditorInv
<1> QED BY <1>1, EditorCorrect, PTL

\* The tree shows the table and the control the selected record, after any
\* sequence of commands (MainWindow.c).
THEOREM ViewsStayTogether == Spec => []ViewsAgree
<1>1. EditorInv => ViewsAgree
  BY DEF EditorInv, OpenFile, Shows, ViewsAgree, TreeShowsRecords
<1> QED BY <1>1, EditorCorrect, PTL

\* No command leads over MAX_RECORD_COUNT or MAX_RECORD_LEVEL_DEPTH, whatever
\* they are: the menus are enough.
THEOREM LimitsAreKept == Spec => []WithinLimits
<1>1. EditorInv => WithinLimits
  BY DEF EditorInv, OpenFile, Sound, WithinLimits
<1> QED BY <1>1, EditorCorrect, PTL

-----------------------------------------------------------------------------
(* What a command does to notes and new records: the bodies of the action  *)
(* properties of Editor, proved for one command after the other.           *)

TypedTextKept ==
    (/\ open /\ caret # NoItem
     /\ edit.modified /\ ~edit'.modified
     /\ command' # "closeNo"
     /\ caret \in Items(work'))
       => work'.table[caret].notes = Trimmed(edit.text)

ReadOnlyKept == open /\ open' /\ ~rw => work' = work

OtherNotesKept ==
    open /\ command' # "open" /\ command' # "closeNo" =>
       \A i \in Items(work) \cap Items(work') :
           work'.table[i].notes # work.table[i].notes => caret = i /\ edit.modified

NewIsSelected ==
    open /\ work'.seq > work.seq /\ command' = "other" => caret' = work'.seq /\ label' = caret'

NotesRight == TypedTextKept /\ ReadOnlyKept /\ OtherNotesKept

\* Selecting in a table that has the records of the old one.
LEMMA SelChangeNotes ==
    ASSUME EditorInv, open, NEW c, IsContent(c), Ids(work) \subseteq Ids(c),
           \A i \in Ids(work) : c.table[i] = work.table[i],
           NEW new, SelChanged(c, new), c = work \/ rw
    PROVE  NotesRight /\ work'.seq = c.seq
<1>1. TypeOK /\ caret \in Ids(work) /\ caret \in Ids(c) /\ edit.modified \in BOOLEAN
  BY CaretIsRecord DEF EditorInv, TypeOK
<1>2. work' = NotesSavedOnSelChange(c, new)
  BY DEF SelChanged
<1>3. /\ Written(c, work', caret)
      /\ edit.modified /\ rw => work'.table[caret].notes = Trimmed(edit.text)
      /\ ~edit.modified \/ ~rw => work' = c
  BY <1>1, <1>2, SelChangeWrites
<1>4. caret # NoItem /\ edit.modified => rw
  BY DEF EditorInv, TypedIfWritable
<1>5. TypedTextKept
  BY <1>3, <1>4 DEF TypedTextKept
<1>6. ReadOnlyKept
  BY <1>3 DEF ReadOnlyKept
<1>7. OtherNotesKept
  <2> SUFFICES ASSUME NEW i \in Items(work), work'.table[i].notes # work.table[i].notes
               PROVE  caret = i /\ edit.modified
    BY DEF OtherNotesKept
  <2>1. i \in Ids(work) /\ i \in Ids(c) /\ c.table[i] = work.table[i]
    BY DEF Items
  <2> QED BY <1>3, <2>1 DEF Written
<1> QED BY <1>3, <1>5, <1>6, <1>7 DEF NotesRight, Written, SameShape

\* A command that writes no notes in a file that can be written.
LEMMA NoNotesWritten ==
    ASSUME open, edit'.modified = edit.modified, rw \/ work' = work,
           \A i \in Items(work) : work'.table[i].notes = work.table[i].notes
    PROVE  NotesRight
BY DEF NotesRight, TypedTextKept, ReadOnlyKept, OtherNotesKept

\* What InsertItem leaves alone.
LEMMA InsertedLeavesOthers ==
    ASSUME NEW c, Sound(c), NEW parent \in Items(c) \cup {FileRecord}, NEW title,
           NEW d, d = InsertItem(c, parent, title)
    PROVE  Ids(c) \subseteq Ids(d) /\ \A i \in Ids(c) : d.table[i] = c.table[i]
<1>1. \A i \in Ids(c) : d.table[i] = c.table[i]
  BY InsertItemQueries DEF Sound
<1>2. Ids(c) \subseteq Ids(d)
  BY DEF InsertItem, Ids
<1> QED BY <1>1, <1>2

\* The two commands that add a record.
LEMMA NewNotes ==
    ASSUME EditorInv, NewItem \/ NewSubitem
    PROVE  NotesRight /\ NewIsSelected
<1>1. open /\ rw /\ Sound(work) /\ work.seq < MaxRecordId
  BY DEF NewItem, NewSubitem, CanAddSubitem, InTree, CanAddItem, EditorInv, OpenFile
<1>2. CASE NewItem
  <2> DEFINE under == IF caret = NoItem THEN NoItem ELSE nodes[caret].under
             added == InsertItem(work, under, NewItemTitle)
  <2>1. SelChanged(added, added.seq) /\ label' = added.seq
    BY <1>2 DEF NewItem
  <2>2. under \in Items(work) \cup {FileRecord}
    <3>1. caret # NoItem => caret \in DOMAIN nodes
      BY DEF EditorInv, TypeOK
    <3>2. under \in DOMAIN nodes \cup {NoItem}
      BY <1>1, <3>1, CaretIsItem
    <3> QED BY <1>1, <3>2, CaretIsItem DEF NoItem
  <2>3. IsContent(added) /\ caret' = added.seq
    <3>1. under \in RecordIds
      BY <1>1, <2>2, ItemsAreItemIds, MaxRecordIdAssumption
         DEF Sound, ItemIds, RecordIds, RootRecord, FileRecord
    <3> QED BY <1>1, <2>1, <3>1, InsertItemType, TextsAssumption DEF Sound, SelChanged
  <2>4. Ids(work) \subseteq Ids(added) /\ \A i \in Ids(work) : added.table[i] = work.table[i]
    BY <1>1, <2>2, InsertedLeavesOthers
  <2> HIDE DEF added
  <2>5. NotesRight /\ work'.seq = added.seq
    BY <1>1, <2>1, <2>3, <2>4, SelChangeNotes
  <2> QED BY <2>1, <2>3, <2>5 DEF NewIsSelected
<1>3. CASE NewSubitem
  <2> DEFINE added == InsertItem(work, caret, NewItemTitle)
             new == IF nodes[caret].expanded THEN added.seq ELSE FirstChild(added, caret)
  <2>1. SelChanged(added, new) /\ label' = new /\ caret # NoItem
    BY <1>3 DEF NewSubitem, CanAddSubitem
  <2>2. caret \in Items(work)
    BY <1>1, <2>1, CaretIsItem DEF EditorInv, TypeOK
  <2>3. IsContent(added) /\ caret' = new
    <3>1. caret \in RecordIds
      BY <1>1, <2>2, ItemsAreItemIds DEF Sound, ItemIds
    <3> QED BY <1>1, <2>1, <3>1, InsertItemType, TextsAssumption DEF Sound, SelChanged
  <2>4. Ids(work) \subseteq Ids(added) /\ \A i \in Ids(work) : added.table[i] = work.table[i]
    BY <1>1, <2>2, InsertedLeavesOthers
  <2>5. caret' = work'.seq
    BY <1>3, NewSubitemKeeps
  <2> HIDE DEF added, new
  <2>6. NotesRight
    BY <1>1, <2>1, <2>3, <2>4, SelChangeNotes
  <2> QED BY <2>1, <2>3, <2>5, <2>6 DEF NewIsSelected
<1> QED BY <1>2, <1>3

\* A deleted record takes the text typed over its notes along; the others keep
\* theirs.
LEMMA DeleteNotes ==
    ASSUME EditorInv, DeleteItem
    PROVE  NotesRight /\ NewIsSelected
<1> DEFINE c == NotesSavedOnSelChange(work, caret')
<1>1. open /\ rw /\ caret # NoItem /\ work' = RemoveItem(c, caret)
  BY DEF DeleteItem, InTree
<1>2. TypeOK /\ Sound(work) /\ caret \in Items(work) /\ caret \in Ids(work)
  BY <1>1, CaretIsItem DEF EditorInv, OpenFile, TypeOK
<1>3. Written(work, c, caret)
  BY <1>2, SelChangeWrites DEF Sound
<1> HIDE DEF c
<1>4. Sound(c) /\ caret \in Items(c)
  BY <1>2, <1>3, SoundOfShape, ShapeQueries DEF Written
<1>5. /\ work'.seq = c.seq /\ Items(work') = Items(c) \ Subtree(c, caret)
      /\ \A i \in Ids(work') : work'.table[i] = c.table[i]
      /\ caret \in Subtree(c, caret)
  BY <1>1, <1>4, RemoveItemQueries, SubtreeIsBelow DEF Sound
<1>6. ASSUME NEW i \in Items(work') \cap Items(work)
      PROVE  i # caret /\ work'.table[i].notes = work.table[i].notes
  <2>1. i # caret /\ i \in Ids(work') /\ i \in Ids(work)
    BY <1>5 DEF Items
  <2> QED BY <1>3, <1>5, <2>1 DEF Written
<1>7. NotesRight
  BY <1>1, <1>2, <1>5, <1>6 DEF NotesRight, TypedTextKept, ReadOnlyKept, OtherNotesKept
<1>8. work'.seq = work.seq /\ work.seq \in Nat
  BY <1>2, <1>3, <1>5, IdsAreNumbers DEF Written, SameShape, Sound
<1> QED BY <1>7, <1>8 DEF NewIsSelected

\* Save writes the text that was typed, to the record it was typed for.
LEMMA SaveNotes ==
    ASSUME EditorInv, AppSaveFile
    PROVE  NotesRight
<1>1. /\ open /\ work' = SaveNotesIfModified(work)
  BY DEF AppSaveFile
<1>2. TypeOK /\ IsContent(work) /\ caret \in Ids(work) /\ edit.modified \in BOOLEAN
  BY <1>1, CaretIsRecord DEF EditorInv, TypeOK
<1>3. /\ Written(work, work', caret)
      /\ edit.modified /\ caret # NoItem => work'.table[caret].notes = Trimmed(edit.text)
      /\ ~edit.modified \/ caret = NoItem => work' = work
  BY <1>1, <1>2, SaveWrites
<1>4. caret # NoItem /\ edit.modified => rw
  BY <1>1 DEF EditorInv, TypedIfWritable
<1>5. TypedTextKept
  BY <1>3 DEF TypedTextKept
<1>6. ReadOnlyKept
  BY <1>3, <1>4 DEF ReadOnlyKept
<1>7. OtherNotesKept
  <2>1. \A i \in Items(work) : i \in Ids(work)
    BY DEF Items
  <2> QED BY <1>2, <1>3, <2>1 DEF OtherNotesKept, Written
<1> QED BY <1>5, <1>6, <1>7 DEF NotesRight

\* Closing with Yes does, too; with No the user throws the text away.
LEMMA CloseNotes ==
    ASSUME EditorInv, AppCloseFile
    PROVE  NotesRight
<1>1. open /\ open' = FALSE
  BY DEF AppCloseFile, DbClose
<1>2. TypeOK /\ IsContent(work) /\ caret \in Ids(work) /\ edit.modified \in BOOLEAN
  BY <1>1, CaretIsRecord DEF EditorInv, TypeOK
<1> DEFINE d == SaveNotesIfModified(work)
<1>3. /\ Written(work, d, caret)
      /\ edit.modified /\ caret # NoItem => d.table[caret].notes = Trimmed(edit.text)
      /\ ~edit.modified \/ caret = NoItem => d = work
  BY <1>1, <1>2, SaveWrites
<1>4. \/ work' = d
      \/ command' = "closeNo"
      \/ work' = work /\ ~edit.modified
  BY DEF AppCloseFile, DbClose, IsFileModified, RolledBack
<1> HIDE DEF d
<1>5. TypedTextKept
  BY <1>3, <1>4 DEF TypedTextKept
<1>6. ReadOnlyKept
  BY <1>1 DEF ReadOnlyKept
<1>7. OtherNotesKept
  <2>1. \A i \in Items(work) : i \in Ids(work)
    BY DEF Items
  <2> QED BY <1>2, <1>3, <1>4, <2>1 DEF OtherNotesKept, Written
<1> QED BY <1>5, <1>6, <1>7 DEF NotesRight

\* The other commands write no notes.
LEMMA OtherCommandsNotes ==
    ASSUME EditorInv,
           \/ \E id \in ItemIds : Expand(id)
           \/ ToggleReadOnly
           \/ BeginLabelEdit
           \/ \E text \in Typed : EndLabelEdit(text)
           \/ \E title, description \in Texts : FileProperties(title, description)
           \/ \E title, description \in Texts : ChangePassword(title, description)
    PROVE  NotesRight /\ NewIsSelected
<1>1. open /\ IsContent(work) /\ FileRecord \in Ids(work) /\ caret \in Ids(work)
      /\ \A i \in Items(work) : i \in Ids(work)
  <2>1. open
    BY DEF Expand, ToggleReadOnly, BeginLabelEdit, EndLabelEdit, FileProperties,
           ChangePassword, InTree
  <2>2. IsContent(work) /\ FileRecord \in Ids(work)
    BY <2>1 DEF EditorInv, TypeOK, OpenFile, Sound, WellFormedTree, HasRoots
  <2> QED BY <2>1, <2>2, CaretIsRecord DEF Items
<1>2. edit'.modified = edit.modified
  <2>1. edit \in EditType
    BY DEF EditorInv, TypeOK, EditType
  <2>2. CASE ToggleReadOnly
    BY <2>1, <2>2 DEF ToggleReadOnly, EditAfterToggle, EditType
  <2>3. CASE ~ToggleReadOnly
    BY <2>3 DEF Expand, BeginLabelEdit, EndLabelEdit, FileProperties, ChangePassword
  <2> QED BY <2>2, <2>3
<1>3. /\ rw \/ work' = work
      /\ work'.seq = work.seq
      /\ \A i \in Items(work) : work'.table[i].notes = work.table[i].notes
  <2>1. CASE (\E id \in ItemIds : Expand(id)) \/ BeginLabelEdit
    BY <2>1 DEF Expand, BeginLabelEdit
  <2>2. CASE ToggleReadOnly
    <3>1. rw /\ work' = SetReadOnly(work, caret, ~work.table[caret].readonly)
      BY <2>2 DEF ToggleReadOnly
    <3> QED BY <1>1, <3>1, SetReadOnlyShape DEF SameShape
  <2>3. CASE \E title, description \in Texts :
               FileProperties(title, description) \/ ChangePassword(title, description)
    <3>1. PICK title \in Texts, description \in Texts :
            rw /\ work' = UpdateFileDetails(work, title, description)
      BY <2>3 DEF FileProperties, ChangePassword
    <3> QED BY <1>1, <3>1, UpdateFileDetailsShape DEF SameShape
  <2>4. CASE \E text \in Typed : EndLabelEdit(text)
    <3>1. PICK text \in Typed : EndLabelEdit(text)
      BY <2>4
    <3>2. label = caret /\ label # NoItem /\ rw
      BY <3>1 DEF EndLabelEdit, EditorInv, TypeOK, TypedIfWritable
    <3>3. CASE work' = work
      BY <3>3
    <3>4. CASE work' = UpdateTitle(work, label, Trim[text])
      <4>1. work'.seq = work.seq
            /\ \A i \in Items(work) : work'.table[i].notes = work.table[i].notes
        BY <1>1, <3>2, <3>4, UpdateTitleShape DEF SameShape
      <4> QED BY <3>2, <4>1
    <3> QED BY <3>1, <3>3, <3>4 DEF EndLabelEdit
  <2> QED BY <2>1, <2>2, <2>3, <2>4
<1>4. NotesRight
  BY <1>1, <1>2, <1>3, NoNotesWritten
<1>5. NewIsSelected
  BY <1>1, <1>3, IdsAreNumbers DEF NewIsSelected
<1> QED BY <1>4, <1>5

\* All commands of an open file, and those that open one.
LEMMA StepNotes ==
    ASSUME EditorInv, Next
    PROVE  NotesRight /\ NewIsSelected
<1>1. CASE ~open
  BY <1>1 DEF NotesRight, TypedTextKept, ReadOnlyKept, OtherNotesKept, NewIsSelected
<1>2. CASE AppCloseFile
  <2>1. command' # "other"
    BY <1>2 DEF AppCloseFile
  <2> QED BY <1>2, <2>1, CloseNotes DEF NewIsSelected
<1>3. CASE AppSaveFile
  <2>1. command' = "save"
    BY <1>3 DEF AppSaveFile
  <2> QED BY <1>3, <2>1, SaveNotes DEF NewIsSelected
<1>4. CASE \E id \in ItemIds : Select(id)
  <2>1. PICK id \in ItemIds : Select(id)
    BY <1>4
  <2>2. open /\ SelChanged(work, id) /\ IsContent(work)
    BY <2>1 DEF Select, InTree, EditorInv, TypeOK
  <2>3. NotesRight /\ work'.seq = work.seq
    BY <2>2, SelChangeNotes
  <2> QED BY <2>2, <2>3, IdsAreNumbers DEF NewIsSelected
<1>5. CASE NewItem \/ NewSubitem
  BY <1>5, NewNotes
<1>6. CASE DeleteItem
  BY <1>6, DeleteNotes
<1>7. CASE \E text \in Typed : Type(text)
  <2>1. PICK text \in Typed : Type(text)
    BY <1>7
  <2>2. work' = work /\ edit' = [edit EXCEPT !.text = text, !.modified = TRUE] /\ edit \in EditType
    BY <2>1 DEF Type, EditorInv, TypeOK, EditType
  <2>3. edit'.modified
    BY <2>2 DEF EditType
  <2>4. IsContent(work)
    BY DEF EditorInv, TypeOK
  <2> QED
    BY <2>2, <2>3, <2>4, IdsAreNumbers
       DEF NotesRight, TypedTextKept, ReadOnlyKept, OtherNotesKept, NewIsSelected
<1>8. CASE OpenOrClose /\ ~AppCloseFile
  <2>1. ~open
    BY <1>8 DEF OpenOrClose, OpenFileInternal, AppNewFile
  <2> QED BY <1>1, <2>1
<1> QED
  BY <1>2, <1>3, <1>4, <1>5, <1>6, <1>7, <1>8, OtherCommandsNotes
     DEF Next, OpenOrClose, Work, SaveOrProperties

\* What was typed reaches its record, unless it is thrown away, through every
\* command that lets go of the control's text.
THEOREM TypedTextIsSaved == Spec => TypedTextArrives
<1>1. EditorInv /\ [Next]_vars => [TypedTextKept]_vars
  BY StepNotes DEF NotesRight
<1>2. EditorInv /\ [Next]_vars =>
        [(/\ open /\ caret # NoItem
          /\ edit.modified /\ ~edit'.modified
          /\ command' # "closeNo"
          /\ caret \in Items(work'))
            => work'.table[caret].notes = Trimmed(edit.text)]_vars
  BY <1>1 DEF TypedTextKept
<1> QED BY <1>2, EditorCorrect, PTL DEF Spec, TypedTextArrives

\* No command writes to a read-only file, or to notes nobody typed over.
THEOREM NothingElseIsChanged == Spec => NothingElseChanges
<1>1. EditorInv /\ [Next]_vars => [open /\ open' /\ ~rw => work' = work]_vars
  BY StepNotes DEF NotesRight, ReadOnlyKept
<1>2. EditorInv /\ [Next]_vars =>
        [open /\ command' # "open" /\ command' # "closeNo" =>
          \A i \in Items(work) \cap Items(work') :
              work'.table[i].notes # work.table[i].notes => caret = i /\ edit.modified]_vars
  BY StepNotes DEF NotesRight, OtherNotesKept
<1> QED
  BY <1>1, <1>2, EditorCorrect, PTL
     DEF Spec, NothingElseChanges, ReadOnlyFileUntouched, OtherNotesUntouched

\* A new record is selected and its label edited, although the tree may have
\* read it together with its siblings.
THEOREM NewRecordIsSelected == Spec => NewRecordSelected
<1>1. EditorInv /\ [Next]_vars =>
        [open /\ work'.seq > work.seq /\ command' = "other"
           => caret' = work'.seq /\ label' = caret']_vars
  BY StepNotes DEF NewIsSelected
<1> QED BY <1>1, EditorCorrect, PTL DEF Spec, NewRecordSelected

\* A content of the shape of the table has the items the user sees.
LEMMA SeenShape ==
    ASSUME EditorInv, open, NEW d, SameShape(work, d),
           caret # NoItem => Trimmed(d.table[caret].notes) = Trimmed(edit.text)
    PROVE  Seen(d)
<1>1. Sound(work) /\ Shows(nodes, work)
  BY DEF EditorInv, OpenFile
<1>2. Shows(nodes, d)
  BY <1>1, ShapeShows DEF Sound
<1> QED BY <1>2 DEF Seen, Shows

\* With the text of a modified control written, the table has what is seen.
LEMMA SeenAfterSave ==
    ASSUME EditorInv, open
    PROVE  Seen(SaveNotesIfModified(work)) /\ (~edit.modified => Seen(work))
<1>1. TypeOK /\ IsContent(work) /\ edit.text \in EditTexts /\ caret \in Ids(work)
  BY CaretIsRecord DEF EditorInv, TypeOK
<1> DEFINE d == SaveNotesIfModified(work)
<1>2. /\ Written(work, d, caret)
      /\ edit.modified /\ caret # NoItem => d.table[caret].notes = Trimmed(edit.text)
      /\ ~edit.modified \/ caret = NoItem => d = work
  BY <1>1, SaveWrites
<1> HIDE DEF d
<1>3. ~edit.modified /\ caret # NoItem
        => Trimmed(work.table[caret].notes) = Trimmed(edit.text)
  BY DEF EditorInv, EditShowsSelected
<1>4. caret # NoItem => Trimmed(d.table[caret].notes) = Trimmed(edit.text)
  <2>1. CASE edit.modified
    BY <1>1, <1>2, <2>1, TrimmedTwice
  <2>2. CASE ~edit.modified
    BY <1>2, <1>3, <2>2
  <2> QED BY <2>1, <2>2
<1>5. Seen(d)
  BY <1>2, <1>4, SeenShape DEF Written
<1>6. ~edit.modified => d = work
  BY <1>2
<1>7. ~edit.modified => Seen(work)
  BY <1>5, <1>6
<1> QED BY <1>5, <1>7 DEF d

\* After Save, Yes and closing without a question the file has the items of
\* the tree and, for the selected one, the text of the edit control.
THEOREM SavedIsSeen == Spec => SavedMeansSeen
<1>1. EditorInv /\ [Next]_vars =>
        [open /\ command' \in {"save", "closeYes", "closeUnasked"} => Seen(work')]_vars
  <2> SUFFICES ASSUME EditorInv, Next, open,
                      command' \in {"save", "closeYes", "closeUnasked"}
               PROVE  Seen(work')
    OBVIOUS
  <2>1. CASE AppSaveFile
    <3>1. work' = SaveNotesIfModified(work)
      BY <2>1 DEF AppSaveFile
    <3> QED BY <3>1, SeenAfterSave
  <2>2. CASE AppCloseFile
    <3>1. \/ work' = SaveNotesIfModified(work)
          \/ work' = work /\ ~edit.modified
      BY <2>2 DEF AppCloseFile, DbClose, IsFileModified, RolledBack
    <3> QED BY <3>1, SeenAfterSave
  <2>3. CASE ~AppSaveFile /\ ~AppCloseFile
    <3>1. command' \in {"open", "other", "rekey"}
      <4>1. CASE OpenOrClose
        BY <2>3, <4>1 DEF OpenOrClose, OpenFileInternal, AppNewFile
      <4>2. CASE Work
        BY <4>2, Zenon DEF Work, Select, Expand, NewItem, NewSubitem, DeleteItem,
             ToggleReadOnly,
                    BeginLabelEdit, EndLabelEdit, Type
      <4>3. CASE SaveOrProperties
        BY <2>3, <4>3 DEF SaveOrProperties, FileProperties, ChangePassword
      <4> QED BY <4>1, <4>2, <4>3 DEF Next
    <3> QED BY <3>1
  <2> QED BY <2>1, <2>2, <2>3
<1> QED BY <1>1, EditorCorrect, PTL DEF Spec, SavedMeansSeen

=============================================================================
