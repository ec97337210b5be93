--------------------------- MODULE DiffLoopProofs ---------------------------
(***************************************************************************)
(* What holds of every run of DiffLoop, for every source, every database    *)
(* and every dialect.  The invariant is built in three layers: the types    *)
(* and the place of the loops; what tableMap still holds; what the changes  *)
(* and the two index lists contain.                                         *)
(***************************************************************************)
EXTENDS DiffLoop, DiffFunctionTheorems

\* The steps of one iteration over the tables.
Altering == {"alterNew", "alterOld", "primaryKey"}
Indexing == {"indexes", "dropIndexes", "addIndexes"}
Inner == {"create"} \union Altering \union Indexing

\* An iteration has a declared table, a table that is altered has been read, and the
\* lists of indexes are empty until their turn.
LoopInv ==
  /\ pc \in Inner => cur \in DOMAIN src /\ cur \notin names
  /\ pc \in Altering => cur \in DOMAIN tableMap
  /\ pc \notin Indexing => dropIndexes = <<>> /\ addIndexes = <<>>
  /\ pc = "addIndexes" => dropIndexes = <<>>

TypeInv == TypeOK /\ LoopInv

\* The typed invariant holds before Diff starts.
LEMMA InitTypeInv == Init => TypeInv
<1> SUFFICES ASSUME Init PROVE TypeInv
  OBVIOUS
<1> USE DEF Init
<1>1. IsSchema(src) /\ IsSchema(schema)
  BY SourcesAssumption, SchemasAssumption
<1>2. IsSchema(tableMap)
  <2>1. DOMAIN tableMap = {}
    OBVIOUS
  <2>2. tableMap \in [DOMAIN tableMap -> Seq(Field)]
    OBVIOUS
  <2>3. QED BY <2>1, <2>2 DEF IsSchema
<1>3. cur \in Tables
  BY TablesAssumption
<1>4. migrations \in Seq(Change) /\ dropIndexes \in Seq(Index) /\ addIndexes \in Seq(Index)
  BY EmptySeq
<1>5. names \subseteq DOMAIN src /\ i \in Nat \ {0} /\ j \in Nat \ {0} /\ droppedColumn \subseteq Columns
  OBVIOUS
<1>6. TypeOK
  BY <1>1, <1>2, <1>3, <1>4, <1>5 DEF TypeOK, Steps
<1>7. LoopInv
  BY DEF LoopInv, Inner, Altering, Indexing
<1>8. QED BY <1>6, <1>7 DEF TypeInv

\* A schema restricted to some of its tables.
LEMMA RestrictedSchema ==
  ASSUME NEW s, IsSchema(s), NEW D \in SUBSET (DOMAIN s)
  PROVE  IsSchema([t \in D |-> s[t]])
BY DEF IsSchema

\* The fields of the table of this iteration on both sides.
LEMMA SidesType ==
  ASSUME TypeInv
  PROVE  /\ Old \in Seq(Field)
         /\ \A n \in DOMAIN Old : Old[n] \in Field /\ Old[n].table = cur
         /\ pc \in Inner => /\ New \in Seq(Field)
                            /\ \A n \in DOMAIN New : New[n] \in Field /\ New[n].table = cur
<1>1. Old \in Seq(Field)
  BY EmptySeq DEF Old, TypeInv, TypeOK, IsSchema
<1>2. ASSUME NEW n \in DOMAIN Old PROVE Old[n].table = cur
  <2>1. cur \in DOMAIN tableMap
    BY EmptySeq, <1>2, LenProperties DEF Old
  <2>2. QED BY <1>2, <2>1 DEF Old, TypeInv, TypeOK, IsSchema
<1>3. ASSUME pc \in Inner
      PROVE  New \in Seq(Field) /\ \A n \in DOMAIN New : New[n].table = cur
  BY <1>3 DEF New, TypeInv, TypeOK, LoopInv, IsSchema
<1>4. QED BY <1>1, <1>2, <1>3, FieldsOf

\* The two lists of indexes after one visit.
LEMMA VisitType ==
  ASSUME TypeInv, VisitIndex
  PROVE  dropIndexes' \in Seq(Index) /\ addIndexes' \in Seq(Index)
<1>1. pc \in Inner /\ i \in DOMAIN New
  BY DEF VisitIndex, Inner, Indexing
<1>2. Old \in Seq(Field) /\ New[i] \in Field
  BY <1>1, SidesType
<1>3. dropIndexes \in Seq(Index) /\ addIndexes \in Seq(Index) /\ cur \in Tables
  BY DEF TypeInv, TypeOK
<1> DEFINE visits == IndexVisits(Old, New[i])
           v == visits[j]
<1>4. CASE j \in DOMAIN visits
  <2>1. v \in Visit
    BY <1>2, <1>4, IndexVisitsType, LenProperties, ElementOfSeq
  <2>2. /\ AddToIndexes(dropIndexes, cur, v) \in Seq(Index)
        /\ AddToIndexes(addIndexes, cur, v) \in Seq(Index)
    BY <1>3, <2>1, AddToIndexesType
  <2>3. QED BY <1>3, <1>4, <2>2 DEF VisitIndex
<1>5. CASE j \notin DOMAIN visits
  BY <1>3, <1>5 DEF VisitIndex
<1>6. QED BY <1>4, <1>5

\* Diff changes neither what the source declares nor what the database holds.
LEMMA SourcesKept == [Next]_vars => UNCHANGED <<src, schema>>
BY DEF Next, vars, GetTableMap, NextTable, Fail, CreateTableStep, AlterNewField, AlterOldField,
       PrimaryKey, VisitIndex, EndMakeIndexes, DropIndexStep, EndDropIndexes, AddIndexStep,
       EndTable, EndTables, DropLeftover, Return

\* Every statement that is emitted is one of the changes.
LEMMA MigrationsType == TypeInv /\ [Next]_vars => migrations' \in Seq(Change)
<1> SUFFICES ASSUME TypeInv, [Next]_vars PROVE migrations' \in Seq(Change)
  OBVIOUS
<1>1. migrations \in Seq(Change) /\ dropIndexes \in Seq(Index) /\ addIndexes \in Seq(Index)
  BY DEF TypeInv, TypeOK
<1>2. cur \in Tables /\ DOMAIN tableMap \subseteq Tables
  BY DEF TypeInv, TypeOK, IsSchema
<1>3. CASE CreateTableStep
  <2>1. New \in Seq(Field)
    BY <1>3, SidesType DEF CreateTableStep, Inner
  <2>2. CreateTable(cur, New) \in Change
    BY <1>2, <2>1, ChangeTypes
  <2>3. QED BY <1>1, <1>3, <2>2, AppendProperties DEF CreateTableStep
<1>4. CASE AlterNewField
  <2>1. CASE i \in DOMAIN New
    <3>1. Old \in Seq(Field) /\ New[i] \in Field
      BY <1>4, <2>1, SidesType DEF AlterNewField, Inner, Altering
    <3>2. AlterNew(Old, New[i]) \in Seq(Change)
      BY <3>1, AlterTypes
    <3>3. QED BY <1>1, <1>4, <2>1, <3>2, ConcatProperties DEF AlterNewField
  <2>2. QED BY <1>1, <1>4, <2>1 DEF AlterNewField
<1>5. CASE AlterOldField
  <2>1. CASE i \in DOMAIN Old
    <3>1. Old \in Seq(Field) /\ Old[i] \in Field
      BY <2>1, SidesType
    <3>2. AlterOld(New, Old[i]) \in Seq(Change)
      BY <3>1, AlterTypes
    <3>3. QED BY <1>1, <1>5, <2>1, <3>2, ConcatProperties DEF AlterOldField
  <2>2. QED BY <1>1, <1>5, <2>1 DEF AlterOldField
<1>6. CASE PrimaryKey
  <2>1. Old \in Seq(Field) /\ New \in Seq(Field)
    BY <1>6, SidesType DEF PrimaryKey, Inner, Altering
  <2>2. ModifyPrimaryKey(cur, Old, New) \in Change
    BY <1>2, <2>1, ChangeTypes
  <2>3. QED BY <1>1, <1>6, <2>2, AppendProperties DEF PrimaryKey
<1>7. CASE DropIndexStep
  <2>1. DropIndex(Head(dropIndexes)) \in Change
    BY <1>1, <1>7, HeadTailProperties, ChangeTypes DEF DropIndexStep
  <2>2. QED BY <1>1, <1>7, <2>1, AppendProperties DEF DropIndexStep
<1>8. CASE AddIndexStep
  <2>1. CreateIndex(Head(addIndexes)) \in Change
    BY <1>1, <1>8, HeadTailProperties, ChangeTypes DEF AddIndexStep
  <2>2. QED BY <1>1, <1>8, <2>1, AppendProperties DEF AddIndexStep
<1>9. CASE DropLeftover
  <2>1. PICK t \in DOMAIN tableMap : migrations' = Append(migrations, DropTable(t))
    BY <1>9 DEF DropLeftover
  <2>2. DropTable(t) \in Change
    BY <1>2, ChangeTypes
  <2>3. QED BY <1>1, <2>1, <2>2, AppendProperties
<1>10. CASE Fail
  BY <1>10, EmptySeq DEF Fail
<1>11. CASE GetTableMap \/ NextTable \/ VisitIndex \/ EndMakeIndexes \/ EndDropIndexes
             \/ EndTable \/ EndTables \/ Return \/ UNCHANGED vars
  BY <1>1, <1>11 DEF GetTableMap, NextTable, VisitIndex, EndMakeIndexes, EndDropIndexes,
                     EndTable, EndTables, Return, vars
<1>12. QED BY <1>3, <1>4, <1>5, <1>6, <1>7, <1>8, <1>9, <1>10, <1>11 DEF Next

\* What Diff read, less the tables it has dealt with.
LEMMA TableMapType == TypeInv /\ [Next]_vars => IsSchema(tableMap')
<1> SUFFICES ASSUME TypeInv, [Next]_vars PROVE IsSchema(tableMap')
  OBVIOUS
<1>1. IsSchema(schema) /\ IsSchema(tableMap)
  BY DEF TypeInv, TypeOK
<1>2. CASE GetTableMap
  BY <1>1, <1>2, RestrictedSchema DEF GetTableMap
<1>3. CASE EndTable
  BY <1>1, <1>3, RestrictedSchema DEF EndTable
<1>4. CASE DropLeftover
  <2>1. PICK t \in DOMAIN tableMap : tableMap' = [u \in DOMAIN tableMap \ {t} |-> tableMap[u]]
    BY <1>4 DEF DropLeftover
  <2>2. QED BY <1>1, <2>1, RestrictedSchema
<1>5. UNCHANGED tableMap \/ GetTableMap \/ EndTable \/ DropLeftover
  BY DEF Next, vars, NextTable, Fail, CreateTableStep, AlterNewField, AlterOldField,
         PrimaryKey, VisitIndex, EndMakeIndexes, DropIndexStep, EndDropIndexes, AddIndexStep,
         EndTables, Return
<1>6. QED BY <1>1, <1>2, <1>3, <1>4, <1>5

\* The lists of indexes, which only makeIndexes fills.
LEMMA ListsType ==
  TypeInv /\ [Next]_vars => dropIndexes' \in Seq(Index) /\ addIndexes' \in Seq(Index)
<1> SUFFICES ASSUME TypeInv, [Next]_vars
             PROVE  dropIndexes' \in Seq(Index) /\ addIndexes' \in Seq(Index)
  OBVIOUS
<1>1. dropIndexes \in Seq(Index) /\ addIndexes \in Seq(Index)
  BY DEF TypeInv, TypeOK
<1>2. CASE VisitIndex
  BY <1>2, VisitType
<1>3. CASE DropIndexStep
  BY <1>1, <1>3, HeadTailProperties DEF DropIndexStep
<1>4. CASE AddIndexStep
  BY <1>1, <1>4, HeadTailProperties DEF AddIndexStep
<1>5. CASE UNCHANGED <<dropIndexes, addIndexes>>
  BY <1>1, <1>5
<1>6. UNCHANGED <<dropIndexes, addIndexes>> \/ VisitIndex \/ DropIndexStep \/ AddIndexStep
  BY DEF Next, vars, GetTableMap, NextTable, Fail, CreateTableStep, AlterNewField, AlterOldField,
         PrimaryKey, EndMakeIndexes, EndDropIndexes, EndTable, EndTables, DropLeftover, Return
<1>7. QED BY <1>2, <1>3, <1>4, <1>5, <1>6

\* The place of the loops.
LEMMA PlaceType ==
  TypeInv /\ [Next]_vars => /\ names' \subseteq DOMAIN src'
                            /\ cur' \in Tables
                            /\ pc' \in Steps
                            /\ i' \in Nat \ {0}
                            /\ j' \in Nat \ {0}
                            /\ droppedColumn' \subseteq Columns
<1> SUFFICES ASSUME TypeInv, [Next]_vars
             PROVE  /\ names' \subseteq DOMAIN src /\ cur' \in Tables
                    /\ pc' \in Steps
                    /\ i' \in Nat \ {0} /\ j' \in Nat \ {0}
                    /\ droppedColumn' \subseteq Columns
  BY SourcesKept
<1>1. /\ names \subseteq DOMAIN src /\ DOMAIN src \subseteq Tables /\ cur \in Tables
      /\ pc \in Steps /\ i \in Nat \ {0} /\ j \in Nat \ {0} /\ droppedColumn \subseteq Columns
  BY DEF TypeInv, TypeOK, IsSchema
<1>2. names' \subseteq DOMAIN src /\ cur' \in Tables
  BY <1>1
  DEF Next, vars, GetTableMap, NextTable, Fail, CreateTableStep, AlterNewField, AlterOldField,
      PrimaryKey, VisitIndex, EndMakeIndexes, DropIndexStep, EndDropIndexes, AddIndexStep,
      EndTable, EndTables, DropLeftover, Return
<1>3. pc' \in Steps
  BY <1>1
  DEF Steps, Next, vars, GetTableMap, NextTable, Fail, CreateTableStep, AlterNewField, AlterOldField,
      PrimaryKey, VisitIndex, EndMakeIndexes, DropIndexStep, EndDropIndexes, AddIndexStep,
      EndTable, EndTables, DropLeftover, Return
<1>4. i' \in Nat \ {0} /\ j' \in Nat \ {0}
  BY <1>1
  DEF Next, vars, GetTableMap, NextTable, Fail, CreateTableStep, AlterNewField, AlterOldField,
      PrimaryKey, VisitIndex, EndMakeIndexes, DropIndexStep, EndDropIndexes, AddIndexStep,
      EndTable, EndTables, DropLeftover, Return
<1>5. droppedColumn' \subseteq Columns
  <2>1. CASE AlterOldField /\ i \in DOMAIN Old
    <3>1. Old[i].column \in Columns
      BY <2>1, SidesType DEF Field
    <3>2. QED BY <1>1, <2>1, <3>1 DEF AlterOldField
  <2>2. CASE UNCHANGED droppedColumn
    BY <1>1, <2>2
  <2>3. QED
    BY <2>1, <2>2
    DEF Next, vars, GetTableMap, NextTable, Fail, CreateTableStep, AlterNewField, AlterOldField,
        PrimaryKey, VisitIndex, EndMakeIndexes, DropIndexStep, EndDropIndexes, AddIndexStep,
        EndTable, EndTables, DropLeftover, Return
<1>6. QED BY <1>2, <1>3, <1>4, <1>5

\* The place of the loops is kept by every step.
LEMMA LoopInvStep == TypeInv /\ [Next]_vars => LoopInv'
<1> SUFFICES ASSUME TypeInv, [Next]_vars PROVE LoopInv'
  OBVIOUS
<1>1. LoopInv /\ names \subseteq DOMAIN src /\ src' = src
  BY SourcesKept DEF TypeInv, TypeOK
<1>2. (pc \in Inner => cur \in DOMAIN src /\ cur \notin names)'
  BY <1>1
  DEF LoopInv, Inner, Altering, Indexing, Next, vars, GetTableMap, NextTable, Fail, CreateTableStep,
      AlterNewField, AlterOldField, PrimaryKey, VisitIndex, EndMakeIndexes, DropIndexStep,
      EndDropIndexes, AddIndexStep, EndTable, EndTables, DropLeftover, Return
<1>3. (pc \in Altering => cur \in DOMAIN tableMap)'
  BY <1>1
  DEF LoopInv, Altering, Next, vars, GetTableMap, NextTable, Fail, CreateTableStep,
      AlterNewField, AlterOldField, PrimaryKey, VisitIndex, EndMakeIndexes, DropIndexStep,
      EndDropIndexes, AddIndexStep, EndTable, EndTables, DropLeftover, Return
<1>4. /\ (pc \notin Indexing => dropIndexes = <<>> /\ addIndexes = <<>>)'
      /\ (pc = "addIndexes" => dropIndexes = <<>>)'
  BY <1>1
  DEF LoopInv, Indexing, Next, vars, GetTableMap, NextTable, Fail, CreateTableStep,
      AlterNewField, AlterOldField, PrimaryKey, VisitIndex, EndMakeIndexes, DropIndexStep,
      EndDropIndexes, AddIndexStep, EndTable, EndTables, DropLeftover, Return
<1>5. QED BY <1>2, <1>3, <1>4 DEF LoopInv

\* The typed invariant is kept by every step.
LEMMA TypeInvStep == TypeInv /\ [Next]_vars => TypeInv'
<1> SUFFICES ASSUME TypeInv, [Next]_vars PROVE TypeInv'
  OBVIOUS
<1>1. IsSchema(src)' /\ IsSchema(schema)'
  BY SourcesKept DEF TypeInv, TypeOK
<1>2. TypeOK'
  BY <1>1, TableMapType, MigrationsType, ListsType, PlaceType DEF TypeOK
<1>3. QED BY <1>2, LoopInvStep DEF TypeInv

\* The typed invariant holds throughout.
LEMMA TypeInvHolds == Spec => []TypeInv
BY InitTypeInv, TypeInvStep, PTL DEF Spec

\* Type correctness: every statement Diff emits is well formed, and so is every index it
\* gathers, for every source and database.
THEOREM TypeCorrect == Spec => []TypeOK
<1>1. TypeInv => TypeOK
  BY DEF TypeInv
<1>2. QED BY <1>1, TypeInvHolds, PTL

-----------------------------------------------------------------------------
(* What tableMap still holds.                                              *)

\* The declared tables Diff has not finished with.
Pending == names \union (IF pc \in Inner THEN {cur} ELSE {})

\* tableMap is the part of the database that was read and is not dealt with: of the declared
\* tables, exactly those that are pending and exist.
ReadInv ==
  /\ \A t \in DOMAIN tableMap : t \in DOMAIN schema \intersect Requested /\ tableMap[t] = schema[t]
  /\ pc \notin {"start", "failed"} =>
       /\ DOMAIN tableMap \intersect DOMAIN src \subseteq Pending
       /\ Pending \intersect DOMAIN schema \subseteq DOMAIN tableMap
  /\ pc \in {"leftover", "done"} => names = {}
  /\ pc = "create" => cur \notin DOMAIN schema

\* Nothing has been read when Diff starts.
LEMMA InitReadInv == Init => ReadInv
BY DEF Init, ReadInv

\* What is left of the tables read is what the database holds of them.
LEMMA ReadInvStep == TypeInv /\ ReadInv /\ [Next]_vars => ReadInv'
<1> SUFFICES ASSUME TypeInv, ReadInv, [Next]_vars PROVE ReadInv'
  OBVIOUS
<1>1. src' = src /\ schema' = schema /\ Requested' = Requested
  BY SourcesKept DEF Requested
<1>2. LoopInv /\ names \subseteq DOMAIN src /\ DOMAIN tableMap \subseteq Tables /\ DOMAIN schema \subseteq Tables
  BY DEF TypeInv, TypeOK, IsSchema
<1>3. (\A t \in DOMAIN tableMap : t \in DOMAIN schema \intersect Requested /\ tableMap[t] = schema[t])'
  <2>1. CASE GetTableMap
    BY <1>1, <2>1 DEF GetTableMap
  <2>2. CASE UNCHANGED tableMap
    BY <1>1, <2>2 DEF ReadInv
  <2>3. CASE EndTable
    BY <1>1, <2>3 DEF EndTable, ReadInv
  <2>4. CASE DropLeftover
    BY <1>1, <2>4 DEF DropLeftover, ReadInv
  <2>5. QED
    BY <2>1, <2>2, <2>3, <2>4
    DEF Next, vars, NextTable, Fail, CreateTableStep, AlterNewField, AlterOldField, PrimaryKey,
        VisitIndex, EndMakeIndexes, DropIndexStep, EndDropIndexes, AddIndexStep, EndTables, Return
<1>4. (pc \notin {"start", "failed"} =>
         /\ DOMAIN tableMap \intersect DOMAIN src \subseteq Pending
         /\ Pending \intersect DOMAIN schema \subseteq DOMAIN tableMap)'
  <2>1. CASE GetTableMap
    <3>1. /\ DOMAIN tableMap' = DOMAIN schema \intersect Requested
          /\ names' = DOMAIN src
          /\ Pending' = DOMAIN src
      BY <2>1 DEF GetTableMap, Pending, Inner, Altering, Indexing
    <3>2. DOMAIN src \subseteq Requested
      BY DEF Requested
    <3>3. QED BY <1>1, <3>1, <3>2
  <2>2. CASE NextTable
    <3>1. Pending' = Pending /\ tableMap' = tableMap /\ pc \notin {"start", "failed"}
      BY <2>2 DEF NextTable, Pending, Inner, Altering, Indexing
    <3>2. QED BY <1>1, <3>1 DEF ReadInv
  <2>3. CASE EndTable
    <3>1. /\ Pending' = names
          /\ Pending = names \union {cur}
          /\ cur \notin names
          /\ DOMAIN tableMap' = DOMAIN tableMap \ {cur}
          /\ pc \notin {"start", "failed"}
      BY <1>2, <2>3 DEF EndTable, Pending, Inner, Altering, Indexing, LoopInv
    <3>2. QED BY <1>1, <3>1 DEF ReadInv
  <2>4. CASE DropLeftover
    <3>1. /\ Pending' = {}
          /\ Pending = {}
          /\ DOMAIN tableMap' \subseteq DOMAIN tableMap
          /\ pc \notin {"start", "failed"}
      BY <2>4 DEF DropLeftover, Pending, Inner, Altering, Indexing, ReadInv
    <3>2. QED BY <1>1, <3>1 DEF ReadInv
  <2>5. CASE Fail
    BY <2>5 DEF Fail
  <2>6. CASE UNCHANGED <<tableMap, names, cur, pc>>
    BY <1>1, <2>6 DEF ReadInv, Pending
  <2>7. CASE CreateTableStep \/ AlterNewField \/ AlterOldField \/ PrimaryKey \/ EndMakeIndexes
             \/ EndDropIndexes \/ EndTables \/ Return
    <3>1. UNCHANGED <<tableMap, names, Pending>> /\ pc \notin {"start", "failed"}
      BY <2>7
      DEF CreateTableStep, AlterNewField, AlterOldField, PrimaryKey, EndMakeIndexes, EndDropIndexes,
          EndTables, Return, Pending, Inner, Altering, Indexing
    <3>2. QED BY <1>1, <3>1 DEF ReadInv
  <2>8. QED
    BY <2>1, <2>2, <2>3, <2>4, <2>5, <2>6, <2>7
    DEF Next, vars, VisitIndex, DropIndexStep, AddIndexStep
<1>5. (pc \in {"leftover", "done"} => names = {})'
  BY DEF ReadInv, Next, vars, GetTableMap, NextTable, Fail, CreateTableStep, AlterNewField, AlterOldField,
         PrimaryKey, VisitIndex, EndMakeIndexes, DropIndexStep, EndDropIndexes, AddIndexStep,
         EndTable, EndTables, DropLeftover, Return
<1>6. (pc = "create" => cur \notin DOMAIN schema)'
  <2>1. CASE NextTable
    <3>1. PICK t \in names : cur' = t /\ pc' = IF t \in DOMAIN tableMap THEN "alterNew" ELSE "create"
      BY <2>1 DEF NextTable
    <3>2. t \in DOMAIN schema => t \in DOMAIN tableMap
      BY <2>1 DEF NextTable, ReadInv, Pending
    <3>3. QED BY <1>1, <3>1, <3>2
  <2>2. CASE ~NextTable
    BY <1>1, <2>2
    DEF ReadInv, Next, vars, GetTableMap, Fail, CreateTableStep, AlterNewField, AlterOldField,
        PrimaryKey, VisitIndex, EndMakeIndexes, DropIndexStep, EndDropIndexes, AddIndexStep,
        EndTable, EndTables, DropLeftover, Return
  <2>3. QED BY <2>1, <2>2
<1>7. QED BY <1>3, <1>4, <1>5, <1>6 DEF ReadInv

\* What an iteration compares the struct with is what the database holds.
LEMMA OldIsRead ==
  ASSUME TypeInv, ReadInv, pc \in Inner
  PROVE  Old = OldFields(cur)
<1>1. cur \in DOMAIN schema => cur \in DOMAIN tableMap
  BY DEF ReadInv, Pending, Inner, Altering, Indexing
<1>2. QED BY <1>1 DEF ReadInv, Old, OldFields

-----------------------------------------------------------------------------
(* Every change is due.                                                    *)

\* The lists are those of the table of this iteration.
ListsInv ==
  /\ \A n \in DOMAIN dropIndexes : dropIndexes[n].table = cur
  /\ \A n \in DOMAIN addIndexes : addIndexes[n].table = cur

DueInv == TypeInv /\ ReadInv /\ ListsInv /\ EveryChangeIsDue

\* Whether a change is due depends on what is declared and on what was found only.
LEMMA DueIsStable ==
  ASSUME src' = src, schema' = schema
  PROVE  /\ \A c : Due(c)' <=> Due(c)
         /\ \A x : DropIndexDue(x)' <=> DropIndexDue(x)
         /\ \A x : CreateIndexDue(x)' <=> CreateIndexDue(x)
<1>1. ASSUME NEW x PROVE DropIndexDue(x)' <=> DropIndexDue(x)
  BY DEF DropIndexDue, OldFields, NewHas
<1>2. ASSUME NEW x PROVE CreateIndexDue(x)' <=> CreateIndexDue(x)
  BY DEF CreateIndexDue, OldFields
<1>3. ASSUME NEW c PROVE Due(c)' <=> Due(c)
  BY <1>1, <1>2 DEF Due, NewHas, OldHas
<1>4. QED BY <1>1, <1>2, <1>3

\* A key that lists the same columns is not taken for changed.
LEMMA SameKeyUnchanged ==
  ASSUME NEW old \in Seq(Field), NEW new \in Seq(Field), SameKey(old, new)
  PROVE  ~PkChanged(old, new)
<1>1. PICK counterpart \in Bijection(KeyFields(new), KeyFields(old)) :
        \A n \in KeyFields(new) : old[counterpart[n]].column = new[n].column
  BY DEF SameKey
<1>2. Cardinality(KeyFields(new)) = Cardinality(KeyFields(old))
  BY KeyFieldsFinite, FS_Bijection DEF ExistsBijection
<1>3. \A n \in KeyFields(new) : counterpart[n] \in KeyFields(old)
  BY DEF Bijection, Injection
<1>4. \A n \in KeyFields(new) : new[n].column \in PkColumns(old)
  BY <1>1, <1>3 DEF PkColumns
<1>5. QED BY <1>2, <1>4 DEF PkChanged

\* The changes of the columns of one table.
LEMMA ColumnChangesAreDue ==
  ASSUME TypeInv, ReadInv, pc \in Altering
  PROVE  /\ \A n \in DOMAIN New : LET cs == AlterNew(Old, New[n])
                                  IN  cs = <<>> \/ \E c \in Change : cs = <<c>> /\ Due(c)
         /\ \A n \in DOMAIN Old : LET cs == AlterOld(New, Old[n])
                                  IN  cs = <<>> \/ \E c \in Change : cs = <<c>> /\ Due(c)
<1>1. /\ Old \in Seq(Field) /\ New \in Seq(Field)
      /\ \A n \in DOMAIN Old : Old[n] \in Field /\ Old[n].table = cur
      /\ \A n \in DOMAIN New : New[n] \in Field /\ New[n].table = cur
  BY SidesType DEF Inner
<1>2. /\ cur \in DOMAIN src /\ New = src[cur]
      /\ cur \in DOMAIN schema /\ Old = schema[cur]
  BY DEF TypeInv, LoopInv, ReadInv, Inner, New, Old
<1>3. /\ \A n \in DOMAIN New : NewHas(cur, New[n].column)
      /\ \A n \in DOMAIN Old : OldHas(cur, Old[n].column)
  BY <1>2 DEF NewHas, OldHas, ColumnsOf
<1>4. ASSUME NEW n \in DOMAIN New
      PROVE  LET cs == AlterNew(Old, New[n])
             IN  cs = <<>> \/ \E c \in Change : cs = <<c>> /\ Due(c)
  <2>1. CASE AlterNew(Old, New[n]) = <<>>
    BY <2>1
  <2>2. CASE AlterNew(Old, New[n]) = <<AddColumn(New[n])>> /\ New[n].column \notin ColumnsOf(Old)
    <3> DEFINE c == AddColumn(New[n])
    <3>1. c.op = "addColumn" /\ c.table = cur /\ c.new = New[n]
      BY <1>1 DEF AddColumn
    <3>2. c \in Change
      BY <1>1, ChangeTypes
    <3> HIDE DEF c
    <3>3. Due(c)
      BY <1>2, <1>3, <2>2, <3>1 DEF Due, OldHas
    <3>4. QED BY <2>2, <3>2, <3>3 DEF c
  <2>3. CASE \E m \in DOMAIN Old :
               AlterNew(Old, New[n]) = <<ModifyColumn(Old[m], New[n])>> /\ IsDifferent(Old[m], New[n])
    <3>1. PICK m \in DOMAIN Old :
               AlterNew(Old, New[n]) = <<ModifyColumn(Old[m], New[n])>> /\ IsDifferent(Old[m], New[n])
      BY <2>3
    <3> DEFINE c == ModifyColumn(Old[m], New[n])
    <3>2. c.op = "modifyColumn" /\ c.table = cur /\ c.old = Old[m] /\ c.new = New[n]
      BY <1>1 DEF ModifyColumn
    <3>3. c \in Change
      BY <1>1, ChangeTypes
    <3> HIDE DEF c
    <3>4. Due(c)
      BY <1>3, <3>1, <3>2 DEF Due
    <3>5. QED BY <3>1, <3>3, <3>4 DEF c
  <2>4. QED BY <1>1, <2>1, <2>2, <2>3, AlterNewCases
<1>5. ASSUME NEW n \in DOMAIN Old
      PROVE  LET cs == AlterOld(New, Old[n])
             IN  cs = <<>> \/ \E c \in Change : cs = <<c>> /\ Due(c)
  <2>1. CASE AlterOld(New, Old[n]) = <<>>
    BY <2>1
  <2>2. CASE AlterOld(New, Old[n]) = <<DropColumn(Old[n])>> /\ Old[n].column \notin ColumnsOf(New)
    <3> DEFINE c == DropColumn(Old[n])
    <3>1. c.op = "dropColumn" /\ c.table = cur /\ c.old = Old[n]
      BY <1>1 DEF DropColumn
    <3>2. c \in Change
      BY <1>1, ChangeTypes
    <3> HIDE DEF c
    <3>3. Due(c)
      BY <1>2, <1>3, <2>2, <3>1 DEF Due, NewHas
    <3>4. QED BY <2>2, <3>2, <3>3 DEF c
  <2>3. QED BY <2>1, <2>2, AlterOldCases
<1>6. QED BY <1>4, <1>5

\* A column appended to the columns of an index.
LEMMA AppendedColumn ==
  ASSUME NEW cs \in Seq(Columns), NEW c \in Columns
  PROVE  /\ Append(cs, c) # <<>>
         /\ \A n \in DOMAIN Append(cs, c) : (n \in DOMAIN cs /\ Append(cs, c)[n] = cs[n])
                                             \/ Append(cs, c)[n] = c
<1>1. /\ Append(cs, c) \in Seq(Columns)
      /\ Append(cs, c) # <<>>
      /\ Len(Append(cs, c)) = Len(cs) + 1
      /\ \A n \in 1..Len(cs) : Append(cs, c)[n] = cs[n]
      /\ Append(cs, c)[Len(cs) + 1] = c
  BY AppendProperties
<1>2. /\ Len(cs) \in Nat
      /\ DOMAIN cs = 1..Len(cs)
      /\ DOMAIN Append(cs, c) = 1..(Len(cs) + 1)
  BY <1>1, LenProperties
<1>3. QED BY <1>1, <1>2

\* A visit that finds no counterpart keeps both lists due: it adds its column to an index
\* that is due already, or starts one.
LEMMA VisitIsDue ==
  ASSUME DueInv, VisitIndex
  PROVE  /\ \A n \in DOMAIN dropIndexes' : DropIndexDue(dropIndexes'[n]) /\ dropIndexes'[n].table = cur
         /\ \A n \in DOMAIN addIndexes' : CreateIndexDue(addIndexes'[n]) /\ addIndexes'[n].table = cur
<1>1. pc \in Inner /\ i \in DOMAIN New /\ TypeInv /\ ReadInv
  BY DEF VisitIndex, Inner, Indexing, DueInv
<1>2. /\ Old \in Seq(Field) /\ New \in Seq(Field) /\ New[i] \in Field
      /\ Old = OldFields(cur)
      /\ cur \in DOMAIN src /\ New = src[cur]
      /\ cur \in Tables
  BY <1>1, SidesType, OldIsRead DEF TypeInv, TypeOK, LoopInv, New
<1>3. /\ dropIndexes \in Seq(Index) /\ addIndexes \in Seq(Index)
      /\ \A n \in DOMAIN dropIndexes : dropIndexes[n] \in Index
      /\ \A n \in DOMAIN addIndexes : addIndexes[n] \in Index
  BY <1>1, LenProperties, ElementOfSeq DEF TypeInv, TypeOK
<1>4. /\ \A n \in DOMAIN dropIndexes : DropIndexDue(dropIndexes[n]) /\ dropIndexes[n].table = cur
      /\ \A n \in DOMAIN addIndexes : CreateIndexDue(addIndexes[n]) /\ addIndexes[n].table = cur
  BY DEF DueInv, ListsInv, EveryChangeIsDue
<1> DEFINE visits == IndexVisits(Old, New[i])
           v == visits[j]
<1>5. CASE j \notin DOMAIN visits
  BY <1>4, <1>5 DEF VisitIndex
<1>6. CASE j \in DOMAIN visits
  <2>1. visits \in Seq(Visit) /\ v \in Visit /\ VisitOf(Old, New[i], v)
    BY <1>2, <1>6, IndexVisitsType, LenProperties, ElementOfSeq
  <2>2. /\ dropIndexes' = IF v.kept \/ v.add THEN dropIndexes ELSE AddToIndexes(dropIndexes, cur, v)
        /\ addIndexes' = IF v.kept \/ ~v.add THEN addIndexes ELSE AddToIndexes(addIndexes, cur, v)
    BY <1>6 DEF VisitIndex
  <2> HIDE DEF visits, v
  <2>3. v.column \in Columns /\ v.unique \in BOOLEAN /\ v.column = New[i].column
    BY <2>1 DEF Visit, VisitOf
  <2>4. NewHas(cur, v.column)
    BY <1>1, <1>2, <2>3 DEF NewHas, ColumnsOf
  <2>5. ~v.kept /\ ~v.add => /\ HasIndex(OldFields(cur), v.column, v.name, v.unique)
                             /\ LacksIndex(src[cur], v.column, v.name, v.unique)
    BY <1>1, <1>2, <2>1, <2>3 DEF VisitOf, LacksIndex
  <2>6. ~v.kept /\ v.add => /\ HasIndex(src[cur], v.column, v.name, v.unique)
                            /\ LacksIndex(OldFields(cur), v.column, v.name, v.unique)
    BY <1>1, <1>2, <2>1, <2>3 DEF VisitOf, HasIndex
  <2>7. /\ Started(cur, v).table = cur
        /\ Started(cur, v).name = v.name
        /\ Started(cur, v).columns = <<v.column>>
        /\ <<v.column>> # <<>>
        /\ \A n \in DOMAIN <<v.column>> : <<v.column>>[n] = v.column
    BY DEF Started
  <2>8. ASSUME NEW x \in Index, x.name = v.name
        PROVE  /\ Extended(x, v).table = x.table
               /\ Extended(x, v).name = v.name
               /\ Extended(x, v).columns = Append(x.columns, v.column)
               /\ x.columns \in Seq(Columns)
    BY <2>8 DEF Extended, Index
  <2>9. ASSUME ~v.kept, ~v.add
        PROVE  \A n \in DOMAIN dropIndexes' : DropIndexDue(dropIndexes'[n]) /\ dropIndexes'[n].table = cur
    <3> DEFINE ys == AddToIndexes(dropIndexes, cur, v)
    <3>1. DropIndexDue(Started(cur, v))
      BY <1>2, <2>3, <2>4, <2>5, <2>7, <2>9 DEF DropIndexDue
    <3>2. ASSUME NEW x \in Index, x.name = v.name, x.table = cur, DropIndexDue(x)
          PROVE  DropIndexDue(Extended(x, v)) /\ Extended(x, v).table = cur
      <4> DEFINE cs == Append(x.columns, v.column)
                 DueOn(c) == \E unique \in BOOLEAN :
                               /\ HasIndex(OldFields(cur), c, v.name, unique)
                               /\ NewHas(cur, c)
                               /\ LacksIndex(src[cur], c, v.name, unique)
      <4>1. DueOn(v.column) /\ \A n \in DOMAIN x.columns : DueOn(x.columns[n])
        BY <2>3, <2>4, <2>5, <2>9, <3>2 DEF DropIndexDue
      <4>2. cs # <<>> /\ \A n \in DOMAIN cs : (n \in DOMAIN x.columns /\ cs[n] = x.columns[n]) \/ cs[n] = v.column
        BY <2>3, <2>8, <3>2, AppendedColumn
      <4> HIDE DEF cs, DueOn
      <4>3. \A n \in DOMAIN cs : DueOn(cs[n])
        BY <4>1, <4>2
      <4>4. Extended(x, v).columns = cs /\ Extended(x, v).name = v.name /\ Extended(x, v).table = cur
        BY <2>8, <3>2 DEF cs
      <4>5. QED BY <1>2, <4>2, <4>3, <4>4 DEF DropIndexDue, DueOn
    <3>3. ASSUME NEW n \in DOMAIN ys
          PROVE  \/ \E m \in DOMAIN dropIndexes : ys[n] = dropIndexes[m]
                 \/ \E m \in DOMAIN dropIndexes :
                      dropIndexes[m].name = v.name /\ ys[n] = Extended(dropIndexes[m], v)
                 \/ ys[n] = Started(cur, v)
      BY <1>2, <1>3, <2>1, AddToIndexesType
    <3>4. QED BY <1>3, <1>4, <2>2, <2>7, <2>9, <3>1, <3>2, <3>3
  <2>10. ASSUME ~v.kept, v.add
         PROVE  \A n \in DOMAIN addIndexes' : CreateIndexDue(addIndexes'[n]) /\ addIndexes'[n].table = cur
    <3> DEFINE ys == AddToIndexes(addIndexes, cur, v)
    <3>1. CreateIndexDue(Started(cur, v))
      BY <1>2, <2>3, <2>6, <2>7, <2>10 DEF CreateIndexDue
    <3>2. ASSUME NEW x \in Index, x.name = v.name, x.table = cur, CreateIndexDue(x)
          PROVE  CreateIndexDue(Extended(x, v)) /\ Extended(x, v).table = cur
      <4> DEFINE cs == Append(x.columns, v.column)
                 DueOn(c) == \E unique \in BOOLEAN :
                               /\ HasIndex(src[cur], c, v.name, unique)
                               /\ LacksIndex(OldFields(cur), c, v.name, unique)
      <4>1. DueOn(v.column) /\ \A n \in DOMAIN x.columns : DueOn(x.columns[n])
        BY <2>3, <2>6, <2>10, <3>2 DEF CreateIndexDue
      <4>2. cs # <<>> /\ \A n \in DOMAIN cs : (n \in DOMAIN x.columns /\ cs[n] = x.columns[n]) \/ cs[n] = v.column
        BY <2>3, <2>8, <3>2, AppendedColumn
      <4> HIDE DEF cs, DueOn
      <4>3. \A n \in DOMAIN cs : DueOn(cs[n])
        BY <4>1, <4>2
      <4>4. Extended(x, v).columns = cs /\ Extended(x, v).name = v.name /\ Extended(x, v).table = cur
        BY <2>8, <3>2 DEF cs
      <4>5. QED BY <1>2, <4>2, <4>3, <4>4 DEF CreateIndexDue, DueOn
    <3>3. ASSUME NEW n \in DOMAIN ys
          PROVE  \/ \E m \in DOMAIN addIndexes : ys[n] = addIndexes[m]
                 \/ \E m \in DOMAIN addIndexes :
                      addIndexes[m].name = v.name /\ ys[n] = Extended(addIndexes[m], v)
                 \/ ys[n] = Started(cur, v)
      BY <1>2, <1>3, <2>1, AddToIndexesType
    <3>4. QED BY <1>3, <1>4, <2>2, <2>7, <2>10, <3>1, <3>2, <3>3
  <2>11. QED BY <1>4, <2>2, <2>9, <2>10
<1>7. QED BY <1>5, <1>6

\* A statement that is due, appended to those that are.
LEMMA AppendedDue ==
  ASSUME migrations \in Seq(Change), NEW c \in Change, Due(c),
         \A n \in DOMAIN migrations : Due(migrations[n]),
         migrations' = Append(migrations, c)
  PROVE  \A n \in DOMAIN migrations' : Due(migrations'[n])
<1>1. /\ migrations' \in Seq(Change)
      /\ Len(migrations') = Len(migrations) + 1
      /\ \A n \in 1..Len(migrations) : migrations'[n] = migrations[n]
      /\ migrations'[Len(migrations) + 1] = c
  BY AppendProperties
<1>2. /\ Len(migrations) \in Nat
      /\ DOMAIN migrations = 1..Len(migrations)
      /\ DOMAIN migrations' = 1..(Len(migrations) + 1)
  BY <1>1, LenProperties
<1>3. QED BY <1>1, <1>2

\* A step emits nothing, forgets everything, or appends one statement that is due.
LEMMA EmittedIsDue ==
  ASSUME DueInv, [Next]_vars
  PROVE  \/ migrations' = migrations
         \/ migrations' = <<>>
         \/ \E c \in Change : Due(c) /\ migrations' = Append(migrations, c)
<1>1. /\ TypeInv /\ ReadInv
      /\ migrations \in Seq(Change) /\ cur \in Tables
      /\ dropIndexes \in Seq(Index) /\ addIndexes \in Seq(Index)
      /\ DOMAIN tableMap \subseteq Tables
  BY DEF DueInv, TypeInv, TypeOK, IsSchema
<1>2. migrations \o <<>> = migrations /\ \A c : migrations \o <<c>> = Append(migrations, c)
  BY <1>1, ConcatEmptySeq, AppendIsConcat
<1>3. CASE CreateTableStep
  <2>1. /\ pc = "create" /\ pc \in Inner
        /\ cur \in DOMAIN src \ DOMAIN schema
        /\ migrations' = Append(migrations, CreateTable(cur, New))
    BY <1>1, <1>3 DEF CreateTableStep, Inner, TypeInv, LoopInv, ReadInv
  <2>2. CreateTable(cur, New) \in Change
    BY <1>1, <2>1, SidesType, ChangeTypes
  <2>3. Due(CreateTable(cur, New))
    BY <2>1 DEF Due, CreateTable, New
  <2>4. QED BY <2>1, <2>2, <2>3
<1>4. CASE AlterNewField
  <2>1. CASE i \in DOMAIN New
    <3>1. pc \in Altering /\ migrations' = migrations \o AlterNew(Old, New[i])
      BY <1>4, <2>1 DEF AlterNewField, Altering
    <3>2. \/ AlterNew(Old, New[i]) = <<>>
          \/ \E c \in Change : AlterNew(Old, New[i]) = <<c>> /\ Due(c)
      BY <1>1, <2>1, <3>1, ColumnChangesAreDue
    <3>3. QED BY <1>2, <3>1, <3>2
  <2>2. QED BY <1>4, <2>1 DEF AlterNewField
<1>5. CASE AlterOldField
  <2>1. CASE i \in DOMAIN Old
    <3>1. pc \in Altering /\ migrations' = migrations \o AlterOld(New, Old[i])
      BY <1>5, <2>1 DEF AlterOldField, Altering
    <3>2. \/ AlterOld(New, Old[i]) = <<>>
          \/ \E c \in Change : AlterOld(New, Old[i]) = <<c>> /\ Due(c)
      BY <1>1, <2>1, <3>1, ColumnChangesAreDue
    <3>3. QED BY <1>2, <3>1, <3>2
  <2>2. QED BY <1>5, <2>1 DEF AlterOldField
<1>6. CASE PrimaryKey
  <2> DEFINE c == ModifyPrimaryKey(cur, Old, New)
  <2>1. pc \in Altering /\ pc \in Inner /\ cur \in DOMAIN src /\ cur \in DOMAIN schema
    BY <1>1, <1>6 DEF PrimaryKey, Altering, Inner, TypeInv, LoopInv, ReadInv
  <2>2. c \in Change
    BY <1>1, <2>1, SidesType, ChangeTypes
  <2>3. PkChanged(Old, New) => Due(c)
    <3>1. Old = schema[cur] /\ New = src[cur] /\ Old \in Seq(Field) /\ New \in Seq(Field)
      BY <1>1, <2>1, OldIsRead, SidesType DEF OldFields, New
    <3>2. PkChanged(Old, New) => ~SameKey(schema[cur], src[cur])
      BY <3>1, SameKeyUnchanged
    <3>3. QED BY <2>1, <3>1, <3>2 DEF Due, ModifyPrimaryKey
  <2>4. QED BY <1>6, <2>2, <2>3 DEF PrimaryKey
<1>7. CASE DropIndexStep
  <2> DEFINE x == Head(dropIndexes)
  <2>1. x \in Index /\ x = dropIndexes[1] /\ 1 \in DOMAIN dropIndexes
    BY <1>1, <1>7, HeadTailProperties, EmptySeq, LenProperties DEF DropIndexStep
  <2>2. DropIndexDue(x)
    BY <2>1 DEF DueInv, EveryChangeIsDue
  <2> HIDE DEF x
  <2>3. DropIndex(x) \in Change
    BY <2>1, ChangeTypes
  <2>4. Due(DropIndex(x))
    BY <2>2 DEF Due, DropIndex
  <2>5. migrations' = migrations \/ migrations' = Append(migrations, DropIndex(x))
    BY <1>7 DEF DropIndexStep, x
  <2>6. QED BY <2>3, <2>4, <2>5
<1>8. CASE AddIndexStep
  <2> DEFINE x == Head(addIndexes)
  <2>1. x \in Index /\ x = addIndexes[1] /\ 1 \in DOMAIN addIndexes
    BY <1>1, <1>8, HeadTailProperties, EmptySeq, LenProperties DEF AddIndexStep
  <2>2. CreateIndexDue(x)
    BY <2>1 DEF DueInv, EveryChangeIsDue
  <2> HIDE DEF x
  <2>3. CreateIndex(x) \in Change
    BY <2>1, ChangeTypes
  <2>4. Due(CreateIndex(x))
    BY <2>2 DEF Due, CreateIndex
  <2>5. migrations' = Append(migrations, CreateIndex(x))
    BY <1>8 DEF AddIndexStep, x
  <2>6. QED BY <2>3, <2>4, <2>5
<1>9. CASE DropLeftover
  <2>1. PICK t \in DOMAIN tableMap : migrations' = Append(migrations, DropTable(t))
    BY <1>9 DEF DropLeftover
  <2>2. DropTable(t) \in Change
    BY <1>1, ChangeTypes
  <2>3. t \notin DOMAIN src
    BY <1>1, <1>9 DEF DropLeftover, ReadInv, Pending, Inner, Altering, Indexing
  <2>4. t \in DOMAIN schema /\ DOMAIN src = {}
    BY <1>1, <2>3 DEF ReadInv, Requested
  <2>5. Due(DropTable(t))
    BY <2>4 DEF Due, DropTable
  <2>6. QED BY <2>1, <2>2, <2>5
<1>10. CASE Fail
  BY <1>10 DEF Fail
<1>11. CASE UNCHANGED migrations
  BY <1>11
<1>12. QED
  BY <1>3, <1>4, <1>5, <1>6, <1>7, <1>8, <1>9, <1>10, <1>11
  DEF Next, vars, GetTableMap, NextTable, VisitIndex, EndMakeIndexes, EndDropIndexes,
      EndTable, EndTables, Return

\* The elements of the tail of a list are elements of the list.
LEMMA TailElements ==
  ASSUME NEW S, NEW s \in Seq(S), s # <<>>
  PROVE  \A n \in DOMAIN Tail(s) : n + 1 \in DOMAIN s /\ Tail(s)[n] = s[n + 1]
<1>1. /\ Tail(s) \in Seq(S)
      /\ Len(Tail(s)) = Len(s) - 1
      /\ \A n \in 1..Len(Tail(s)) : Tail(s)[n] = s[n + 1]
  BY HeadTailProperties
<1>2. /\ Len(s) \in Nat
      /\ DOMAIN s = 1..Len(s)
      /\ DOMAIN Tail(s) = 1..Len(Tail(s))
  BY <1>1, LenProperties
<1>3. QED BY <1>1, <1>2

\* The two lists of indexes only ever hold indexes of this table that are due.
LEMMA ListsStayDue ==
  ASSUME DueInv, [Next]_vars
  PROVE  /\ \A n \in DOMAIN dropIndexes' : DropIndexDue(dropIndexes'[n]) /\ dropIndexes'[n].table = cur'
         /\ \A n \in DOMAIN addIndexes' : CreateIndexDue(addIndexes'[n]) /\ addIndexes'[n].table = cur'
<1>1. dropIndexes \in Seq(Index) /\ addIndexes \in Seq(Index) /\ LoopInv
  BY DEF DueInv, TypeInv, TypeOK
<1>2. /\ \A n \in DOMAIN dropIndexes : DropIndexDue(dropIndexes[n]) /\ dropIndexes[n].table = cur
      /\ \A n \in DOMAIN addIndexes : CreateIndexDue(addIndexes[n]) /\ addIndexes[n].table = cur
  BY DEF DueInv, ListsInv, EveryChangeIsDue
<1>3. CASE VisitIndex
  BY <1>3, VisitIsDue DEF VisitIndex
<1>4. CASE DropIndexStep
  BY <1>1, <1>2, <1>4, TailElements DEF DropIndexStep
<1>5. CASE AddIndexStep
  BY <1>1, <1>2, <1>5, TailElements DEF AddIndexStep
<1>6. CASE NextTable
  <2>1. dropIndexes' = <<>> /\ addIndexes' = <<>>
    BY <1>1, <1>6 DEF NextTable, LoopInv, Indexing
  <2>2. QED BY <2>1
<1>7. CASE UNCHANGED <<dropIndexes, addIndexes, cur>>
  BY <1>2, <1>7
<1>8. QED
  BY <1>3, <1>4, <1>5, <1>6, <1>7
  DEF Next, vars, GetTableMap, Fail, CreateTableStep, AlterNewField, AlterOldField, PrimaryKey,
      EndMakeIndexes, EndDropIndexes, EndTable, EndTables, DropLeftover, Return

\* Every step keeps the changes, and the lists they are made from, due.
LEMMA DueInvStep == DueInv /\ [Next]_vars => DueInv'
<1> SUFFICES ASSUME DueInv, [Next]_vars PROVE DueInv'
  OBVIOUS
<1>1. TypeInv' /\ ReadInv'
  BY TypeInvStep, ReadInvStep DEF DueInv
<1>2. src' = src /\ schema' = schema
  BY SourcesKept
<1>3. ListsInv'
  BY ListsStayDue DEF ListsInv
<1>4. \A n \in DOMAIN migrations' : Due(migrations'[n])
  <2>1. migrations \in Seq(Change) /\ \A n \in DOMAIN migrations : Due(migrations[n])
    BY DEF DueInv, TypeInv, TypeOK, EveryChangeIsDue
  <2>2. CASE migrations' = migrations
    BY <2>1, <2>2
  <2>3. CASE migrations' = <<>>
    BY <2>3
  <2>4. CASE \E c \in Change : Due(c) /\ migrations' = Append(migrations, c)
    BY <2>1, <2>4, AppendedDue
  <2>5. QED BY <2>2, <2>3, <2>4, EmittedIsDue
<1>5. EveryChangeIsDue'
  BY <1>2, <1>4, ListsStayDue, DueIsStable DEF EveryChangeIsDue
<1>6. QED BY <1>1, <1>3, <1>5 DEF DueInv

\* The changes are due throughout.
LEMMA DueInvHolds == Spec => []DueInv
<1>1. Init => DueInv
  <2> SUFFICES ASSUME Init PROVE DueInv
    OBVIOUS
  <2>1. TypeInv /\ ReadInv
    BY InitTypeInv, InitReadInv
  <2>2. DOMAIN migrations = {} /\ DOMAIN dropIndexes = {} /\ DOMAIN addIndexes = {}
    BY DEF Init
  <2>3. QED BY <2>1, <2>2 DEF DueInv, ListsInv, EveryChangeIsDue
<1>2. QED BY <1>1, DueInvStep, PTL DEF Spec

\* Diff never emits a change nothing asks for, nor reads the first column of an index that
\* has none: for every source, every database, every matching of Go names and columns.
THEOREM ChangesAreDue == Spec => []EveryChangeIsDue
<1>1. DueInv => EveryChangeIsDue
  BY DEF DueInv
<1>2. QED BY <1>1, DueInvHolds, PTL

-----------------------------------------------------------------------------
(* The statements of a table come in phases, one statement for an index.   *)

\* The phase a step of the iteration is in.
Reached ==
  CASE pc \in {"create", "alterNew"} -> 1
    [] pc = "alterOld" -> 2
    [] pc \in {"primaryKey", "indexes"} -> 3
    [] pc = "dropIndexes" -> 4
    [] pc = "addIndexes" -> 5

\* Nothing was emitted for a table before its turn, nor of a later phase; an index that was
\* emitted is in the list no more.
PhaseInv ==
  /\ \A n \in DOMAIN migrations :
       /\ migrations[n].table \notin names
       /\ (pc \in Inner /\ migrations[n].table = cur) => Phase(migrations[n]) <= Reached
  /\ pc = "start" => migrations = <<>>
  /\ PhasesInOrder

\* Of the statements so far, none names an index that is still in the list.
Spent(ms, t, xs, op) ==
  \A n \in DOMAIN ms : (ms[n].table = t /\ ms[n].op = op)
                         => \A m \in DOMAIN xs : xs[m].name # ms[n].index.name

OnceInv ==
  /\ DistinctNames(dropIndexes) /\ DistinctNames(addIndexes)
  /\ pc \in Inner => /\ Spent(migrations, cur, dropIndexes, "dropIndex")
                     /\ Spent(migrations, cur, addIndexes, "createIndex")
  /\ OneStatementPerIndex

OrderInv == DueInv /\ PhaseInv /\ OnceInv

\* The phases are numbers.
LEMMA PhaseType == \A c \in Change : Phase(c) \in 1..6
<1> SUFFICES ASSUME NEW c \in Change PROVE Phase(c) \in 1..6
  OBVIOUS
<1>1. \/ c.op = "createTable" \/ c.op = "addColumn" \/ c.op = "modifyColumn"
      \/ c.op = "dropColumn" \/ c.op = "modifyPrimaryKey" \/ c.op = "dropIndex"
      \/ c.op = "createIndex" \/ c.op = "dropTable"
  BY DEF Change
<1>2. QED BY <1>1 DEF Phase

\* A step emits at most one statement: for the table and in the phase of the iteration, and
\* an index statement for the head of its list; or a DROP TABLE at the end.
LEMMA EmittedInPhase ==
  ASSUME DueInv, [Next]_vars
  PROVE  \/ migrations' = migrations
         \/ migrations' = <<>> /\ pc' = "failed"
         \/ \E c \in Change :
              /\ migrations' = Append(migrations, c)
              /\ \/ pc \in Inner /\ c.table = cur /\ Phase(c) = Reached /\ pc' # "tables"
                 \/ pc = "leftover" /\ pc' = "leftover" /\ Phase(c) = 6
              /\ c.op = "dropIndex" => /\ DropIndexStep /\ c.index = Head(dropIndexes)
              /\ c.op = "createIndex" => /\ AddIndexStep /\ c.index = Head(addIndexes)
<1>1. /\ migrations \in Seq(Change) /\ cur \in Tables
      /\ dropIndexes \in Seq(Index) /\ addIndexes \in Seq(Index)
      /\ DOMAIN tableMap \subseteq Tables
      /\ TypeInv
  BY DEF DueInv, TypeInv, TypeOK, IsSchema
<1>2. migrations \o <<>> = migrations /\ \A c : migrations \o <<c>> = Append(migrations, c)
  BY <1>1, ConcatEmptySeq, AppendIsConcat
<1>3. CASE CreateTableStep
  <2>1. CreateTable(cur, New) \in Change /\ pc \in Inner
    BY <1>1, <1>3, SidesType, ChangeTypes DEF CreateTableStep, Inner
  <2>2. QED BY <1>3, <2>1 DEF CreateTableStep, CreateTable, Phase, Reached
<1>4. CASE AlterNewField
  <2>1. CASE i \in DOMAIN New
    <3>1. pc \in Inner /\ pc = "alterNew" /\ pc' = pc /\ migrations' = migrations \o AlterNew(Old, New[i])
      BY <1>4, <2>1 DEF AlterNewField, Inner, Altering
    <3>2. /\ Old \in Seq(Field) /\ New[i] \in Field /\ New[i].table = cur
          /\ \A n \in DOMAIN Old : Old[n] \in Field
      BY <1>1, <2>1, <3>1, SidesType
    <3>3. CASE AlterNew(Old, New[i]) = <<>>
      BY <1>2, <3>1, <3>3
    <3>4. CASE AlterNew(Old, New[i]) = <<AddColumn(New[i])>>
      <4> DEFINE c == AddColumn(New[i])
      <4>1. c \in Change /\ c.table = cur /\ c.op = "addColumn"
        BY <3>2, ChangeTypes DEF AddColumn
      <4> HIDE DEF c
      <4>2. migrations' = Append(migrations, c)
        BY <1>2, <3>1, <3>4 DEF c
      <4>3. QED BY <3>1, <4>1, <4>2 DEF Phase, Reached
    <3>5. CASE \E n \in DOMAIN Old : AlterNew(Old, New[i]) = <<ModifyColumn(Old[n], New[i])>>
      <4>1. PICK n \in DOMAIN Old : AlterNew(Old, New[i]) = <<ModifyColumn(Old[n], New[i])>>
        BY <3>5
      <4> DEFINE c == ModifyColumn(Old[n], New[i])
      <4>2. c \in Change /\ c.table = cur /\ c.op = "modifyColumn"
        BY <3>2, ChangeTypes DEF ModifyColumn
      <4> HIDE DEF c
      <4>3. migrations' = Append(migrations, c)
        BY <1>2, <3>1, <4>1 DEF c
      <4>4. QED BY <3>1, <4>2, <4>3 DEF Phase, Reached
    <3>6. QED BY <3>2, <3>3, <3>4, <3>5, AlterNewCases
  <2>2. QED BY <1>4, <2>1 DEF AlterNewField
<1>5. CASE AlterOldField
  <2>1. CASE i \in DOMAIN Old
    <3>1. pc \in Inner /\ pc = "alterOld" /\ pc' = pc /\ migrations' = migrations \o AlterOld(New, Old[i])
      BY <1>5, <2>1 DEF AlterOldField, Inner, Altering
    <3>2. Old[i] \in Field /\ Old[i].table = cur
      BY <1>1, <2>1, SidesType
    <3>3. CASE AlterOld(New, Old[i]) = <<>>
      BY <1>2, <3>1, <3>3
    <3>4. CASE AlterOld(New, Old[i]) = <<DropColumn(Old[i])>>
      <4> DEFINE c == DropColumn(Old[i])
      <4>1. c \in Change /\ c.table = cur /\ c.op = "dropColumn"
        BY <3>2, ChangeTypes DEF DropColumn
      <4> HIDE DEF c
      <4>2. migrations' = Append(migrations, c)
        BY <1>2, <3>1, <3>4 DEF c
      <4>3. QED BY <3>1, <4>1, <4>2 DEF Phase, Reached
    <3>5. QED BY <3>3, <3>4, AlterOldCases
  <2>2. QED BY <1>5, <2>1 DEF AlterOldField
<1>6. CASE PrimaryKey
  <2>1. pc \in Inner /\ ModifyPrimaryKey(cur, Old, New) \in Change
    BY <1>1, <1>6, SidesType, ChangeTypes DEF PrimaryKey, Inner, Altering
  <2>2. QED BY <1>6, <2>1 DEF PrimaryKey, ModifyPrimaryKey, Phase, Reached
<1>7. CASE DropIndexStep
  <2> DEFINE x == Head(dropIndexes)
             c == DropIndex(x)
  <2>1. x \in Index /\ x = dropIndexes[1] /\ 1 \in DOMAIN dropIndexes
    BY <1>1, <1>7, HeadTailProperties, EmptySeq, LenProperties DEF DropIndexStep
  <2>2. x.table = cur
    BY <2>1 DEF DueInv, ListsInv
  <2>3. c \in Change /\ c.table = cur /\ c.op = "dropIndex" /\ c.index = x
    BY <2>1, <2>2, ChangeTypes DEF DropIndex
  <2>4. pc \in Inner /\ pc = "dropIndexes" /\ pc' = pc
    BY <1>7 DEF DropIndexStep, Inner, Indexing
  <2>5. migrations' = migrations \/ migrations' = Append(migrations, c)
    BY <1>7 DEF DropIndexStep
  <2> HIDE DEF c, x
  <2>6. Phase(c) = Reached
    BY <2>3, <2>4 DEF Phase, Reached
  <2>7. QED BY <1>7, <2>3, <2>4, <2>5, <2>6 DEF x
<1>8. CASE AddIndexStep
  <2> DEFINE x == Head(addIndexes)
             c == CreateIndex(x)
  <2>1. x \in Index /\ x = addIndexes[1] /\ 1 \in DOMAIN addIndexes
    BY <1>1, <1>8, HeadTailProperties, EmptySeq, LenProperties DEF AddIndexStep
  <2>2. x.table = cur
    BY <2>1 DEF DueInv, ListsInv
  <2>3. c \in Change /\ c.table = cur /\ c.op = "createIndex" /\ c.index = x
    BY <2>1, <2>2, ChangeTypes DEF CreateIndex
  <2>4. pc \in Inner /\ pc = "addIndexes" /\ pc' = pc
    BY <1>8 DEF AddIndexStep, Inner, Indexing
  <2>5. migrations' = Append(migrations, c)
    BY <1>8 DEF AddIndexStep
  <2> HIDE DEF c, x
  <2>6. Phase(c) = Reached
    BY <2>3, <2>4 DEF Phase, Reached
  <2>7. QED BY <1>8, <2>3, <2>4, <2>5, <2>6 DEF x
<1>9. CASE DropLeftover
  <2>1. PICK t \in DOMAIN tableMap : migrations' = Append(migrations, DropTable(t))
    BY <1>9 DEF DropLeftover
  <2> DEFINE c == DropTable(t)
  <2>2. c \in Change /\ c.op = "dropTable"
    BY <1>1, ChangeTypes DEF DropTable
  <2> HIDE DEF c
  <2>3. Phase(c) = 6
    BY <2>2 DEF Phase
  <2>4. migrations' = Append(migrations, c)
    BY <2>1 DEF c
  <2>5. pc = "leftover" /\ pc' = "leftover"
    BY <1>9 DEF DropLeftover
  <2>6. QED BY <2>2, <2>3, <2>4, <2>5
<1>10. CASE Fail
  BY <1>10 DEF Fail
<1>11. CASE UNCHANGED migrations
  BY <1>11
<1>12. QED
  BY <1>3, <1>4, <1>5, <1>6, <1>7, <1>8, <1>9, <1>10, <1>11
  DEF Next, vars, GetTableMap, NextTable, VisitIndex, EndMakeIndexes, EndDropIndexes,
      EndTable, EndTables, Return

\* How the iteration goes on: within it the table stays and the phase grows; it starts with
\* a table that was pending.
LEMMA Advance ==
  ASSUME LoopInv, [Next]_vars
  PROVE  /\ pc \in Inner => Reached \in 1..5
         /\ pc \in Inner /\ pc' \in Inner => /\ cur' = cur /\ names' = names
                                            /\ Reached <= Reached'
         /\ pc \notin Inner /\ pc' \in Inner => /\ cur' \in names
                                               /\ names' = names \ {cur'}
                                               /\ migrations' = migrations
         /\ names' \subseteq names \/ (pc = "start" /\ migrations' = migrations)
         /\ pc' = "start" => pc = "start" /\ migrations' = migrations
<1>1. ASSUME pc \in Inner, pc' \in Inner
      PROVE  cur' = cur /\ names' = names
  BY <1>1
  DEF Inner, Altering, Indexing, Next, vars, GetTableMap, NextTable, Fail, CreateTableStep,
      AlterNewField, AlterOldField, PrimaryKey, VisitIndex, EndMakeIndexes, DropIndexStep,
      EndDropIndexes, AddIndexStep, EndTable, EndTables, DropLeftover, Return
<1>2. ASSUME pc \in Inner, pc' \in Inner
      PROVE  \/ pc' = pc
             \/ pc = "create" /\ pc' = "indexes"
             \/ pc = "alterNew" /\ pc' = "alterOld"
             \/ pc = "alterOld" /\ pc' = "primaryKey"
             \/ pc = "primaryKey" /\ pc' = "indexes"
             \/ pc = "indexes" /\ pc' = "dropIndexes"
             \/ pc = "dropIndexes" /\ pc' = "addIndexes"
  BY <1>2
  DEF Inner, Altering, Indexing, Next, vars, GetTableMap, NextTable, Fail, CreateTableStep,
      AlterNewField, AlterOldField, PrimaryKey, VisitIndex, EndMakeIndexes, DropIndexStep,
      EndDropIndexes, AddIndexStep, EndTable, EndTables, DropLeftover, Return
<1>3. pc \in Inner => Reached \in 1..5
  BY DEF Inner, Altering, Indexing, Reached
<1>4. ASSUME pc \in Inner, pc' \in Inner PROVE Reached <= Reached'
  <2>1. \/ pc = "create" \/ pc = "alterNew" \/ pc = "alterOld" \/ pc = "primaryKey"
        \/ pc = "indexes" \/ pc = "dropIndexes" \/ pc = "addIndexes"
    BY <1>4 DEF Inner, Altering, Indexing
  <2>2. CASE pc' = pc
    <3>1. Reached' = Reached
      BY <2>2 DEF Reached
    <3>2. QED BY <1>3, <1>4, <3>1
  <2>3. CASE pc' # pc
    BY <1>2, <1>4, <2>1, <2>3 DEF Reached
  <2>4. QED BY <2>2, <2>3
<1>5. ASSUME pc \notin Inner, pc' \in Inner
      PROVE  cur' \in names /\ names' = names \ {cur'} /\ migrations' = migrations
  BY <1>5
  DEF Inner, Altering, Indexing, Next, vars, GetTableMap, NextTable, Fail, CreateTableStep,
      AlterNewField, AlterOldField, PrimaryKey, VisitIndex, EndMakeIndexes, DropIndexStep,
      EndDropIndexes, AddIndexStep, EndTable, EndTables, DropLeftover, Return
<1>6. /\ names' \subseteq names \/ (pc = "start" /\ migrations' = migrations)
      /\ pc' = "start" => pc = "start" /\ migrations' = migrations
  BY DEF Next, vars, GetTableMap, NextTable, Fail, CreateTableStep,
      AlterNewField, AlterOldField, PrimaryKey, VisitIndex, EndMakeIndexes, DropIndexStep,
      EndDropIndexes, AddIndexStep, EndTable, EndTables, DropLeftover, Return
<1>7. QED BY <1>1, <1>3, <1>4, <1>5, <1>6

\* What a list holds after one more element.
LEMMA Appended ==
  ASSUME migrations \in Seq(Change), NEW c \in Change, migrations' = Append(migrations, c)
  PROVE  /\ Len(migrations) \in Nat
         /\ DOMAIN migrations = 1..Len(migrations)
         /\ DOMAIN migrations' = 1..(Len(migrations) + 1)
         /\ \A n \in DOMAIN migrations : migrations'[n] = migrations[n]
         /\ migrations'[Len(migrations) + 1] = c
<1>1. /\ migrations' \in Seq(Change)
      /\ Len(migrations') = Len(migrations) + 1
      /\ \A n \in 1..Len(migrations) : migrations'[n] = migrations[n]
      /\ migrations'[Len(migrations) + 1] = c
  BY AppendProperties
<1>2. QED BY <1>1, LenProperties

\* No step emits a change of this table of an earlier phase than one it has emitted.
LEMMA PhaseInvStep == DueInv /\ PhaseInv /\ [Next]_vars => PhaseInv'
<1> SUFFICES ASSUME DueInv, PhaseInv, [Next]_vars PROVE PhaseInv'
  OBVIOUS
<1>1. /\ migrations \in Seq(Change) /\ LoopInv /\ ReadInv
      /\ DOMAIN migrations = 1..Len(migrations) /\ Len(migrations) \in Nat
      /\ \A n \in DOMAIN migrations : Phase(migrations[n]) \in 1..6
  BY LenProperties, ElementOfSeq, PhaseType DEF DueInv, TypeInv, TypeOK
<1>2. CASE migrations' = migrations
  <2>1. PhasesInOrder'
    BY <1>2 DEF PhaseInv, PhasesInOrder
  <2>2. \A n \in DOMAIN migrations : migrations[n].table \notin names'
    <3>1. CASE names' \subseteq names
      BY <3>1 DEF PhaseInv
    <3>2. CASE pc = "start"
      BY <3>2 DEF PhaseInv
    <3>3. QED BY <1>1, <3>1, <3>2, Advance
  <2>3. ASSUME NEW n \in DOMAIN migrations, pc' \in Inner, migrations[n].table = cur'
        PROVE  Phase(migrations[n]) <= Reached'
    <3>1. CASE pc \in Inner
      <4>1. Phase(migrations[n]) <= Reached /\ Reached \in 1..5 /\ Reached <= Reached'
        BY <1>1, <2>3, <3>1, Advance DEF PhaseInv
      <4>2. pc' \in Inner => Reached' \in 1..5
        BY DEF Inner, Altering, Indexing, Reached
      <4>3. QED BY <1>1, <2>3, <4>1, <4>2
    <3>2. CASE pc \notin Inner
      BY <1>1, <2>3, <3>2, Advance DEF PhaseInv
    <3>3. QED BY <3>1, <3>2
  <2>4. pc' = "start" => migrations = <<>>
    BY <1>1, Advance DEF PhaseInv
  <2>5. QED BY <1>2, <2>1, <2>2, <2>3, <2>4 DEF PhaseInv
<1>3. CASE migrations' = <<>>
  <2>1. DOMAIN migrations' = {}
    BY <1>3
  <2>2. QED BY <1>3, <2>1 DEF PhaseInv, PhasesInOrder
<1>4. ASSUME NEW c \in Change, migrations' = Append(migrations, c),
             \/ pc \in Inner /\ c.table = cur /\ Phase(c) = Reached /\ pc' # "tables"
             \/ pc = "leftover" /\ pc' = "leftover" /\ Phase(c) = 6
      PROVE  PhaseInv'
  <2>1. /\ DOMAIN migrations' = 1..(Len(migrations) + 1)
        /\ \A n \in DOMAIN migrations : migrations'[n] = migrations[n]
        /\ migrations'[Len(migrations) + 1] = c
    BY <1>1, <1>4, Appended
  <2>2. pc # "start" /\ pc' # "start" /\ names' \subseteq names
    <3>1. pc # "start"
      BY <1>4 DEF Inner, Altering, Indexing
    <3>2. QED BY <1>1, <3>1, Advance
  <2>3. c.table \notin names'
    BY <1>1, <1>4, <2>2 DEF LoopInv, ReadInv
  <2>4. \A n \in DOMAIN migrations' : migrations'[n].table \notin names'
    BY <1>1, <2>1, <2>2, <2>3 DEF PhaseInv
  <2>5. pc' \in Inner => Reached' \in 1..5
    BY DEF Inner, Altering, Indexing, Reached
  <2>6. ASSUME NEW n \in DOMAIN migrations', pc' \in Inner, migrations'[n].table = cur'
        PROVE  Phase(migrations'[n]) <= Reached'
    <3>1. pc \in Inner /\ Phase(c) = Reached
      BY <1>4, <2>6 DEF Inner, Altering, Indexing
    <3>2. cur' = cur /\ Reached \in 1..5 /\ Reached <= Reached'
      BY <1>1, <2>6, <3>1, Advance
    <3>3. CASE n \in DOMAIN migrations
      <4>1. Phase(migrations[n]) <= Reached
        BY <2>1, <2>6, <3>1, <3>2, <3>3 DEF PhaseInv
      <4>2. QED BY <1>1, <2>1, <2>5, <2>6, <3>2, <3>3, <4>1
    <3>4. CASE n = Len(migrations) + 1
      BY <2>1, <3>1, <3>2, <3>4
    <3>5. QED BY <1>1, <2>1, <3>3, <3>4
  <2>7. ASSUME NEW m \in DOMAIN migrations, migrations[m].table = c.table
        PROVE  Phase(migrations[m]) <= Phase(c)
    BY <1>1, <1>4, <2>7 DEF PhaseInv
  <2>8. PhasesInOrder'
    <3>1. SUFFICES ASSUME NEW m \in DOMAIN migrations', NEW n \in DOMAIN migrations',
                          m < n, migrations'[m].table = migrations'[n].table
                   PROVE  Phase(migrations'[m]) <= Phase(migrations'[n])
      BY DEF PhasesInOrder, Phase
    <3>2. m \in DOMAIN migrations
      BY <1>1, <2>1, <3>1
    <3>3. CASE n \in DOMAIN migrations
      BY <2>1, <3>1, <3>2, <3>3 DEF PhaseInv, PhasesInOrder
    <3>4. CASE n = Len(migrations) + 1
      BY <2>1, <2>7, <3>1, <3>2, <3>4
    <3>5. QED BY <1>1, <2>1, <3>3, <3>4
  <2>9. QED BY <2>2, <2>4, <2>6, <2>8 DEF PhaseInv, Phase
<1>5. QED BY <1>2, <1>3, <1>4, EmittedInPhase

\* A step of makeIndexes keeps the names of each list apart.
LEMMA VisitKeepsNamesApart ==
  ASSUME TypeInv, DistinctNames(dropIndexes), DistinctNames(addIndexes), VisitIndex
  PROVE  DistinctNames(dropIndexes') /\ DistinctNames(addIndexes')
<1>1. pc \in Inner /\ i \in DOMAIN New
  BY DEF VisitIndex, Inner, Indexing
<1>2. Old \in Seq(Field) /\ New[i] \in Field
  BY <1>1, SidesType
<1>3. dropIndexes \in Seq(Index) /\ addIndexes \in Seq(Index) /\ cur \in Tables
  BY DEF TypeInv, TypeOK
<1> DEFINE visits == IndexVisits(Old, New[i])
           v == visits[j]
<1>4. CASE j \in DOMAIN visits
  <2>1. v \in Visit
    BY <1>2, <1>4, IndexVisitsType, LenProperties, ElementOfSeq
  <2>2. /\ DistinctNames(AddToIndexes(dropIndexes, cur, v))
        /\ DistinctNames(AddToIndexes(addIndexes, cur, v))
    BY <1>3, <2>1, AddToIndexesDistinct
  <2>3. QED BY <1>4, <2>2 DEF VisitIndex
<1>5. CASE j \notin DOMAIN visits
  BY <1>5 DEF VisitIndex
<1>6. QED BY <1>4, <1>5

\* The head of a list of distinct names has a name of its own, and the tail stays distinct.
LEMMA DistinctTail ==
  ASSUME NEW xs \in Seq(Index), xs # <<>>, DistinctNames(xs)
  PROVE  /\ DistinctNames(Tail(xs))
         /\ \A m \in DOMAIN Tail(xs) : Tail(xs)[m].name # Head(xs).name
         /\ \E m \in DOMAIN xs : Head(xs) = xs[m]
<1>1. /\ Len(xs) \in Nat \ {0} /\ DOMAIN xs = 1..Len(xs) /\ Head(xs) = xs[1]
  BY EmptySeq, LenProperties
<1>2. /\ DOMAIN Tail(xs) = 1..(Len(xs) - 1)
      /\ \A n \in DOMAIN Tail(xs) : n + 1 \in DOMAIN xs /\ Tail(xs)[n] = xs[n + 1]
  BY TailElements, HeadTailProperties, LenProperties
<1>3. ASSUME NEW m \in DOMAIN Tail(xs), NEW n \in DOMAIN Tail(xs), m # n
      PROVE  Tail(xs)[m].name # Tail(xs)[n].name
  <2>1. m + 1 # n + 1 /\ m + 1 \in DOMAIN xs /\ n + 1 \in DOMAIN xs
    BY <1>1, <1>2, <1>3
  <2>2. QED BY <1>2, <2>1 DEF DistinctNames
<1>4. ASSUME NEW m \in DOMAIN Tail(xs) PROVE Tail(xs)[m].name # Head(xs).name
  <2>1. m + 1 # 1 /\ m + 1 \in DOMAIN xs /\ 1 \in DOMAIN xs
    BY <1>1, <1>2
  <2>2. QED BY <1>1, <1>2, <2>1 DEF DistinctNames
<1>5. QED BY <1>1, <1>3, <1>4 DEF DistinctNames

\* What a step does to the two lists.
LEMMA ListsStep ==
  ASSUME DueInv, OnceInv, [Next]_vars
  PROVE  /\ DistinctNames(dropIndexes') /\ DistinctNames(addIndexes')
         /\ ~VisitIndex =>
              /\ \A m \in DOMAIN dropIndexes' : \E k \in DOMAIN dropIndexes : dropIndexes'[m] = dropIndexes[k]
              /\ \A m \in DOMAIN addIndexes' : \E k \in DOMAIN addIndexes : addIndexes'[m] = addIndexes[k]
<1>1. /\ dropIndexes \in Seq(Index) /\ addIndexes \in Seq(Index) /\ TypeInv
      /\ DistinctNames(dropIndexes) /\ DistinctNames(addIndexes)
  BY DEF DueInv, TypeInv, TypeOK, OnceInv
<1>2. CASE VisitIndex
  BY <1>1, <1>2, VisitKeepsNamesApart
<1>3. CASE DropIndexStep
  BY <1>1, <1>3, TailElements, DistinctTail DEF DropIndexStep
<1>4. CASE AddIndexStep
  BY <1>1, <1>4, TailElements, DistinctTail DEF AddIndexStep
<1>5. CASE UNCHANGED <<dropIndexes, addIndexes>>
  BY <1>1, <1>5
<1>6. QED
  BY <1>2, <1>3, <1>4, <1>5
  DEF Next, vars, GetTableMap, NextTable, Fail, CreateTableStep, AlterNewField, AlterOldField,
      PrimaryKey, EndMakeIndexes, EndDropIndexes, EndTable, EndTables, DropLeftover, Return

\* No index statement of the table is emitted before makeIndexes is over.
LEMMA NoneYet ==
  ASSUME PhaseInv, VisitIndex
  PROVE  \A n \in DOMAIN migrations :
           migrations[n].table = cur => migrations[n].op \notin {"dropIndex", "createIndex"}
<1> SUFFICES ASSUME NEW n \in DOMAIN migrations, migrations[n].table = cur,
                    migrations[n].op \in {"dropIndex", "createIndex"}
             PROVE  FALSE
  OBVIOUS
<1>1. pc = "indexes" /\ pc \in Inner
  BY DEF VisitIndex, Inner, Indexing
<1>2. Phase(migrations[n]) <= 3
  BY <1>1 DEF PhaseInv, Reached
<1>3. migrations[n].op = "dropIndex" \/ migrations[n].op = "createIndex"
  OBVIOUS
<1>4. Phase(migrations[n]) = 4 \/ Phase(migrations[n]) = 5
  BY <1>3 DEF Phase
<1>5. QED BY <1>2, <1>4

\* An index still in one of the lists has had no statement of that kind.
LEMMA SpentStep ==
  ASSUME DueInv, PhaseInv, OnceInv, [Next]_vars, pc' \in Inner
  PROVE  /\ Spent(migrations', cur', dropIndexes', "dropIndex")
         /\ Spent(migrations', cur', addIndexes', "createIndex")
<1>1. /\ migrations \in Seq(Change) /\ LoopInv
      /\ DOMAIN migrations = 1..Len(migrations) /\ Len(migrations) \in Nat
      /\ dropIndexes \in Seq(Index) /\ addIndexes \in Seq(Index)
      /\ DistinctNames(dropIndexes) /\ DistinctNames(addIndexes)
  BY LenProperties DEF DueInv, TypeInv, TypeOK, OnceInv
<1>2. CASE pc \notin Inner
  BY <1>1, <1>2, Advance DEF Spent, PhaseInv
<1>3. CASE pc \in Inner
  <2>1. cur' = cur /\ pc' # "failed"
    BY <1>1, <1>3, Advance DEF Inner, Altering, Indexing
  <2>2. /\ Spent(migrations, cur, dropIndexes', "dropIndex")
        /\ Spent(migrations, cur, addIndexes', "createIndex")
    <3>1. CASE VisitIndex
      BY <3>1, NoneYet DEF Spent
    <3>2. CASE ~VisitIndex
      BY <1>3, <3>2, ListsStep DEF OnceInv, Spent
    <3>3. QED BY <3>1, <3>2
  <2>3. CASE migrations' = migrations
    BY <2>1, <2>2, <2>3
  <2>4. ASSUME NEW c \in Change, migrations' = Append(migrations, c),
               c.op = "dropIndex" => /\ DropIndexStep /\ c.index = Head(dropIndexes),
               c.op = "createIndex" => /\ AddIndexStep /\ c.index = Head(addIndexes)
        PROVE  /\ Spent(migrations', cur', dropIndexes', "dropIndex")
               /\ Spent(migrations', cur', addIndexes', "createIndex")
    <3>1. /\ DOMAIN migrations' = 1..(Len(migrations) + 1)
          /\ \A n \in DOMAIN migrations : migrations'[n] = migrations[n]
          /\ migrations'[Len(migrations) + 1] = c
      BY <1>1, <2>4, Appended, SMTT(30)
    <3>2. c.op = "dropIndex" => \A m \in DOMAIN dropIndexes' : dropIndexes'[m].name # c.index.name
      BY <1>1, <2>4, DistinctTail DEF DropIndexStep
    <3>3. c.op = "createIndex" => \A m \in DOMAIN addIndexes' : addIndexes'[m].name # c.index.name
      BY <1>1, <2>4, DistinctTail DEF AddIndexStep
    <3>4. \A n \in DOMAIN migrations' : n \in DOMAIN migrations \/ n = Len(migrations) + 1
      BY <1>1, <3>1
    <3>5. QED BY <2>1, <2>2, <3>1, <3>2, <3>3, <3>4 DEF Spent
  <2>5. QED BY <2>1, <2>3, <2>4, EmittedInPhase
<1>4. QED BY <1>2, <1>3

\* No step emits a second statement for an index.
LEMMA OnceInvStep == DueInv /\ PhaseInv /\ OnceInv /\ [Next]_vars => OnceInv'
<1> SUFFICES ASSUME DueInv, PhaseInv, OnceInv, [Next]_vars PROVE OnceInv'
  OBVIOUS
<1>1. /\ migrations \in Seq(Change)
      /\ DOMAIN migrations = 1..Len(migrations) /\ Len(migrations) \in Nat
      /\ dropIndexes \in Seq(Index) /\ addIndexes \in Seq(Index)
      /\ DistinctNames(dropIndexes) /\ DistinctNames(addIndexes)
  BY LenProperties DEF DueInv, TypeInv, TypeOK, OnceInv
<1>2. ASSUME migrations' = migrations PROVE OneStatementPerIndex'
  BY <1>2 DEF OnceInv, OneStatementPerIndex
<1>3. ASSUME migrations' = <<>> PROVE OneStatementPerIndex'
  <2>1. DOMAIN migrations' = {}
    BY <1>3
  <2>2. QED BY <2>1 DEF OneStatementPerIndex
<1>4. ASSUME NEW c \in Change, migrations' = Append(migrations, c),
             \/ pc \in Inner /\ c.table = cur /\ Phase(c) = Reached
             \/ pc = "leftover" /\ Phase(c) = 6,
             c.op = "dropIndex" => /\ DropIndexStep /\ c.index = Head(dropIndexes),
             c.op = "createIndex" => /\ AddIndexStep /\ c.index = Head(addIndexes)
      PROVE  OneStatementPerIndex'
  <2>1. /\ DOMAIN migrations' = 1..(Len(migrations) + 1)
        /\ \A n \in DOMAIN migrations : migrations'[n] = migrations[n]
        /\ migrations'[Len(migrations) + 1] = c
    BY <1>1, <1>4, Appended
  <2>2. ASSUME NEW n \in DOMAIN migrations, migrations[n].op = c.op,
               migrations[n].table = c.table, c.op \in {"dropIndex", "createIndex"}
        PROVE  migrations[n].index.name # c.index.name
    <3>1. CASE c.op = "dropIndex"
      <4>1. pc \in Inner /\ c.table = cur /\ dropIndexes # <<>> /\ c.index = Head(dropIndexes)
        BY <1>4, <3>1 DEF DropIndexStep, Inner, Indexing
      <4>2. PICK m \in DOMAIN dropIndexes : c.index = dropIndexes[m]
        BY <1>1, <4>1, DistinctTail
      <4>3. QED BY <2>2, <3>1, <4>1, <4>2 DEF OnceInv, Spent
    <3>2. CASE c.op = "createIndex"
      <4>1. pc \in Inner /\ c.table = cur /\ addIndexes # <<>> /\ c.index = Head(addIndexes)
        BY <1>4, <3>2 DEF AddIndexStep, Inner, Indexing
      <4>2. PICK m \in DOMAIN addIndexes : c.index = addIndexes[m]
        BY <1>1, <4>1, DistinctTail
      <4>3. QED BY <2>2, <3>2, <4>1, <4>2 DEF OnceInv, Spent
    <3>3. QED BY <2>2, <3>1, <3>2
  <2>3. \A n \in DOMAIN migrations' : n \in DOMAIN migrations \/ n = Len(migrations) + 1
    BY <1>1, <2>1
  <2>4. SUFFICES ASSUME NEW m \in DOMAIN migrations', NEW n \in DOMAIN migrations', m # n,
                        migrations'[m].op = migrations'[n].op,
                        migrations'[m].table = migrations'[n].table,
                        migrations'[m].op \in {"dropIndex", "createIndex"}
                 PROVE  migrations'[m].index.name # migrations'[n].index.name
    BY DEF OneStatementPerIndex
  <2>5. CASE m \in DOMAIN migrations /\ n \in DOMAIN migrations
    BY <2>1, <2>4, <2>5 DEF OnceInv, OneStatementPerIndex
  <2>6. CASE m \in DOMAIN migrations /\ n = Len(migrations) + 1
    BY <2>1, <2>2, <2>4, <2>6
  <2>7. CASE m = Len(migrations) + 1 /\ n \in DOMAIN migrations
    BY <2>1, <2>2, <2>4, <2>7
  <2>8. QED BY <2>3, <2>4, <2>5, <2>6, <2>7
<1>5. OneStatementPerIndex'
  BY <1>2, <1>3, <1>4, EmittedInPhase
<1>6. QED BY <1>5, ListsStep, SpentStep DEF OnceInv, Spent

\* The order of the statements holds throughout.
LEMMA OrderInvHolds == Spec => []OrderInv
<1>1. Init => PhaseInv /\ OnceInv
  <2> SUFFICES ASSUME Init PROVE PhaseInv /\ OnceInv
    OBVIOUS
  <2>1. DOMAIN migrations = {} /\ DOMAIN dropIndexes = {} /\ DOMAIN addIndexes = {}
    BY DEF Init
  <2>2. migrations = <<>> /\ pc \notin Inner
    BY DEF Init, Inner, Altering, Indexing
  <2>3. QED
    BY <2>1, <2>2 DEF PhaseInv, OnceInv, PhasesInOrder, OneStatementPerIndex, DistinctNames
<1>2. DueInv /\ PhaseInv /\ OnceInv /\ [Next]_vars => (PhaseInv /\ OnceInv)'
  BY PhaseInvStep, OnceInvStep
<1>3. QED BY <1>1, <1>2, DueInvHolds, PTL DEF Spec, OrderInv

\* The statements of a table come in the order of their phases: its columns before its key,
\* its key before its indexes, and an index is dropped before one of its name is created.
THEOREM PhasesAreInOrder == Spec => []PhasesInOrder
<1>1. OrderInv => PhasesInOrder
  BY DEF OrderInv, PhaseInv
<1>2. QED BY <1>1, OrderInvHolds, PTL

\* The fields that name an index are gathered: one DROP INDEX and one CREATE INDEX at most.
THEOREM IndexesAreGathered == Spec => []OneStatementPerIndex
<1>1. OrderInv => OneStatementPerIndex
  BY DEF OrderInv, OnceInv
<1>2. QED BY <1>1, OrderInvHolds, PTL
-----------------------------------------------------------------------------
(* Everything the source asks for is emitted.                              *)

\* The index waits in addIndexes, or was created.
Asked(x, col) == Held(addIndexes, x, col) \/ IndexCreated(cur, x, col)

\* makeIndexes is past visit k of field n.
Visited(n, k) == pc = "indexes" => n < i \/ (n = i /\ k < j)

\* What has been emitted when Diff is at its place in the loops.
TablesInv ==
  /\ pc \notin {"start", "failed"} =>
       \A t \in DOMAIN src \ Pending : TableServed(t)
  /\ (pc \notin {"start", "failed"} /\ DOMAIN src = {}) =>
       \A t \in DOMAIN schema : t \in DOMAIN tableMap \/ TableDropped(t)

ColumnsInv ==
  pc \in Inner \ {"create"} =>
    /\ cur \notin DOMAIN schema => Created(cur)
    /\ cur \in DOMAIN schema =>
         /\ \A n \in DOMAIN New :
              ((pc = "alterNew" => n < i) /\ Unmatched(Old, New[n])) => FieldEmitted(cur, New[n])
         /\ \A m \in DOMAIN Old :
              (/\ pc # "alterNew"
               /\ pc = "alterOld" => m < i
               /\ IsDropped(New, Old[m])) => ColumnDropped(cur, Old[m])
         /\ (pc \in Indexing /\ PrimaryKeyModifier /\ PkChanged(Old, New)) => KeyModified(cur)

IndexesInv ==
  pc \in Indexing =>
    \A n \in DOMAIN New :
      LET visits == IndexVisits(Old, New[n])
      IN  \A k \in DOMAIN visits :
            (Visited(n, k) /\ visits[k].add /\ ~visits[k].kept)
              => Asked(visits[k].name, visits[k].column)

ServedInv == TablesInv /\ ColumnsInv /\ IndexesInv

\* A step that emits keeps what was emitted.
Grows == \A n \in DOMAIN migrations : n \in DOMAIN migrations' /\ migrations'[n] = migrations[n]

\* Only a failure takes a statement back.
LEMMA StepGrows ==
  ASSUME DueInv, [Next]_vars, pc' # "failed"
  PROVE  Grows
<1>1. migrations \in Seq(Change)
  BY DEF DueInv, TypeInv, TypeOK
<1>2. CASE migrations' = migrations
  BY <1>2 DEF Grows
<1>3. CASE \E c \in Change : migrations' = Append(migrations, c)
  <2>1. PICK c \in Change : migrations' = Append(migrations, c)
    BY <1>3
  <2>2. /\ DOMAIN migrations = 1..Len(migrations) /\ Len(migrations) \in Nat
        /\ DOMAIN migrations' = 1..(Len(migrations) + 1)
        /\ \A n \in DOMAIN migrations : migrations'[n] = migrations[n]
    BY <1>1, <2>1, Appended
  <2>3. QED BY <2>2 DEF Grows
<1>4. QED BY <1>2, <1>3, EmittedInPhase

\* What was emitted stays emitted.
LEMMA EmittedStays ==
  ASSUME Grows
  PROVE  /\ \A t : Created(t) => Created(t)'
         /\ \A t, f : FieldEmitted(t, f) => FieldEmitted(t, f)'
         /\ \A t, o : ColumnDropped(t, o) => ColumnDropped(t, o)'
         /\ \A t : KeyModified(t) => KeyModified(t)'
         /\ \A t, x, col : IndexCreated(t, x, col) => IndexCreated(t, x, col)'
         /\ \A t : TableDropped(t) => TableDropped(t)'
<1>1. ASSUME NEW t PROVE Created(t) => Created(t)'
  BY DEF Grows, Created, Emitted
<1>2. ASSUME NEW t, NEW f PROVE FieldEmitted(t, f) => FieldEmitted(t, f)'
  BY DEF Grows, FieldEmitted, Emitted
<1>3. ASSUME NEW t, NEW o PROVE ColumnDropped(t, o) => ColumnDropped(t, o)'
  BY DEF Grows, ColumnDropped, Emitted
<1>4. ASSUME NEW t PROVE KeyModified(t) => KeyModified(t)'
  BY DEF Grows, KeyModified, Emitted
<1>5. ASSUME NEW t, NEW x, NEW col PROVE IndexCreated(t, x, col) => IndexCreated(t, x, col)'
  BY DEF Grows, IndexCreated, Emitted
<1>6. ASSUME NEW t PROVE TableDropped(t) => TableDropped(t)'
  BY DEF Grows, TableDropped, Emitted
<1>7. QED BY <1>1, <1>2, <1>3, <1>4, <1>5, <1>6

\* A table that was served stays so.
LEMMA ServedStays ==
  ASSUME Grows, src' = src, schema' = schema, NEW t, TableServed(t)
  PROVE  TableServed(t)'
<1>1. OldFields(t)' = OldFields(t) /\ src[t]' = src[t]
  BY DEF OldFields
<1>2. ASSUME NEW old, NEW new, ColumnsServed(old, new, t) PROVE ColumnsServed(old, new, t)'
  BY <1>2, EmittedStays DEF ColumnsServed
<1>3. ASSUME NEW old, NEW new, IndexesServed(old, new, t) PROVE IndexesServed(old, new, t)'
  BY <1>3, EmittedStays DEF IndexesServed
<1>4. QED BY <1>1, <1>2, <1>3, EmittedStays DEF TableServed

\* The sides of an iteration stay what they are while it lasts.
LEMMA SidesStay ==
  ASSUME LoopInv, [Next]_vars, pc \in Inner, pc' \in Inner
  PROVE  cur' = cur /\ Old' = Old /\ New' = New /\ src' = src /\ schema' = schema
<1>1. UNCHANGED <<cur, tableMap, src, schema>>
  BY DEF Inner, Altering, Indexing, Next, vars, GetTableMap, NextTable, Fail, CreateTableStep,
         AlterNewField, AlterOldField, PrimaryKey, VisitIndex, EndMakeIndexes, DropIndexStep,
         EndDropIndexes, AddIndexStep, EndTable, EndTables, DropLeftover, Return
<1>2. QED BY <1>1 DEF Old, New

\* A field or an old column that is passed has what it is owed.
LEMMA ColumnsStep ==
  ASSUME DueInv, ColumnsInv, [Next]_vars, pc' \in Inner \ {"create"}
  PROVE  ColumnsInv'
<1>1. /\ LoopInv /\ ReadInv /\ TypeInv /\ i \in Nat \ {0}
      /\ migrations \in Seq(Change)
  BY DEF DueInv, TypeInv, TypeOK
<1>2. Grows
  <2>1. pc' # "failed"
    BY DEF Inner, Altering, Indexing
  <2>2. QED BY <2>1, StepGrows
<1>3. CASE pc \notin Inner
  <2>1. /\ NextTable
        /\ pc' = "alterNew" /\ i' = 1
        /\ cur' \in DOMAIN tableMap
        /\ schema' = schema
    BY <1>3
    DEF Inner, Altering, Indexing, Next, vars, GetTableMap, NextTable, Fail, CreateTableStep,
        AlterNewField, AlterOldField, PrimaryKey, VisitIndex, EndMakeIndexes, DropIndexStep,
        EndDropIndexes, AddIndexStep, EndTable, EndTables, DropLeftover, Return
  <2>2. cur' \in DOMAIN schema'
    BY <1>1, <2>1 DEF ReadInv
  <2>3. New' \in Seq(Field)
    BY <1>1, TypeInvStep DEF TypeInv, TypeOK, LoopInv, IsSchema, New
  <2>4. \A n \in DOMAIN New' : ~(n < i')
    BY <2>1, <2>3, LenProperties
  <2>5. QED BY <2>1, <2>2, <2>4 DEF ColumnsInv, Indexing
<1>4. CASE pc \in Inner
  <2>1. PICK t, old, new : t = cur /\ old = Old /\ new = New
    OBVIOUS
  <2>2. cur' = t /\ Old' = old /\ New' = new /\ schema' = schema
    BY <1>1, <1>4, <2>1, SidesStay
  <2>3. /\ old \in Seq(Field) /\ new \in Seq(Field) /\ t \in Tables
        /\ DOMAIN old = 1..Len(old) /\ DOMAIN new = 1..Len(new)
        /\ Len(old) \in Nat /\ Len(new) \in Nat
        /\ \A n \in DOMAIN old : old[n] \in Field /\ old[n].table = t
        /\ \A n \in DOMAIN new : new[n] \in Field /\ new[n].table = t
    BY <1>1, <1>4, <2>1, SidesType, LenProperties DEF TypeInv, TypeOK
  <2>4. ASSUME pc # "create"
        PROVE  /\ t \notin DOMAIN schema => Created(t)'
               /\ t \in DOMAIN schema =>
                    /\ \A n \in DOMAIN new :
                         ((pc = "alterNew" => n < i) /\ Unmatched(old, new[n])) => FieldEmitted(t, new[n])'
                    /\ \A m \in DOMAIN old :
                         (/\ pc # "alterNew"
                          /\ pc = "alterOld" => m < i
                          /\ IsDropped(new, old[m])) => ColumnDropped(t, old[m])'
                    /\ (pc \in Indexing /\ PrimaryKeyModifier /\ PkChanged(old, new)) => KeyModified(t)'
    <3>1. pc \in Inner \ {"create"}
      BY <1>4, <2>4
    <3>2. /\ t \notin DOMAIN schema => Created(t)
          /\ t \in DOMAIN schema =>
               /\ \A n \in DOMAIN new :
                    ((pc = "alterNew" => n < i) /\ Unmatched(old, new[n])) => FieldEmitted(t, new[n])
               /\ \A m \in DOMAIN old :
                    (/\ pc # "alterNew"
                     /\ pc = "alterOld" => m < i
                     /\ IsDropped(new, old[m])) => ColumnDropped(t, old[m])
               /\ (pc \in Indexing /\ PrimaryKeyModifier /\ PkChanged(old, new)) => KeyModified(t)
      BY <2>1, <3>1 DEF ColumnsInv
    <3>3. QED BY <1>2, <3>2, EmittedStays
  <2>5. ASSUME pc' # "create",
               t \notin DOMAIN schema => Created(t)',
               t \in DOMAIN schema =>
                 /\ \A n \in DOMAIN new :
                      ((pc' = "alterNew" => n < i') /\ Unmatched(old, new[n])) => FieldEmitted(t, new[n])'
                 /\ \A m \in DOMAIN old :
                      (/\ pc' # "alterNew"
                       /\ pc' = "alterOld" => m < i'
                       /\ IsDropped(new, old[m])) => ColumnDropped(t, old[m])'
                 /\ (pc' \in Indexing /\ PrimaryKeyModifier /\ PkChanged(old, new)) => KeyModified(t)'
        PROVE  ColumnsInv'
    BY <2>2, <2>5 DEF ColumnsInv
  <2>6. CASE CreateTableStep
    <3>1. t \notin DOMAIN schema
      BY <1>1, <2>1, <2>6 DEF CreateTableStep, ReadInv
    <3>2. Created(t)'
      <4> DEFINE c == CreateTable(t, new)
      <4>1. c \in Change /\ c.op = "createTable" /\ c.table = t
        BY <2>3, ChangeTypes DEF CreateTable
      <4>2. migrations' = Append(migrations, c)
        BY <2>1, <2>6 DEF CreateTableStep
      <4> HIDE DEF c
      <4>3. Len(migrations) + 1 \in DOMAIN migrations' /\ migrations'[Len(migrations) + 1] = c
        BY <1>1, <4>1, <4>2, Appended
      <4>4. QED BY <4>1, <4>3 DEF Created, Emitted
    <3>3. pc' # "create"
      BY <2>6 DEF CreateTableStep
    <3>4. QED BY <2>5, <3>1, <3>2, <3>3
  <2>7. CASE AlterNewField
    <3>1. pc = "alterNew" /\ t \in DOMAIN schema
      BY <1>1, <2>1, <2>7 DEF AlterNewField, LoopInv, Altering, ReadInv
    <3>2. \A n \in DOMAIN new : (n < i /\ Unmatched(old, new[n])) => FieldEmitted(t, new[n])'
      BY <2>4, <3>1
    <3>3. CASE i \in DOMAIN New
      <4>1. PICK k : k = i
        OBVIOUS
      <4>2. /\ k \in DOMAIN new /\ i' = k + 1 /\ pc' = "alterNew"
            /\ migrations' = migrations \o AlterNew(old, new[k])
        BY <2>1, <2>7, <3>1, <3>3, <4>1 DEF AlterNewField
      <4>3. ASSUME Unmatched(old, new[k]) PROVE FieldEmitted(t, new[k])'
        <5>1. PICK c \in Change : /\ AlterNew(old, new[k]) = <<c>>
                                  /\ c.op \in {"addColumn", "modifyColumn"}
                                  /\ c.table = t
                                  /\ c.new = new[k]
          <6>1. CASE AlterNew(old, new[k]) = <<AddColumn(new[k])>>
            BY <2>3, <4>2, <6>1, ChangeTypes DEF AddColumn
          <6>2. CASE \E m \in DOMAIN old : AlterNew(old, new[k]) = <<ModifyColumn(old[m], new[k])>>
            BY <2>3, <4>2, <6>2, ChangeTypes DEF ModifyColumn
          <6>3. QED BY <2>3, <4>2, <4>3, <6>1, <6>2, UnmatchedIsEmitted
        <5>2. migrations' = Append(migrations, c)
          BY <1>1, <4>2, <5>1, AppendIsConcat
        <5>3. Len(migrations) + 1 \in DOMAIN migrations' /\ migrations'[Len(migrations) + 1] = c
          BY <1>1, <5>2, Appended
        <5>4. QED BY <5>1, <5>3 DEF FieldEmitted, Emitted
      <4>4. \A n \in DOMAIN new : n < i' => n < i \/ n = k
        BY <1>1, <2>3, <4>1, <4>2
      <4>5. \A n \in DOMAIN new : (n < i' /\ Unmatched(old, new[n])) => FieldEmitted(t, new[n])'
        BY <3>2, <4>3, <4>4
      <4>6. QED BY <2>5, <3>1, <4>2, <4>5 DEF Indexing
    <3>4. CASE i \notin DOMAIN New
      <4>1. i' = 1 /\ pc' = "alterOld"
        BY <2>7, <3>4 DEF AlterNewField
      <4>2. \A n \in DOMAIN new : n < i
        BY <1>1, <2>1, <2>3, <3>4
      <4>3. \A m \in DOMAIN old : ~(m < i')
        BY <2>3, <4>1
      <4>4. QED BY <2>5, <3>1, <3>2, <4>1, <4>2, <4>3 DEF Indexing
    <3>5. QED BY <3>3, <3>4
  <2>8. CASE AlterOldField
    <3>1. pc = "alterOld" /\ t \in DOMAIN schema
      BY <1>1, <2>1, <2>8 DEF AlterOldField, LoopInv, Altering, ReadInv
    <3>2. /\ \A n \in DOMAIN new : Unmatched(old, new[n]) => FieldEmitted(t, new[n])'
          /\ \A m \in DOMAIN old : (m < i /\ IsDropped(new, old[m])) => ColumnDropped(t, old[m])'
      BY <2>4, <3>1
    <3>3. CASE i \in DOMAIN Old
      <4>1. PICK k : k = i
        OBVIOUS
      <4>2. /\ k \in DOMAIN old /\ i' = k + 1 /\ pc' = "alterOld"
            /\ migrations' = migrations \o AlterOld(new, old[k])
        BY <2>1, <2>8, <3>1, <3>3, <4>1 DEF AlterOldField
      <4>3. ASSUME IsDropped(new, old[k]) PROVE ColumnDropped(t, old[k])'
        <5> DEFINE c == DropColumn(old[k])
        <5>1. c \in Change /\ c.op = "dropColumn" /\ c.table = t /\ c.old = old[k]
          BY <2>3, <4>2, ChangeTypes DEF DropColumn
        <5>2. AlterOld(new, old[k]) = <<c>>
          BY <4>3 DEF AlterOld
        <5> HIDE DEF c
        <5>3. migrations' = Append(migrations, c)
          BY <1>1, <4>2, <5>1, <5>2, AppendIsConcat
        <5>4. Len(migrations) + 1 \in DOMAIN migrations' /\ migrations'[Len(migrations) + 1] = c
          BY <1>1, <5>1, <5>3, Appended
        <5>5. QED BY <5>1, <5>4 DEF ColumnDropped, Emitted
      <4>4. \A m \in DOMAIN old : m < i' => m < i \/ m = k
        BY <1>1, <2>3, <4>1, <4>2
      <4>5. \A m \in DOMAIN old : (m < i' /\ IsDropped(new, old[m])) => ColumnDropped(t, old[m])'
        BY <3>2, <4>3, <4>4
      <4>6. QED BY <2>5, <3>1, <3>2, <4>2, <4>5 DEF Indexing
    <3>4. CASE i \notin DOMAIN Old
      <4>1. pc' = "primaryKey"
        BY <2>8, <3>4 DEF AlterOldField
      <4>2. \A m \in DOMAIN old : m < i
        BY <1>1, <2>1, <2>3, <3>4
      <4>3. QED BY <2>5, <3>1, <3>2, <4>1, <4>2 DEF Indexing
    <3>5. QED BY <3>3, <3>4
  <2>9. CASE PrimaryKey
    <3>1. pc = "primaryKey" /\ pc' = "indexes" /\ t \in DOMAIN schema
      BY <1>1, <2>1, <2>9 DEF PrimaryKey, LoopInv, Altering, ReadInv
    <3>2. PrimaryKeyModifier /\ PkChanged(old, new) => KeyModified(t)'
      <4> SUFFICES ASSUME PrimaryKeyModifier, PkChanged(old, new) PROVE KeyModified(t)'
        OBVIOUS
      <4> DEFINE c == ModifyPrimaryKey(t, old, new)
      <4>1. c \in Change /\ c.op = "modifyPrimaryKey" /\ c.table = t
        BY <2>3, ChangeTypes DEF ModifyPrimaryKey
      <4>2. migrations' = Append(migrations, c)
        BY <2>1, <2>9 DEF PrimaryKey
      <4> HIDE DEF c
      <4>3. Len(migrations) + 1 \in DOMAIN migrations' /\ migrations'[Len(migrations) + 1] = c
        BY <1>1, <4>1, <4>2, Appended
      <4>4. QED BY <4>1, <4>3 DEF KeyModified, Emitted
    <3>3. QED BY <2>4, <2>5, <3>1, <3>2
  <2>10. CASE pc \in Indexing /\ pc' \in Indexing
    <3>1. pc \notin {"create", "alterNew", "alterOld"} /\ pc' \notin {"create", "alterNew", "alterOld"}
      BY <2>10 DEF Indexing
    <3>2. QED BY <2>4, <2>5, <2>10, <3>1
  <2>11. CASE UNCHANGED vars
    <3>1. UNCHANGED <<pc, i>>
      BY <2>11 DEF vars
    <3>2. pc # "create" /\ pc' # "create"
      BY <3>1
    <3>3. QED BY <2>4, <2>5, <3>1, <3>2
  <2>12. \/ CreateTableStep \/ AlterNewField \/ AlterOldField \/ PrimaryKey
         \/ (pc \in Indexing /\ pc' \in Indexing) \/ UNCHANGED vars
    BY <1>4
    DEF Inner, Altering, Indexing, Next, GetTableMap, NextTable, Fail,
        VisitIndex, EndMakeIndexes, DropIndexStep,
        EndDropIndexes, AddIndexStep, EndTable, EndTables, DropLeftover, Return
  <2>13. QED BY <2>6, <2>7, <2>8, <2>9, <2>10, <2>11, <2>12
<1>5. QED BY <1>3, <1>4

\* Every index a visit asked for waits in the list or was created.
LEMMA IndexesStep ==
  ASSUME DueInv, IndexesInv, [Next]_vars, pc' \in Indexing
  PROVE  IndexesInv'
<1>1. /\ LoopInv /\ ReadInv /\ TypeInv /\ ListsInv /\ i \in Nat \ {0} /\ j \in Nat \ {0}
      /\ migrations \in Seq(Change) /\ addIndexes \in Seq(Index) /\ cur \in Tables
  BY DEF DueInv, TypeInv, TypeOK
<1>2. pc' \in Inner /\ Grows
  BY StepGrows DEF Inner, Indexing
<1>3. pc \in Inner
  BY <1>2
  DEF Inner, Altering, Indexing, Next, vars, GetTableMap, NextTable, Fail, CreateTableStep,
      AlterNewField, AlterOldField, PrimaryKey, VisitIndex, EndMakeIndexes, DropIndexStep,
      EndDropIndexes, AddIndexStep, EndTable, EndTables, DropLeftover, Return
<1>4. PICK t, old, new : t = cur /\ old = Old /\ new = New
  OBVIOUS
<1>5. cur' = t /\ Old' = old /\ New' = new
  BY <1>1, <1>2, <1>3, <1>4, SidesStay
<1>6. /\ old \in Seq(Field) /\ new \in Seq(Field) /\ t \in Tables
      /\ DOMAIN new = 1..Len(new) /\ Len(new) \in Nat
      /\ \A n \in DOMAIN new :
           /\ IndexVisits(old, new[n]) \in Seq(Visit)
           /\ DOMAIN IndexVisits(old, new[n]) = 1..Len(IndexVisits(old, new[n]))
           /\ Len(IndexVisits(old, new[n])) \in Nat
  BY <1>1, <1>3, <1>4, SidesType, IndexVisitsType, LenProperties
<1>7. ASSUME \A n \in DOMAIN new : \A k \in DOMAIN IndexVisits(old, new[n]) : \A x, c :
               ((pc' = "indexes" => n < i' \/ (n = i' /\ k < j')) /\ Asks(IndexVisits(old, new[n])[k], x, c))
                 => Held(addIndexes', x, c) \/ IndexCreated(t, x, c)'
      PROVE  IndexesInv'
  BY <1>5, <1>7 DEF IndexesInv, Asks, Asked, Visited
<1>8. ASSUME pc \in Indexing
      PROVE  \A n \in DOMAIN new : \A k \in DOMAIN IndexVisits(old, new[n]) : \A x, c :
               ((pc = "indexes" => n < i \/ (n = i /\ k < j)) /\ Asks(IndexVisits(old, new[n])[k], x, c))
                 => Held(addIndexes, x, c) \/ IndexCreated(t, x, c)'
  <2>1. \A n \in DOMAIN new : \A k \in DOMAIN IndexVisits(old, new[n]) : \A x, c :
          ((pc = "indexes" => n < i \/ (n = i /\ k < j)) /\ Asks(IndexVisits(old, new[n])[k], x, c))
            => Held(addIndexes, x, c) \/ IndexCreated(t, x, c)
    BY <1>4, <1>8 DEF IndexesInv, Asks, Asked, Visited
  <2>2. QED BY <1>2, <2>1, EmittedStays
<1>9. CASE CreateTableStep \/ PrimaryKey
  <2>1. pc' = "indexes" /\ i' = 1 /\ j' = 1
    BY <1>9 DEF CreateTableStep, PrimaryKey
  <2>2. ASSUME NEW n \in DOMAIN new, NEW k \in DOMAIN IndexVisits(old, new[n])
        PROVE  ~(n < i' \/ (n = i' /\ k < j'))
    BY <1>6, <2>1
  <2>3. QED BY <1>7, <2>1, <2>2
<1>10. CASE VisitIndex
  <2>1. pc = "indexes" /\ pc' = "indexes" /\ pc \in Indexing
    BY <1>10 DEF VisitIndex, Indexing
  <2>2. PICK n0, k0 : n0 = i /\ k0 = j
    OBVIOUS
  <2>3. n0 \in DOMAIN new
    BY <1>4, <1>10, <2>2 DEF VisitIndex
  <2> DEFINE visits == IndexVisits(old, new[n0])
             v      == visits[k0]
  <2>4. CASE k0 \in DOMAIN visits
    <3>1. /\ addIndexes' = IF v.kept \/ ~v.add THEN addIndexes ELSE AddToIndexes(addIndexes, t, v)
          /\ i' = n0 /\ j' = k0 + 1
      BY <1>4, <1>10, <2>2, <2>4 DEF VisitIndex
    <3>2. v \in Visit
      BY <1>6, <2>3, <2>4, ElementOfSeq
    <3>3. /\ Held(AddToIndexes(addIndexes, t, v), v.name, v.column)
          /\ \A x, c : Held(addIndexes, x, c) => Held(AddToIndexes(addIndexes, t, v), x, c)
      BY <1>1, <1>6, <3>2, AddToIndexesHolds
    <3>4. \A x, c : Held(addIndexes, x, c) => Held(addIndexes', x, c)
      BY <3>1, <3>3
    <3>5. \A x, c : Asks(v, x, c) => Held(addIndexes', x, c)
      BY <3>1, <3>3 DEF Asks
    <3>6. ASSUME NEW n \in DOMAIN new, NEW k \in DOMAIN IndexVisits(old, new[n]),
                 n < i' \/ (n = i' /\ k < j')
          PROVE  n < i \/ (n = i /\ k < j) \/ (n = n0 /\ k = k0)
      BY <1>1, <1>6, <2>2, <3>1, <3>6
    <3>7. QED BY <1>7, <1>8, <2>1, <3>4, <3>5, <3>6
  <2>5. CASE k0 \notin DOMAIN visits
    <3>1. addIndexes' = addIndexes /\ i' = n0 + 1 /\ j' = 1
      BY <1>4, <1>10, <2>2, <2>5 DEF VisitIndex
    <3>2. ASSUME NEW n \in DOMAIN new, NEW k \in DOMAIN IndexVisits(old, new[n]),
                 n < i' \/ (n = i' /\ k < j')
          PROVE  n < i \/ (n = i /\ k < j)
      <4>1. \A k1 \in DOMAIN visits : k1 < k0
        <5>1. DOMAIN visits = 1..Len(visits) /\ Len(visits) \in Nat /\ k0 \in Nat \ {0}
          BY <1>1, <1>6, <2>2, <2>3
        <5> HIDE DEF visits
        <5>2. QED BY <2>5, <5>1
      <4>2. n < n0 \/ n = n0
        BY <1>1, <1>6, <2>2, <3>1, <3>2
      <4>3. QED BY <2>2, <4>1, <4>2
    <3>3. QED BY <1>7, <1>8, <2>1, <3>1, <3>2
  <2>6. QED BY <2>4, <2>5
<1>11. CASE EndMakeIndexes
  <2>1. /\ pc = "indexes" /\ pc \in Indexing
        /\ i \notin DOMAIN new
        /\ addIndexes' = addIndexes
    BY <1>4, <1>11 DEF EndMakeIndexes, Indexing
  <2>2. \A n \in DOMAIN new : n < i
    BY <1>1, <1>6, <2>1
  <2>3. QED BY <1>7, <1>8, <2>1, <2>2
<1>12. CASE DropIndexStep \/ EndDropIndexes
  <2>1. pc = "dropIndexes" /\ pc \in Indexing /\ addIndexes' = addIndexes
    BY <1>12 DEF DropIndexStep, EndDropIndexes, Indexing
  <2>2. QED BY <1>7, <1>8, <2>1
<1>13. CASE AddIndexStep
  <2>1. pc = "addIndexes" /\ pc \in Indexing /\ addIndexes # <<>> /\ addIndexes' = Tail(addIndexes)
    BY <1>13 DEF AddIndexStep, Indexing
  <2>2. PICK x0 : x0 = Head(addIndexes)
    OBVIOUS
  <2>3. /\ x0 \in Index /\ x0.table = t
        /\ DOMAIN addIndexes = 1..Len(addIndexes) /\ Len(addIndexes) \in Nat \ {0}
        /\ x0 = addIndexes[1]
    <3>1. /\ DOMAIN addIndexes = 1..Len(addIndexes) /\ Len(addIndexes) \in Nat \ {0}
          /\ x0 = addIndexes[1]
      BY <1>1, <2>1, <2>2, EmptySeq, LenProperties
    <3>2. x0 \in Index
      BY <1>1, <3>1, ElementOfSeq
    <3>3. QED BY <1>1, <1>4, <3>1, <3>2 DEF ListsInv
  <2>4. \A x, c : x0.name = x /\ InStrings(x0.columns, c) => IndexCreated(t, x, c)'
    <3>1. /\ CreateIndex(x0) \in Change
          /\ CreateIndex(x0).op = "createIndex" /\ CreateIndex(x0).table = t
          /\ CreateIndex(x0).index = x0
      BY <2>3, ChangeTypes DEF CreateIndex
    <3>2. migrations' = Append(migrations, CreateIndex(x0))
      BY <1>13, <2>2 DEF AddIndexStep
    <3>3. /\ Len(migrations) + 1 \in DOMAIN migrations'
          /\ migrations'[Len(migrations) + 1] = CreateIndex(x0)
      BY <1>1, <3>1, <3>2, Appended
    <3>4. QED BY <3>1, <3>3 DEF IndexCreated, Emitted
  <2>5. ASSUME NEW x, NEW c, Held(addIndexes, x, c)
        PROVE  Held(addIndexes', x, c) \/ IndexCreated(t, x, c)'
    <3>1. PICK m \in DOMAIN addIndexes : addIndexes[m].name = x /\ InStrings(addIndexes[m].columns, c)
      BY <2>5 DEF Held
    <3>2. CASE m = 1
      BY <2>3, <2>4, <3>1, <3>2
    <3>3. CASE m # 1
      <4>1. /\ DOMAIN addIndexes' = 1..(Len(addIndexes) - 1)
            /\ \A n \in 1..(Len(addIndexes) - 1) : addIndexes'[n] = addIndexes[n + 1]
        BY <1>1, <2>1, HeadTailProperties, LenProperties
      <4>2. m - 1 \in 1..(Len(addIndexes) - 1) /\ (m - 1) + 1 = m
        BY <2>3, <3>3
      <4>3. m - 1 \in DOMAIN addIndexes' /\ addIndexes'[m - 1] = addIndexes[m]
        BY <4>1, <4>2
      <4>4. QED BY <3>1, <4>3 DEF Held
    <3>4. QED BY <3>2, <3>3
  <2>6. QED BY <1>7, <1>8, <2>1, <2>5
<1>14. CASE UNCHANGED vars
  <2>1. UNCHANGED <<pc, i, j, addIndexes>> /\ pc \in Indexing
    BY <1>14 DEF vars
  <2>2. QED BY <1>7, <1>8, <2>1
<1>15. QED
  BY <1>9, <1>10, <1>11, <1>12, <1>13, <1>14
  DEF Indexing, Next, GetTableMap, NextTable, Fail, AlterNewField, AlterOldField,
      EndTable, EndTables, DropLeftover, Return

\* At the end of its iteration a table has everything it is owed.
LEMMA CurrentIsServed ==
  ASSUME DueInv, ColumnsInv, IndexesInv, pc = "addIndexes", addIndexes = <<>>
  PROVE  TableServed(cur)
<1>1. pc \in Inner \ {"create"} /\ pc \in Inner /\ pc \in Indexing /\ TypeInv /\ ReadInv
  BY DEF Inner, Indexing, DueInv
<1>2. PICK t, old, new : t = cur /\ old = Old /\ new = New
  OBVIOUS
<1>3. old = OldFields(t) /\ new = src[t] /\ old \in Seq(Field) /\ new \in Seq(Field)
  BY <1>1, <1>2, OldIsRead, SidesType DEF New
<1>4. t \notin DOMAIN schema => Created(t)
  BY <1>1, <1>2 DEF ColumnsInv
<1>5. t \in DOMAIN schema => ColumnsServed(old, new, t)
  <2>1. ~RepeatsKey(new) /\ ~SameKey(old, new) => PkChanged(old, new)
    BY <1>3, UnchangedKey DEF SameKey
  <2>2. QED BY <1>1, <1>2, <2>1 DEF ColumnsInv, ColumnsServed
<1>6. IndexesServed(old, new, t)
  <2> SUFFICES ASSUME NEW n \in DOMAIN new, NEW x \in IndexNames, NEW unique \in BOOLEAN,
                      HasIndex(<<new[n]>>, new[n].column, x, unique),
                      ~HasIndex(old, new[n].column, x, unique)
               PROVE  IndexCreated(t, x, new[n].column)
    BY DEF IndexesServed
  <2>1. new[n] \in Field
    BY <1>3, FieldsOf
  <2>2. Asking(IndexVisits(old, new[n]), x, new[n].column)
    BY <1>3, <2>1, NewIndexIsVisited
  <2>3. PICK k \in DOMAIN IndexVisits(old, new[n]) : Asks(IndexVisits(old, new[n])[k], x, new[n].column)
    BY <2>2 DEF Asking
  <2>4. Asked(x, new[n].column)
    BY <1>1, <1>2, <2>3 DEF IndexesInv, Visited, Asks
  <2>5. ~Held(<<>>, x, new[n].column)
    BY DEF Held
  <2>6. QED BY <1>2, <2>4, <2>5 DEF Asked
<1>7. QED BY <1>2, <1>3, <1>4, <1>5, <1>6 DEF TableServed

\* A declared table Diff is done with has all it is owed, and a table that is to go is still
\* in tableMap or was dropped.
LEMMA TablesStep ==
  ASSUME DueInv, TablesInv, ColumnsInv, IndexesInv, [Next]_vars
  PROVE  TablesInv'
<1>1. /\ LoopInv /\ ReadInv /\ TypeInv /\ src' = src /\ schema' = schema
      /\ names \subseteq DOMAIN src /\ DOMAIN schema \subseteq Tables
      /\ migrations \in Seq(Change) /\ DOMAIN tableMap \subseteq Tables
  BY SourcesKept DEF DueInv, TypeInv, TypeOK, IsSchema
<1>2. SUFFICES ASSUME pc' \notin {"start", "failed"} PROVE TablesInv'
  BY DEF TablesInv
<1>3. Grows
  BY <1>2, StepGrows
<1>4. CASE pc = "start"
  <2>1. GetTableMap
    BY <1>2, <1>4
    DEF Next, vars, NextTable, Fail, CreateTableStep, AlterNewField, AlterOldField,
        PrimaryKey, VisitIndex, EndMakeIndexes, DropIndexStep, EndDropIndexes, AddIndexStep,
        EndTable, EndTables, DropLeftover, Return
  <2>2. Pending' = DOMAIN src
    BY <2>1 DEF GetTableMap, Pending, Inner, Altering, Indexing
  <2>3. DOMAIN src = {} => DOMAIN tableMap' = DOMAIN schema
    BY <1>1, <2>1 DEF GetTableMap, Requested
  <2>4. QED BY <1>1, <2>2, <2>3 DEF TablesInv
<1>5. CASE pc = "failed"
  BY <1>2, <1>5
  DEF Next, vars, GetTableMap, NextTable, Fail, CreateTableStep, AlterNewField, AlterOldField,
      PrimaryKey, VisitIndex, EndMakeIndexes, DropIndexStep, EndDropIndexes, AddIndexStep,
      EndTable, EndTables, DropLeftover, Return
<1>6. CASE pc \notin {"start", "failed"}
  <2>1. /\ \A t \in DOMAIN src \ Pending : TableServed(t)'
        /\ DOMAIN src = {} => \A t \in DOMAIN schema : t \in DOMAIN tableMap \/ TableDropped(t)'
    BY <1>1, <1>3, <1>6, ServedStays, EmittedStays DEF TablesInv
  <2>2. CASE EndTable
    <3>1. PICK t : t = cur
      OBVIOUS
    <3>2. /\ pc = "addIndexes" /\ addIndexes = <<>> /\ t \in DOMAIN src
          /\ Pending' = Pending \ {t}
      BY <1>1, <2>2, <3>1 DEF EndTable, LoopInv, Pending, Inner, Altering, Indexing
    <3>3. TableServed(t)
      BY <3>1, <3>2, CurrentIsServed
    <3>4. TableServed(t)'
      BY <1>1, <1>3, <3>3, ServedStays
    <3>5. QED BY <1>1, <2>1, <3>2, <3>4 DEF TablesInv
  <2>3. CASE DropLeftover
    <3>1. PICK t \in DOMAIN tableMap :
            /\ migrations' = Append(migrations, DropTable(t))
            /\ DOMAIN tableMap' = DOMAIN tableMap \ {t}
      BY <2>3 DEF DropLeftover
    <3>2. DropTable(t) \in Change /\ DropTable(t).op = "dropTable" /\ DropTable(t).table = t
      BY <1>1, ChangeTypes DEF DropTable
    <3>3. Len(migrations) + 1 \in DOMAIN migrations' /\ migrations'[Len(migrations) + 1] = DropTable(t)
      BY <1>1, <3>1, <3>2, Appended
    <3>4. TableDropped(t)'
      BY <3>2, <3>3 DEF TableDropped, Emitted
    <3>5. Pending' = Pending
      BY <2>3 DEF DropLeftover, Pending, Inner, Altering, Indexing
    <3>6. QED BY <1>1, <2>1, <3>1, <3>4, <3>5 DEF TablesInv
  <2>4. CASE ~EndTable /\ ~DropLeftover
    <3>1. tableMap' = tableMap
      BY <1>6, <2>4
      DEF Next, vars, GetTableMap, NextTable, Fail, CreateTableStep, AlterNewField, AlterOldField,
          PrimaryKey, VisitIndex, EndMakeIndexes, DropIndexStep, EndDropIndexes, AddIndexStep,
          EndTables, Return
    <3>2. Pending' = Pending
      BY <1>2, <1>6, <2>4
      DEF Pending, Inner, Altering, Indexing, Next, vars, GetTableMap, NextTable, Fail,
          CreateTableStep, AlterNewField, AlterOldField, PrimaryKey, VisitIndex, EndMakeIndexes,
          DropIndexStep, EndDropIndexes, AddIndexStep, EndTables, Return
    <3>3. QED BY <1>1, <2>1, <3>1, <3>2 DEF TablesInv
  <2>5. QED BY <2>2, <2>3, <2>4
<1>7. QED BY <1>4, <1>5, <1>6

\* What is owed at each place of the loops has been emitted.
LEMMA ServedInvHolds == Spec => []ServedInv
<1>1. Init => ServedInv
  <2> SUFFICES ASSUME Init PROVE ServedInv
    OBVIOUS
  <2>1. pc = "start" /\ pc \notin Inner /\ pc \notin Indexing
    BY DEF Init, Inner, Altering, Indexing
  <2>2. QED BY <2>1 DEF ServedInv, TablesInv, ColumnsInv, IndexesInv
<1>2. DueInv /\ ServedInv /\ [Next]_vars => ServedInv'
  <2> SUFFICES ASSUME DueInv, ServedInv, [Next]_vars PROVE ServedInv'
    OBVIOUS
  <2>1. TablesInv'
    BY TablesStep DEF ServedInv
  <2>2. ColumnsInv'
    <3>1. CASE pc' \in Inner \ {"create"}
      BY <3>1, ColumnsStep DEF ServedInv
    <3>2. CASE pc' \notin Inner \ {"create"}
      BY <3>2 DEF ColumnsInv
    <3>3. QED BY <3>1, <3>2
  <2>3. IndexesInv'
    <3>1. CASE pc' \in Indexing
      BY <3>1, IndexesStep DEF ServedInv
    <3>2. CASE pc' \notin Indexing
      BY <3>2 DEF IndexesInv
    <3>3. QED BY <3>1, <3>2
  <2>4. QED BY <2>1, <2>2, <2>3 DEF ServedInv
<1>3. QED BY <1>1, <1>2, DueInvHolds, PTL DEF Spec

\* Diff returns when nothing is left to drop.
DoneInv == pc = "done" => DOMAIN tableMap = {}

LEMMA DoneInvHolds == Spec => []DoneInv
<1>1. Init => DoneInv
  BY DEF Init, DoneInv
<1>2. DoneInv /\ [Next]_vars => DoneInv'
  BY DEF DoneInv, Next, vars, GetTableMap, NextTable, Fail, CreateTableStep, AlterNewField,
         AlterOldField, PrimaryKey, VisitIndex, EndMakeIndexes, DropIndexStep, EndDropIndexes,
         AddIndexStep, EndTable, EndTables, DropLeftover, Return
<1>3. QED BY <1>1, <1>2, PTL DEF Spec

\* When Diff returns nothing is owed: each declared table exists or is created, each of its
\* columns, keys and indexes has its statement, and with no declared table every table goes.
\* What is left to drop is no more in tableMap, and no table is pending.
THEOREM EverythingServed == Spec => []EverythingIsServed
<1>1. DueInv /\ ServedInv /\ DoneInv => EverythingIsServed
  <2> SUFFICES ASSUME DueInv, ServedInv, DoneInv, pc = "done" PROVE EverythingIsServed
    BY DEF EverythingIsServed
  <2>1. Pending = {} /\ DOMAIN tableMap = {}
    BY DEF DueInv, ReadInv, DoneInv, Pending, Inner, Altering, Indexing
  <2>2. QED BY <2>1 DEF ServedInv, TablesInv, EverythingIsServed
<1>2. QED BY <1>1, DueInvHolds, ServedInvHolds, DoneInvHolds, PTL
=============================================================================
