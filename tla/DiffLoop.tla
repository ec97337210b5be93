------------------------------ MODULE DiffLoop ------------------------------
(***************************************************************************)
(* migu.Diff (src/migu.go) as it runs: it reads the tables the source       *)
(* declares, walks them in the order of their names, and for each one       *)
(* appends the column changes, the primary key change and the index         *)
(* changes; what is left of the tables it read is dropped.  One action is   *)
(* one iteration of one of its loops.  The map droppedColumn lives outside  *)
(* the loop over the tables, as in the code.                                *)
(***************************************************************************)
EXTENDS DiffFunction

CONSTANTS
  Sources,             \* the declarations explored (structMap)
  Schemas,             \* the databases explored, as the fields read from them
  PrimaryKeyModifier   \* the dialect implements PrimaryKeyModifier (MySQL does)

ASSUME SourcesAssumption == \A s \in Sources : IsSchema(s)
ASSUME SchemasAssumption == \A s \in Schemas : IsSchema(s)
ASSUME PrimaryKeyModifierAssumption == PrimaryKeyModifier \in BOOLEAN

VARIABLES
  src,            \* structMap: the fields each declared table has
  schema,         \* what the database holds
  tableMap,       \* what Diff read and has not dealt with yet
  names,          \* the declared tables not visited yet
  cur,            \* the table of this iteration
  pc,             \* the loop Diff is in
  i,              \* its position
  j,              \* position of the inner loop of makeIndexes
  migrations,     \* the changes emitted so far
  droppedColumn,  \* columns some DROP has been emitted for
  dropIndexes,    \* indexes to drop in the table
  addIndexes      \* indexes to create in the table

vars == <<src, schema, tableMap, names, cur, pc, i, j, migrations,
          droppedColumn, dropIndexes, addIndexes>>

Steps == {"start", "tables", "create", "alterNew", "alterOld", "primaryKey",
          "indexes", "dropIndexes", "addIndexes", "leftover", "done", "failed"}

Old == IF cur \in DOMAIN tableMap THEN tableMap[cur] ELSE <<>>
New == src[cur]

Init ==
  /\ src \in Sources
  /\ schema \in Schemas
  /\ tableMap = [t \in {} |-> <<>>]
  /\ names = {}
  /\ cur = CHOOSE t \in Tables : TRUE
  /\ pc = "start"
  /\ i = 1
  /\ j = 1
  /\ migrations = <<>>
  /\ droppedColumn = {}
  /\ dropIndexes = <<>>
  /\ addIndexes = <<>>

\* With no name to ask for, ColumnSchema filters nothing and answers for every
\* table of the database.
Requested == IF DOMAIN src = {} THEN Tables ELSE DOMAIN src

\* Mutant: it walks the tables it found.
GetTableMapFound ==
  /\ pc = "start"
  /\ tableMap' = [t \in DOMAIN schema \intersect Requested |-> schema[t]]
  /\ names' = DOMAIN schema
  /\ pc' = "tables"
  /\ UNCHANGED <<src, schema, cur, i, j, migrations, droppedColumn,
                 dropIndexes, addIndexes>>

GetTableMap ==
  /\ pc = "start"
  /\ tableMap' = [t \in DOMAIN schema \intersect Requested |-> schema[t]]
  /\ names' = DOMAIN src
  /\ pc' = "tables"
  /\ UNCHANGED <<src, schema, cur, i, j, migrations, droppedColumn,
                 dropIndexes, addIndexes>>

NextTable ==
  /\ pc = "tables"
  /\ \E t \in names :
       /\ \A u \in names : Rank[t] <= Rank[u]
       /\ cur' = t
       /\ names' = names \ {t}
       /\ pc' = IF t \in DOMAIN tableMap THEN "alterNew" ELSE "create"
  /\ i' = 1
  /\ UNCHANGED <<src, schema, tableMap, j, migrations, droppedColumn,
                 dropIndexes, addIndexes>>

\* The source does not parse, the database cannot be read, or a column of a
\* table cannot be turned back into a field: Diff returns the error alone.
Fail ==
  /\ pc = "start" \/ (pc = "alterNew" /\ i = 1)
  /\ pc' = "failed"
  /\ migrations' = <<>>
  /\ UNCHANGED <<src, schema, tableMap, names, cur, i, j, droppedColumn,
                 dropIndexes, addIndexes>>

CreateTableStep ==
  /\ pc = "create"
  /\ migrations' = Append(migrations, CreateTable(cur, New))
  /\ pc' = "indexes"
  /\ i' = 1
  /\ j' = 1
  /\ UNCHANGED <<src, schema, tableMap, names, cur, droppedColumn,
                 dropIndexes, addIndexes>>

AlterNewField ==
  /\ pc = "alterNew"
  /\ IF i \in DOMAIN New
       THEN /\ migrations' = migrations \o AlterNew(Old, New[i])
            /\ i' = i + 1
            /\ pc' = pc
       ELSE /\ i' = 1
            /\ pc' = "alterOld"
            /\ UNCHANGED migrations
  /\ UNCHANGED <<src, schema, tableMap, names, cur, j, droppedColumn,
                 dropIndexes, addIndexes>>

\* The code fills droppedColumn after the primary key statement; nothing reads
\* it in between.
AlterOldField ==
  /\ pc = "alterOld"
  /\ IF i \in DOMAIN Old
       THEN /\ migrations' = migrations \o AlterOld(New, Old[i])
            /\ droppedColumn' = IF IsDropped(New, Old[i])
                                  THEN droppedColumn \union {Old[i].column}
                                  ELSE droppedColumn
            /\ i' = i + 1
            /\ pc' = pc
       ELSE /\ pc' = "primaryKey"
            /\ UNCHANGED <<migrations, droppedColumn, i>>
  /\ UNCHANGED <<src, schema, tableMap, names, cur, j, dropIndexes, addIndexes>>

PrimaryKey ==
  /\ pc = "primaryKey"
  /\ migrations' = IF PrimaryKeyModifier /\ PkChanged(Old, New)
                     THEN Append(migrations, ModifyPrimaryKey(cur, Old, New))
                     ELSE migrations
  /\ pc' = "indexes"
  /\ i' = 1
  /\ j' = 1
  /\ UNCHANGED <<src, schema, tableMap, names, cur, droppedColumn,
                 dropIndexes, addIndexes>>

\* One visit of makeIndexes, or the step to the next new field.
VisitIndex ==
  /\ pc = "indexes"
  /\ i \in DOMAIN New
  /\ LET visits == IndexVisits(Old, New[i])
         v      == visits[j]
     IN  IF j \in DOMAIN visits
           THEN /\ dropIndexes' = IF v.kept \/ v.add THEN dropIndexes
                                  ELSE AddToIndexes(dropIndexes, cur, v)
                /\ addIndexes' = IF v.kept \/ ~v.add THEN addIndexes
                                 ELSE AddToIndexes(addIndexes, cur, v)
                /\ j' = j + 1
                /\ i' = i
           ELSE /\ i' = i + 1
                /\ j' = 1
                /\ UNCHANGED <<dropIndexes, addIndexes>>
  /\ UNCHANGED <<src, schema, tableMap, names, cur, pc, migrations, droppedColumn>>

EndMakeIndexes ==
  /\ pc = "indexes"
  /\ i \notin DOMAIN New
  /\ pc' = "dropIndexes"
  /\ UNCHANGED <<src, schema, tableMap, names, cur, i, j, migrations,
                 droppedColumn, dropIndexes, addIndexes>>

\* Mutant: droppedColumn is not consulted.
DropIndexAlways ==
  /\ pc = "dropIndexes"
  /\ dropIndexes # <<>>
  /\ migrations' = Append(migrations, DropIndex(Head(dropIndexes)))
  /\ dropIndexes' = Tail(dropIndexes)
  /\ UNCHANGED <<src, schema, tableMap, names, cur, pc, i, j, droppedColumn,
                 addIndexes>>

\* A DROP INDEX is left out when the first column of the index is believed to
\* go.
DropIndexStep ==
  /\ pc = "dropIndexes"
  /\ dropIndexes # <<>>
  /\ LET x == Head(dropIndexes)
     IN  migrations' = IF x.columns[1] \in droppedColumn THEN migrations
                       ELSE Append(migrations, DropIndex(x))
  /\ dropIndexes' = Tail(dropIndexes)
  /\ UNCHANGED <<src, schema, tableMap, names, cur, pc, i, j, droppedColumn,
                 addIndexes>>

EndDropIndexes ==
  /\ pc = "dropIndexes"
  /\ dropIndexes = <<>>
  /\ pc' = "addIndexes"
  /\ UNCHANGED <<src, schema, tableMap, names, cur, i, j, migrations,
                 droppedColumn, dropIndexes, addIndexes>>

AddIndexStep ==
  /\ pc = "addIndexes"
  /\ addIndexes # <<>>
  /\ migrations' = Append(migrations, CreateIndex(Head(addIndexes)))
  /\ addIndexes' = Tail(addIndexes)
  /\ UNCHANGED <<src, schema, tableMap, names, cur, pc, i, j, droppedColumn,
                 dropIndexes>>

\* delete(structMap, name); delete(tableMap, name).
EndTable ==
  /\ pc = "addIndexes"
  /\ addIndexes = <<>>
  /\ tableMap' = [t \in DOMAIN tableMap \ {cur} |-> tableMap[t]]
  /\ pc' = "tables"
  /\ UNCHANGED <<src, schema, names, cur, i, j, migrations, droppedColumn,
                 dropIndexes, addIndexes>>

EndTables ==
  /\ pc = "tables"
  /\ names = {}
  /\ pc' = "leftover"
  /\ UNCHANGED <<src, schema, tableMap, names, cur, i, j, migrations,
                 droppedColumn, dropIndexes, addIndexes>>

\* The range over the map visits the tables in any order.
DropLeftover ==
  /\ pc = "leftover"
  /\ \E t \in DOMAIN tableMap :
       /\ migrations' = Append(migrations, DropTable(t))
       /\ tableMap' = [u \in DOMAIN tableMap \ {t} |-> tableMap[u]]
  /\ UNCHANGED <<src, schema, names, cur, pc, i, j, droppedColumn,
                 dropIndexes, addIndexes>>

Return ==
  /\ pc = "leftover"
  /\ DOMAIN tableMap = {}
  /\ pc' = "done"
  /\ UNCHANGED <<src, schema, tableMap, names, cur, i, j, migrations,
                 droppedColumn, dropIndexes, addIndexes>>

Next ==
  \/ GetTableMap
  \/ NextTable
  \/ Fail
  \/ CreateTableStep
  \/ AlterNewField
  \/ AlterOldField
  \/ PrimaryKey
  \/ VisitIndex
  \/ EndMakeIndexes
  \/ DropIndexStep
  \/ EndDropIndexes
  \/ AddIndexStep
  \/ EndTable
  \/ EndTables
  \/ DropLeftover
  \/ Return

Spec == Init /\ [][Next]_vars
-----------------------------------------------------------------------------
(* Properties.                                                             *)

\* Every variable has its type.
TypeOK ==
  /\ IsSchema(src)
  /\ IsSchema(schema)
  /\ IsSchema(tableMap)
  /\ names \subseteq DOMAIN src
  /\ cur \in Tables
  /\ pc \in Steps
  /\ i \in Nat \ {0}
  /\ j \in Nat \ {0}
  /\ migrations \in Seq(Change)
  /\ droppedColumn \subseteq Columns
  /\ dropIndexes \in Seq(Index)
  /\ addIndexes \in Seq(Index)

NewHas(t, c) == t \in DOMAIN src /\ c \in ColumnsOf(src[t])
OldHas(t, c) == t \in DOMAIN schema /\ c \in ColumnsOf(schema[t])

OldFields(t) == IF t \in DOMAIN schema THEN schema[t] ELSE <<>>

\* One list of key columns is the other one in some order.
SameKey(old, new) ==
  \E counterpart \in Bijection(KeyFields(new), KeyFields(old)) :
    \A n \in KeyFields(new) : old[counterpart[n]].column = new[n].column

\* What makes an index one to drop from, or to create on, its table: it has a
\* column, and on each of its columns one side has it and the other has not.
DropIndexDue(x) ==
  /\ x.columns # <<>>
  /\ x.table \in DOMAIN src
  /\ \A n \in DOMAIN x.columns :
       \E unique \in BOOLEAN :
         /\ HasIndex(OldFields(x.table), x.columns[n], x.name, unique)
         /\ NewHas(x.table, x.columns[n])
         /\ LacksIndex(src[x.table], x.columns[n], x.name, unique)

CreateIndexDue(x) ==
  /\ x.columns # <<>>
  /\ x.table \in DOMAIN src
  /\ \A n \in DOMAIN x.columns :
       \E unique \in BOOLEAN :
         /\ HasIndex(src[x.table], x.columns[n], x.name, unique)
         /\ LacksIndex(OldFields(x.table), x.columns[n], x.name, unique)

\* What justifies a change.
Due(c) ==
  CASE c.op = "createTable" ->
         c.table \in DOMAIN src \ DOMAIN schema /\ c.fields = src[c.table]
    [] c.op = "addColumn" ->
         NewHas(c.table, c.new.column) /\ ~OldHas(c.table, c.new.column)
    [] c.op = "dropColumn" ->
         /\ c.table \in DOMAIN src
         /\ OldHas(c.table, c.old.column)
         /\ ~NewHas(c.table, c.old.column)
    [] c.op = "modifyColumn" ->
         /\ OldHas(c.table, c.old.column)
         /\ NewHas(c.table, c.new.column)
         /\ IsDifferent(c.old, c.new)
    [] c.op = "modifyPrimaryKey" ->
         /\ c.table \in DOMAIN src \intersect DOMAIN schema
         /\ ~SameKey(schema[c.table], src[c.table])
         /\ c.oldPk = PkColumns(schema[c.table]) /\ c.newPk = PkColumns(src[c.table])
    [] c.op = "dropIndex" -> c.index.table = c.table /\ DropIndexDue(c.index)
    [] c.op = "createIndex" -> c.index.table = c.table /\ CreateIndexDue(c.index)
    [] c.op = "dropTable" -> DOMAIN src = {} /\ c.table \in DOMAIN schema

\* Diff never emits a change nothing asks for: no DROP of a column the struct
\* declares or of a table the source left out while declaring another, no
\* ADD of a column that exists, no new key where the two sides list the same
\* columns, and no DROP INDEX of an index the column has not.
EveryChangeIsDue ==
  /\ \A n \in DOMAIN migrations : Due(migrations[n])
  /\ \A n \in DOMAIN dropIndexes : DropIndexDue(dropIndexes[n])
  /\ \A n \in DOMAIN addIndexes : CreateIndexDue(addIndexes[n])

\* No column is declared twice, and no column has the name of the Go field of
\* another column.
Unambiguous(fields) ==
  \A m, n \in DOMAIN fields :
    m # n => fields[m].column \notin {fields[n].column, fields[n].name}

SameNames(a, b) == \A x \in IndexNames : InStrings(a, x) <=> InStrings(b, x)

Agree(old, new) ==
  /\ Unambiguous(old)
  /\ ColumnsOf(old) = ColumnsOf(new)
  /\ SameKey(old, new)
  /\ \A m \in DOMAIN old, n \in DOMAIN new :
       old[m].column = new[n].column =>
         /\ old[m].def = new[n].def
         /\ SameNames(Indexes(old[m]), Indexes(new[n]))
         /\ SameNames(UniqueIndexes(old[m]), UniqueIndexes(new[n]))

\* A database that already is what the source declares gets no statement,
\* whatever the Go fields are called and in whatever order the columns are.
NothingToDo ==
  (/\ DOMAIN schema \intersect Requested = DOMAIN src
   /\ \A t \in DOMAIN src : Agree(schema[t], src[t]))
    => migrations = <<>>

Phase(c) ==
  CASE c.op \in {"createTable", "addColumn", "modifyColumn"} -> 1
    [] c.op = "dropColumn" -> 2
    [] c.op = "modifyPrimaryKey" -> 3
    [] c.op = "dropIndex" -> 4
    [] c.op = "createIndex" -> 5
    [] c.op = "dropTable" -> 6

\* The statements of a table come in an order the database can execute: the
\* columns an index or a key is made of exist before it is created, and an
\* index is dropped before one of its name is created.
PhasesInOrder ==
  \A m, n \in DOMAIN migrations :
    (m < n /\ migrations[m].table = migrations[n].table)
      => Phase(migrations[m]) <= Phase(migrations[n])

\* An index is dropped at most once and created at most once: the fields of
\* a struct that name it are gathered in one statement.
OneStatementPerIndex ==
  \A m, n \in DOMAIN migrations :
    (/\ m # n
     /\ migrations[m].op = migrations[n].op
     /\ migrations[m].table = migrations[n].table
     /\ migrations[m].op \in {"dropIndex", "createIndex"})
      => migrations[m].index.name # migrations[n].index.name

Emitted(P(_)) == \E n \in DOMAIN migrations : P(migrations[n])

Created(t) == Emitted(LAMBDA c : c.op = "createTable" /\ c.table = t)
FieldEmitted(t, f) ==
  Emitted(LAMBDA c : /\ c.op \in {"addColumn", "modifyColumn"}
                     /\ c.table = t
                     /\ c.new = f)
ColumnDropped(t, o) ==
  Emitted(LAMBDA c : c.op = "dropColumn" /\ c.table = t /\ c.old = o)
KeyModified(t) == Emitted(LAMBDA c : c.op = "modifyPrimaryKey" /\ c.table = t)
IndexCreated(t, x, column) ==
  Emitted(LAMBDA c : /\ c.op = "createIndex"
                     /\ c.table = t
                     /\ c.index.name = x
                     /\ InStrings(c.index.columns, column))
TableDropped(t) == Emitted(LAMBDA c : c.op = "dropTable" /\ c.table = t)

\* What Diff owes a declared table: it exists; each column the database lacks
\* is added or made out of another one, each that differs is changed, each
\* that neither name of a declared field keeps is dropped; a key that is not
\* the one listed is changed, and each new index is created on each column
\* that asks for it.  A struct that lists a column of its key twice is owed no
\* key: Diff takes a, a for the key of a table whose key is a, b.
ColumnsServed(old, new, t) ==
  /\ \A n \in DOMAIN new : Unmatched(old, new[n]) => FieldEmitted(t, new[n])
  /\ \A m \in DOMAIN old : IsDropped(new, old[m]) => ColumnDropped(t, old[m])
  /\ (PrimaryKeyModifier /\ ~RepeatsKey(new) /\ ~SameKey(old, new)) => KeyModified(t)

IndexesServed(old, new, t) ==
  \A n \in DOMAIN new, x \in IndexNames, unique \in BOOLEAN :
    (/\ HasIndex(<<new[n]>>, new[n].column, x, unique)
     /\ ~HasIndex(old, new[n].column, x, unique))
      => IndexCreated(t, x, new[n].column)

TableServed(t) ==
  /\ t \notin DOMAIN schema => Created(t)
  /\ t \in DOMAIN schema => ColumnsServed(OldFields(t), src[t], t)
  /\ IndexesServed(OldFields(t), src[t], t)

\* When Diff returns, everything the source asks for has been emitted; with no
\* source table, every table goes.
EverythingIsServed ==
  pc = "done" =>
    /\ \A t \in DOMAIN src : TableServed(t)
    /\ DOMAIN src = {} => \A t \in DOMAIN schema : TableDropped(t)

\* The loops and the function return the same statements.
LoopsComputeDiff ==
  pc = "done" => migrations \in Diff(src, schema, PrimaryKeyModifier)

\* The comment on the test of droppedColumn: "If the column which has the
\* index will be deleted, Migu will not delete the index related to the
\* column".  An index left alone is one whose column this table loses.
IndexKeptForDroppedColumnOnly ==
  (pc = "dropIndexes" /\ dropIndexes # <<>>) =>
    LET c == Head(dropIndexes).columns[1]
    IN  c \in droppedColumn =>
          Emitted(LAMBDA m : /\ m.op = "dropColumn"
                             /\ m.table = cur
                             /\ m.old.column = c)
=============================================================================
