--------------------------- MODULE MySQLSyncProofs ---------------------------
(***************************************************************************)
(* What the runs of sync never do to a MySQL database, for any number of     *)
(* runs that overlap, are refused, break off or are started again, and any   *)
(* versions of the source; and, of runs that do not overlap, that success    *)
(* means a database that matches, which no run changes.                      *)
(***************************************************************************)
EXTENDS MySQLSync, PlanTheorems

-----------------------------------------------------------------------------
(* Statements.                                                             *)

\* An index with other columns.
LEMMA IndexWith ==
  ASSUME NEW y \in Index, NEW columns \in Seq(Columns)
  PROVE  LET x == [y EXCEPT !.columns = columns] IN x \in Index /\ x.columns = columns
BY DEF Index

\* ADD adds a column.
LEMMA AddColumnDoes ==
  ASSUME NEW tbl, IsTable(tbl), NEW f \in Field, NEW new \in AddColumnSQL(tbl, AddColumn(f))
  PROVE  /\ IsTable(new)
         /\ ToSet(new.columns) = ToSet(tbl.columns) \union {ColumnSQL(f, NewColumn)}
<1>1. new = [tbl EXCEPT !.columns = Append(@, ColumnSQL(f, NewColumn))]
  BY DEF AddColumnSQL, OnlyIf, AddColumn
<1>2. ColumnSQL(f, NewColumn) \in Column
  BY DEF ColumnSQL, Column, Field
<1>3. /\ Append(tbl.columns, ColumnSQL(f, NewColumn)) \in Seq(Column)
      /\ ToSet(Append(tbl.columns, ColumnSQL(f, NewColumn)))
           = ToSet(tbl.columns) \union {ColumnSQL(f, NewColumn)}
  BY <1>2, PartsOfTable, AppendElements
<1>4. new = [columns |-> Append(tbl.columns, ColumnSQL(f, NewColumn)),
             pk |-> tbl.pk, indexes |-> tbl.indexes]
  <2>1. tbl = [columns |-> tbl.columns, pk |-> tbl.pk, indexes |-> tbl.indexes]
    BY PartsOfTable, Zenon
  <2>2. QED BY <1>1, <2>1
<1>5. {col.name : col \in ToSet(tbl.columns)}
        \subseteq {col.name : col \in ToSet(Append(tbl.columns, ColumnSQL(f, NewColumn)))}
  BY <1>3
<1>6. IsTable(new)
  BY <1>3, <1>4, <1>5, PartsOfTable, TableFromParts
<1>7. QED BY <1>3, <1>4, <1>6

\* DROP takes a column away, and keeps the key and the indexes on columns that are left.
LEMMA DropColumnDoes ==
  ASSUME NEW tbl, IsTable(tbl), NEW o \in Field, NEW new \in DropColumnSQL(tbl, DropColumn(o))
  PROVE  /\ IsTable(new)
         /\ ToSet(new.columns) = {col \in ToSet(tbl.columns) : col.name # o.column}
<1> DEFINE gone   == o.column
           kept   == WithoutColumn(tbl.columns, gone)
           shrunk == {[x EXCEPT !.columns = Without(@, gone)] : x \in tbl.indexes}
           left   == {x \in shrunk : x.columns # <<>>}
<1>1. new = [columns |-> kept, pk |-> tbl.pk \ {gone}, indexes |-> left]
  BY DEF DropColumnSQL, OnlyIf, DropColumn
<1>2. kept \in Seq(Column) /\ ToSet(kept) = {col \in ToSet(tbl.columns) : col.name # gone}
  BY PartsOfTable, WithoutColumnElements
<1> HIDE DEF kept
<1>3. ASSUME NEW x \in shrunk
      PROVE  x \in Index /\ ToSet(x.columns) \subseteq {col.name : col \in ToSet(kept)}
  <2>1. PICK y \in tbl.indexes : x = [y EXCEPT !.columns = Without(@, gone)]
    OBVIOUS
  <2>2. y \in Index /\ y.columns \in Seq(Columns)
        /\ ToSet(y.columns) \subseteq {col.name : col \in ToSet(tbl.columns)}
    <3>1. \A z \in tbl.indexes :
            z \in Index /\ ToSet(z.columns) \subseteq {col.name : col \in ToSet(tbl.columns)}
      BY PartsOfTable
    <3>2. \A z \in Index : z.columns \in Seq(Columns)
      BY DEF Index
    <3>3. QED BY <3>1, <3>2
  <2>3. /\ Without(y.columns, gone) \in Seq(Columns)
        /\ ToSet(Without(y.columns, gone)) = ToSet(y.columns) \ {gone}
    BY <2>2, WithoutElements
  <2>4. x \in Index /\ x.columns = Without(y.columns, gone)
    BY <2>1, <2>2, <2>3, IndexWith
  <2>5. QED BY <1>2, <2>2, <2>3, <2>4
<1>4. tbl.pk \ {gone} \subseteq {col.name : col \in ToSet(kept)}
  BY <1>2, PartsOfTable
<1> HIDE DEF shrunk
<1>5. IsTable(new)
  BY <1>1, <1>2, <1>3, <1>4, TableFromParts
<1>6. QED BY <1>1, <1>2, <1>5

\* CHANGE gives a column another name and definition, and leaves it its data.
LEMMA ModifyColumnDoes ==
  ASSUME NEW tbl, IsTable(tbl), NEW o \in Field, NEW f \in Field,
         NEW new \in ModifyColumnSQL(tbl, ModifyColumn(o, f))
  PROVE  /\ IsTable(new)
         /\ \A col \in ToSet(tbl.columns) :
              IF col.name = o.column THEN ColumnSQL(f, col.data) \in ToSet(new.columns)
              ELSE col \in ToSet(new.columns)
         /\ \A col \in ToSet(new.columns) : col \in ToSet(tbl.columns) \/ col.name = f.column
<1> DEFINE Renamed(k) == IF k = o.column THEN f.column ELSE k
           Changed(col) == IF col.name = o.column THEN ColumnSQL(f, col.data) ELSE col
           cs == [n \in DOMAIN tbl.columns |-> Changed(tbl.columns[n])]
           pk == {Renamed(k) : k \in tbl.pk}
           xs == {[x EXCEPT !.columns = [n \in DOMAIN @ |-> Renamed(@[n])]] : x \in tbl.indexes}
<1>1. new = [columns |-> cs, pk |-> pk, indexes |-> xs]
  BY DEF ModifyColumnSQL, OnlyIf, ModifyColumn
<1>2. /\ DOMAIN tbl.columns = 1..Len(tbl.columns) /\ Len(tbl.columns) \in Nat
      /\ \A n \in 1..Len(tbl.columns) : tbl.columns[n] \in Column
      /\ f.column \in Columns /\ f.def \in Defs
  BY PartsOfTable, Elements DEF Field
<1>3. \A col \in Column : Changed(col) \in Column /\ Changed(col).name = Renamed(col.name)
  BY <1>2 DEF Column, ColumnSQL
<1>4. cs \in Seq(Column) /\ ToSet(cs) = {Changed(col) : col \in ToSet(tbl.columns)}
  <2> HIDE DEF Changed
  <2>1. cs \in [1..Len(tbl.columns) -> Column]
    BY <1>2, <1>3
  <2>2. ToSet(cs) = {Changed(col) : col \in ToSet(tbl.columns)}
    BY DEF ToSet
  <2>3. QED BY <1>2, <2>1, <2>2, SeqDef
<1>5. {col.name : col \in ToSet(cs)} = {Renamed(k) : k \in {col.name : col \in ToSet(tbl.columns)}}
  <2>1. \A col \in ToSet(tbl.columns) : col \in Column
    BY PartsOfTable, Elements
  <2> HIDE DEF Changed, Renamed, cs
  <2>2. QED BY <1>3, <1>4, <2>1
<1>6. ASSUME NEW x \in xs
      PROVE  x \in Index /\ ToSet(x.columns) \subseteq {col.name : col \in ToSet(cs)}
  <2>1. PICK y \in tbl.indexes : x = [y EXCEPT !.columns = [n \in DOMAIN @ |-> Renamed(@[n])]]
    OBVIOUS
  <2>2. y \in Index /\ y.columns \in Seq(Columns)
        /\ ToSet(y.columns) \subseteq {col.name : col \in ToSet(tbl.columns)}
    <3>1. \A z \in tbl.indexes :
            z \in Index /\ ToSet(z.columns) \subseteq {col.name : col \in ToSet(tbl.columns)}
      BY PartsOfTable
    <3>2. \A z \in Index : z.columns \in Seq(Columns)
      BY DEF Index
    <3>3. QED BY <3>1, <3>2
  <2>3. DOMAIN y.columns = 1..Len(y.columns) /\ Len(y.columns) \in Nat
        /\ \A n \in 1..Len(y.columns) : y.columns[n] \in Columns /\ y.columns[n] \in ToSet(y.columns)
    BY <2>2, Elements
  <2> DEFINE ns == [n \in DOMAIN y.columns |-> Renamed(y.columns[n])]
  <2>4. ns \in Seq(Columns)
    <3>1. ns \in [1..Len(y.columns) -> Columns]
      BY <1>2, <2>3
    <3>2. QED BY <2>3, <3>1, SeqDef
  <2>5. ToSet(ns) = {Renamed(k) : k \in ToSet(y.columns)}
    BY DEF ToSet
  <2>6. x \in Index /\ x.columns = ns
    <3>1. x = [y EXCEPT !.columns = ns]
      BY <2>1
    <3> HIDE DEF ns
    <3>2. QED BY <2>2, <2>4, <3>1, IndexWith
  <2> HIDE DEF Renamed, ns, cs
  <2>7. QED BY <1>5, <2>2, <2>5, <2>6
<1>7. pk \subseteq {col.name : col \in ToSet(cs)}
  <2>1. tbl.pk \subseteq {col.name : col \in ToSet(tbl.columns)}
    BY PartsOfTable
  <2> HIDE DEF Renamed, cs
  <2>2. QED BY <1>5, <2>1
<1>8. IsTable(new)
  <2> HIDE DEF pk, xs, cs
  <2>1. QED BY <1>1, <1>4, <1>6, <1>7, TableFromParts
<1>9. new.columns = cs
  BY <1>1
<1>10. \A col \in ToSet(cs) : col \in ToSet(tbl.columns) \/ col.name = f.column
  BY <1>4 DEF ColumnSQL
<1>11. \A col \in ToSet(tbl.columns) :
         IF col.name = o.column THEN ColumnSQL(f, col.data) \in ToSet(cs) ELSE col \in ToSet(cs)
  BY <1>4
<1> HIDE DEF cs
<1>12. QED BY <1>8, <1>9, <1>10, <1>11

\* The statements on the key and the indexes leave the columns as they are.
LEMMA OtherAlterations ==
  ASSUME NEW tbl, IsTable(tbl), NEW c \in Change,
         c.op \in {"modifyPrimaryKey", "dropIndex", "createIndex"},
         NEW new \in AlterTable(tbl, c)
  PROVE  IsTable(new) /\ new.columns = tbl.columns
<1> DEFINE ns == {col.name : col \in ToSet(tbl.columns)}
           Parts(pk, xs) == [columns |-> tbl.columns, pk |-> pk, indexes |-> xs]
<1>1. /\ tbl = Parts(tbl.pk, tbl.indexes)
      /\ tbl.columns \in Seq(Column) /\ ColumnNames(tbl) = ns
      /\ tbl.pk \subseteq ns
      /\ \A x \in tbl.indexes : x \in Index /\ ToSet(x.columns) \subseteq ns
  BY PartsOfTable
<1>2. ASSUME NEW pk, NEW xs, pk \subseteq ns, new = Parts(pk, xs),
             \A x \in xs : x \in Index /\ ToSet(x.columns) \subseteq ns
      PROVE  IsTable(new) /\ new.columns = tbl.columns
  BY <1>1, <1>2, TableFromParts
<1>3. CASE c.op = "modifyPrimaryKey"
  <2>1. new = [tbl EXCEPT !.pk = c.newPk] /\ c.newPk \subseteq ns
    BY <1>1, <1>3 DEF AlterTable, ModifyPrimaryKeySQL, OnlyIf
  <2>2. new = Parts(c.newPk, tbl.indexes)
    BY <1>1, <2>1
  <2>3. QED BY <1>1, <1>2, <2>1, <2>2
<1>4. CASE c.op = "dropIndex"
  <2> DEFINE xs == {x \in tbl.indexes : x.name # c.index.name}
  <2>1. new = [tbl EXCEPT !.pk = {}] \/ new = [tbl EXCEPT !.indexes = xs]
    BY <1>4 DEF AlterTable, DropIndexSQL, OnlyIf
  <2>2. new = Parts({}, tbl.indexes) \/ new = Parts(tbl.pk, xs)
    BY <1>1, <2>1
  <2>3. {} \subseteq ns /\ xs \subseteq tbl.indexes
    OBVIOUS
  <2> HIDE DEF xs, ns, Parts
  <2>4. QED BY <1>1, <1>2, <2>2, <2>3
<1>5. CASE c.op = "createIndex"
  <2> DEFINE xs == tbl.indexes \union {c.index}
  <2>1. c.index \in Index
    BY <1>5 DEF Change
  <2>2. new = [tbl EXCEPT !.indexes = xs] /\ ToSet(c.index.columns) \subseteq ns
    BY <1>1, <1>5 DEF AlterTable, CreateIndexSQL, OnlyIf
  <2>3. new = Parts(tbl.pk, xs)
    BY <1>1, <2>2
  <2>4. \A x \in xs : x \in Index /\ ToSet(x.columns) \subseteq ns
    BY <1>1, <2>1, <2>2
  <2> HIDE DEF xs, ns, Parts
  <2>5. QED BY <1>1, <1>2, <2>3, <2>4
<1>6. QED BY <1>3, <1>4, <1>5

\* A statement on one table leaves it well formed.
LEMMA AlterationWellFormed ==
  ASSUME NEW t, NEW tbl, IsTable(tbl), WellFormed(t, tbl), NEW c \in Change,
         c.op \notin {"createTable", "dropTable"},
         c.op = "createIndex" => c.index.table = t,
         NEW new \in AlterTable(tbl, c)
  PROVE  WellFormed(t, new)
<1> DEFINE same == [y \in tbl.indexes |-> y]
<1>1. /\ tbl = [columns |-> tbl.columns, pk |-> tbl.pk, indexes |-> tbl.indexes]
      /\ tbl.columns \in Seq(Column) /\ \A x \in tbl.indexes : x \in Index
      /\ \A m, n \in DOMAIN tbl.columns : tbl.columns[m].name = tbl.columns[n].name => m = n
      /\ DistinctColumns(tbl)
  BY PartsOfTable, DistinctIs DEF WellFormed
<1>2. ASSUME new.columns = tbl.columns, new.indexes \subseteq tbl.indexes PROVE WellFormed(t, new)
  <2>1. DistinctColumns(new)
    BY <1>1, <1>2 DEF DistinctColumns
  <2>2. QED BY <1>2, <2>1 DEF WellFormed
<1>3. CASE c.op = "addColumn"
  <2> DEFINE col == ColumnSQL(c.new, NewColumn)
  <2>1. new = [tbl EXCEPT !.columns = Append(@, col)] /\ c.new.column \notin ColumnNames(tbl)
    BY <1>3 DEF AlterTable, AddColumnSQL, OnlyIf
  <2>2. col \in Column /\ col.name = c.new.column
    BY <1>3 DEF Change, ColumnSQL, Column, Field
  <2>3. new.columns = Append(tbl.columns, col) /\ new.indexes = tbl.indexes
    <3> HIDE DEF col
    <3>1. QED BY <1>1, <2>1
  <2> HIDE DEF col
  <2>4. DistinctColumns(new)
    BY <1>1, <2>1, <2>2, <2>3, DistinctAppend
  <2>5. QED BY <2>3, <2>4 DEF WellFormed
<1>4. CASE c.op = "dropColumn"
  <2> DEFINE gone == c.old.column
             h    == [y \in tbl.indexes |-> [y EXCEPT !.columns = Without(@, gone)]]
  <2>1. /\ new.columns = WithoutColumn(tbl.columns, gone)
        /\ new.indexes = {x \in {[y EXCEPT !.columns = Without(@, gone)] : y \in tbl.indexes} :
                            x.columns # <<>>}
    BY <1>4 DEF AlterTable, DropColumnSQL, OnlyIf
  <2>2. DistinctColumns(new)
    BY <1>1, <2>1, DistinctWithout
  <2>3. \A y \in tbl.indexes : h[y].table = y.table /\ h[y].name = y.name
    BY <1>1 DEF Index
  <2>4. \A x \in new.indexes : x.columns # <<>> /\ \E y \in tbl.indexes : x = h[y]
    BY <2>1
  <2> HIDE DEF h, gone
  <2>5. QED BY <2>2, <2>3, <2>4, WellFormedIndexes
<1>5. CASE c.op = "modifyColumn"
  <2> DEFINE from == c.old.column
             to   == c.new.column
             Renamed(k) == IF k = from THEN to ELSE k
             h    == [y \in tbl.indexes |-> [y EXCEPT !.columns = [n \in DOMAIN @ |-> Renamed(@[n])]]]
             cs   == [n \in DOMAIN tbl.columns |->
                        IF tbl.columns[n].name = from
                          THEN ColumnSQL(c.new, tbl.columns[n].data) ELSE tbl.columns[n]]
  <2>1. /\ new.columns = cs
        /\ new.indexes = {[y EXCEPT !.columns = [n \in DOMAIN @ |-> Renamed(@[n])]] : y \in tbl.indexes}
        /\ to \notin ColumnNames(tbl) \ {from}
    BY <1>5 DEF AlterTable, ModifyColumnSQL, OnlyIf
  <2>2. \A n \in DOMAIN tbl.columns :
          cs[n] \in Column /\ cs[n].name = Renamed(tbl.columns[n].name)
    <3>1. c.new \in Field
      BY <1>5 DEF Change
    <3>2. \A n \in DOMAIN tbl.columns : tbl.columns[n] \in Column
      BY <1>1, Elements
    <3>3. QED BY <3>1, <3>2 DEF Column, ColumnSQL, Field
  <2>3. new.columns \in Seq(Column) /\ DOMAIN new.columns = DOMAIN tbl.columns
    <3>1. DOMAIN tbl.columns = 1..Len(tbl.columns) /\ Len(tbl.columns) \in Nat
      BY <1>1, Elements
    <3>2. cs \in [1..Len(tbl.columns) -> Column]
      BY <2>2, <3>1
    <3> HIDE DEF cs
    <3>3. QED BY <2>1, <3>1, <3>2, SeqDef
  <2>4. \A m, n \in DOMAIN tbl.columns : new.columns[m].name = new.columns[n].name
            => tbl.columns[m].name = tbl.columns[n].name
    <3>1. \A n \in DOMAIN tbl.columns : tbl.columns[n].name \in ColumnNames(tbl)
      BY DEF ColumnNames
    <3> HIDE DEF cs
    <3>2. QED BY <2>1, <2>2, <3>1
  <2>5. DistinctColumns(new)
    BY <1>1, <2>3, <2>4, DistinctRenamed
  <2>6. \A y \in tbl.indexes : h[y].table = y.table /\ h[y].name = y.name
    BY <1>1 DEF Index
  <2>7. \A x \in new.indexes : \E y \in tbl.indexes : x = h[y]
    BY <2>1
  <2>8. \A y \in tbl.indexes : h[y].columns # <<>>
    <3> SUFFICES ASSUME NEW y \in tbl.indexes PROVE h[y].columns # <<>>
      OBVIOUS
    <3>1. y.columns \in Seq(Columns) /\ y.columns # <<>>
      BY <1>1 DEF Index, WellFormed
    <3>2. DOMAIN y.columns = 1..Len(y.columns) /\ Len(y.columns) > 0
      BY <3>1, Elements, EmptySeq
    <3>3. h[y].columns = [n \in DOMAIN y.columns |-> Renamed(y.columns[n])]
      BY <1>1 DEF Index
    <3>4. 1 \in DOMAIN h[y].columns
      BY <3>2, <3>3
    <3> HIDE DEF h
    <3>5. QED BY <3>4
  <2> HIDE DEF h, cs
  <2>9. QED BY <2>5, <2>6, <2>7, <2>8, WellFormedIndexes
<1>6. CASE c.op \in {"modifyPrimaryKey", "dropIndex"}
  <2>1. new.columns = tbl.columns
    BY <1>6, OtherAlterations
  <2>2. \/ new = [tbl EXCEPT !.pk = c.newPk] \/ new = [tbl EXCEPT !.pk = {}]
        \/ new = [tbl EXCEPT !.indexes = {x \in @ : x.name # c.index.name}]
    BY <1>6 DEF AlterTable, ModifyPrimaryKeySQL, DropIndexSQL, OnlyIf
  <2>3. new.indexes \subseteq tbl.indexes
    BY <1>1, <2>2
  <2>4. QED BY <1>2, <2>1, <2>3
<1>7. CASE c.op = "createIndex"
  <2>1. /\ new = [tbl EXCEPT !.indexes = @ \union {c.index}]
        /\ c.index.name \notin IndexNamesOf(tbl) \union {PrimaryName}
        /\ c.index.columns # <<>>
    BY <1>7 DEF AlterTable, CreateIndexSQL, OnlyIf
  <2>2. new.columns = tbl.columns /\ new.indexes = tbl.indexes \union {c.index}
    BY <1>1, <2>1
  <2>3. DistinctColumns(new)
    BY <1>1, <2>2 DEF DistinctColumns
  <2>4. \A x \in tbl.indexes : x.name # c.index.name
    BY <2>1 DEF IndexNamesOf
  <2>5. c.index.table = t
    BY <1>7
  <2>6. QED BY <2>1, <2>2, <2>3, <2>4, <2>5 DEF WellFormed
<1>8. QED BY <1>3, <1>4, <1>5, <1>6, <1>7 DEF Change

\* The table CREATE makes is well formed when its fields have columns of their own.
LEMMA CreatedWellFormed ==
  ASSUME NEW t, NEW c, ~Repeated(c.fields)
  PROVE  WellFormed(t, CreateTableSQL(c))
<1> DEFINE tbl == CreateTableSQL(c)
<1>1. /\ tbl.columns = [n \in DOMAIN c.fields |-> ColumnSQL(c.fields[n], NewColumn)]
      /\ tbl.indexes = {}
  BY DEF CreateTableSQL
<1>2. [n \in DOMAIN tbl.columns |-> tbl.columns[n].name] = [n \in DOMAIN c.fields |-> c.fields[n].column]
  BY <1>1 DEF ColumnSQL
<1> HIDE DEF tbl
<1>3. DistinctColumns(tbl)
  BY <1>2 DEF DistinctColumns, Repeated
<1>4. WellFormed(t, tbl)
  BY <1>1, <1>3 DEF WellFormed
<1>5. QED BY <1>4 DEF tbl

\* CREATE makes the declared table, without data.
LEMMA CreateTableDoes ==
  ASSUME NEW t \in Tables, NEW fields \in Seq(Field)
  PROVE  LET tbl == CreateTableSQL(CreateTable(t, fields))
         IN  IsTable(tbl) /\ ColumnNames(tbl) = ColumnsOf(fields)
<1> DEFINE tbl == CreateTableSQL(CreateTable(t, fields))
           cs  == [n \in DOMAIN fields |-> ColumnSQL(fields[n], NewColumn)]
<1>1. tbl = [columns |-> cs, pk |-> PkColumns(fields), indexes |-> {}]
  BY DEF CreateTableSQL, CreateTable
<1>2. /\ DOMAIN fields = 1..Len(fields) /\ Len(fields) \in Nat
      /\ \A n \in DOMAIN fields : fields[n] \in Field
      /\ PkColumns(fields) \subseteq ColumnsOf(fields)
  BY FieldsOf DEF PkColumns, KeyFields, ColumnsOf
<1>3. cs \in Seq(Column)
  <2>1. \A f \in Field : ColumnSQL(f, NewColumn) \in Column
    BY DEF ColumnSQL, Column, Field
  <2>2. cs \in [1..Len(fields) -> Column]
    BY <1>2, <2>1
  <2>3. QED BY <1>2, <2>2, SeqDef
<1>4. {col.name : col \in ToSet(cs)} = ColumnsOf(fields)
  <2>1. ToSet(cs) = {ColumnSQL(fields[n], NewColumn) : n \in DOMAIN fields}
    BY DEF ToSet
  <2>2. \A n \in DOMAIN fields : ColumnSQL(fields[n], NewColumn).name = fields[n].column
    BY DEF ColumnSQL
  <2> HIDE DEF cs
  <2>3. QED BY <2>1, <2>2 DEF ColumnsOf
<1> HIDE DEF cs
<1>5. IsTable(tbl)
  BY <1>1, <1>2, <1>3, <1>4, TableFromParts
<1>6. ColumnNames(tbl) = {col.name : col \in ToSet(cs)}
  BY <1>1, <1>3, NamesOfColumns
<1>7. QED BY <1>4, <1>5, <1>6

\* What a statement is to the database: a table more, a table less, or a table altered.
LEMMA ResultCases ==
  ASSUME NEW d, IsDatabase(d), NEW c \in Change, NEW new \in Result(d, c)
  PROVE  \/ /\ c.op = "createTable" /\ c.table \notin DOMAIN d
            /\ new = WithTable(d, c.table, CreateTableSQL(c))
         \/ /\ c.op = "dropTable"
            /\ new = [t \in DOMAIN d \ {c.table} |-> d[t]]
         \/ /\ c.op \notin {"createTable", "dropTable"} /\ c.table \in DOMAIN d
            /\ \E tbl \in AlterTable(d[c.table], c) : new = WithTable(d, c.table, tbl)
<1>1. CASE c.op = "createTable"
  BY <1>1 DEF Result, OnlyIf
<1>2. CASE c.op # "createTable" /\ c.table \notin DOMAIN d
  BY <1>2 DEF Result
<1>3. CASE c.op = "dropTable" /\ c.table \in DOMAIN d
  <2>1. new = Restrict(d, DOMAIN d \ {c.table})
    BY <1>3 DEF Result
  <2>2. QED BY <1>3, <2>1 DEF Restrict
<1>4. CASE c.op \notin {"createTable", "dropTable"} /\ c.table \in DOMAIN d
  <2>1. new \in {[d EXCEPT ![c.table] = tbl] : tbl \in AlterTable(d[c.table], c)}
    BY <1>4 DEF Result
  <2>2. PICK tbl \in AlterTable(d[c.table], c) : new = [d EXCEPT ![c.table] = tbl]
    BY <2>1
  <2>3. new = WithTable(d, c.table, tbl)
    BY <1>4, <2>2 DEF WithTable, IsDatabase
  <2>4. QED BY <1>4, <2>3
<1>5. QED BY <1>1, <1>2, <1>3, <1>4

\* Every table of a database is well formed.
AllWellFormed(d) == \A t \in DOMAIN d : WellFormed(t, d[t])

\* A statement leaves the tables well formed.
LEMMA StatementWellFormed ==
  ASSUME NEW d, IsDatabase(d), AllWellFormed(d), NEW c \in Change,
         c.op = "createIndex" => c.index.table = c.table, NEW new \in Result(d, c)
  PROVE  AllWellFormed(new)
<1>1. CASE c.op = "createTable"
  <2>1. new = WithTable(d, c.table, CreateTableSQL(c)) /\ ~Repeated(c.fields)
    BY <1>1 DEF Result, OnlyIf
  <2>2. WellFormed(c.table, CreateTableSQL(c))
    BY <2>1, CreatedWellFormed
  <2>3. QED BY <2>1, <2>2 DEF AllWellFormed, WithTable
<1>2. CASE c.op = "dropTable"
  <2>1. new = [t \in DOMAIN d \ {c.table} |-> d[t]]
    BY <1>2, ResultCases
  <2>2. QED BY <2>1 DEF AllWellFormed
<1>3. CASE c.op \notin {"createTable", "dropTable"}
  <2>1. c.table \in DOMAIN d /\ \E tbl \in AlterTable(d[c.table], c) : new = WithTable(d, c.table, tbl)
    BY <1>3, ResultCases, ZenonT(40)
  <2>2. PICK tbl \in AlterTable(d[c.table], c) : new = WithTable(d, c.table, tbl)
    BY <2>1
  <2>3. IsTable(d[c.table]) /\ WellFormed(c.table, d[c.table])
    BY <2>1 DEF AllWellFormed, IsDatabase
  <2>4. WellFormed(c.table, tbl)
    BY <1>3, <2>2, <2>3, AlterationWellFormed
  <2>5. QED BY <2>2, <2>4 DEF AllWellFormed, WithTable
<1>4. QED BY <1>1, <1>2, <1>3

-----------------------------------------------------------------------------
(* What a run reads and plans.                                             *)

IsIndexMap(m) == DOMAIN m \subseteq Tables \X Columns /\ m \in [DOMAIN m -> Row]

\* The answers of getIndexMap.
LEMMA IndexMapType ==
  ASSUME NEW d, IsDatabase(d), NEW m \in IndexMaps(d)
  PROVE  IsIndexMap(m)
<1> DEFINE keys == {k \in (DOMAIN d) \X Columns : IndexRows(d[k[1]], k[2]) # {}}
           rows == UNION {IndexRows(d[k[1]], k[2]) : k \in keys}
<1>1. m \in [keys -> rows]
  BY DEF IndexMaps
<1>2. keys \subseteq Tables \X Columns
  BY DEF IsDatabase
<1>3. ASSUME NEW t \in DOMAIN d, NEW c PROVE IndexRows(d[t], c) \subseteq Row
  <2>1. d[t].indexes \subseteq Index
    BY DEF IsDatabase, TableState
  <2>2. \A x \in d[t].indexes : [name |-> x.name, unique |-> x.unique] \in Row
    BY <2>1 DEF Index, Row
  <2>3. [name |-> PrimaryName, unique |-> TRUE] \in Row
    BY IndexNameAssumption DEF Row
  <2>4. QED BY <2>2, <2>3 DEF IndexRows
<1>4. rows \subseteq Row
  BY <1>3
<1>5. QED BY <1>1, <1>2, <1>4 DEF IsIndexMap

\* The tables a run reads are a reading of the known columns.
LEMMA ReadTablesReading ==
  ASSUME NEW d, IsDatabase(d), NEW m, IsIndexMap(m), NEW file, NEW was, Known(d, file, was)
  PROVE  Reading(ReadTables(d, m), file, was)
<1> DEFINE tables == ReadTables(d, m)
<1>1. ASSUME NEW t \in DOMAIN d, NEW n \in DOMAIN d[t].columns
      PROVE  LET f == tables[t][n]
                 k == d[t].columns[n].name
             IN  /\ f \in Field /\ f.table = t /\ f.name = Camel[k] /\ f.column = Snake[Camel[k]]
                 /\ k \in ColumnNames(d[t])
  <2> DEFINE col  == d[t].columns[n]
             key  == <<t, col.name>>
             row  == IF key \in DOMAIN m THEN {m[key]} ELSE {}
             isPk == col.name \in d[t].pk /\ \E r \in row : r.name = PrimaryName
  <2>1. t \in Tables /\ d[t].columns \in Seq(Column)
    BY DEF IsDatabase, TableState
  <2>2. col \in Column
    BY <2>1, Elements
  <2>3. row \in SUBSET Row /\ IsFiniteSet(row)
    <3>1. CASE key \in DOMAIN m
      <4>1. m[key] \in Row /\ row = {m[key]}
        BY <3>1 DEF IsIndexMap
      <4> HIDE DEF key
      <4>2. QED BY <4>1, FS_Singleton
    <3>2. CASE key \notin DOMAIN m
      <4>1. row = {}
        BY <3>2
      <4>2. QED BY <4>1, FS_EmptySet
    <3>3. QED BY <3>1, <3>2
  <2>4. tables[t][n] = FieldOf(t, col, isPk, row)
    BY DEF ReadTables, ReadField
  <2>5. isPk \in BOOLEAN
    OBVIOUS
  <2>6. col.name \in ColumnNames(d[t])
    BY DEF ColumnNames
  <2> HIDE DEF isPk, row
  <2>7. QED BY <2>1, <2>2, <2>3, <2>4, <2>5, <2>6, FieldOfType
<1>2. ASSUME NEW t \in DOMAIN d
      PROVE  /\ t \in Tables /\ tables[t] \in Seq(Field)
             /\ DOMAIN tables[t] = DOMAIN d[t].columns
  <2>1. t \in Tables /\ d[t].columns \in Seq(Column)
    BY DEF IsDatabase, TableState
  <2>2. DOMAIN d[t].columns = 1..Len(d[t].columns) /\ Len(d[t].columns) \in Nat
    BY <2>1, Elements
  <2>3. tables[t] = [n \in DOMAIN d[t].columns |-> tables[t][n]]
    BY DEF ReadTables
  <2> HIDE DEF tables
  <2>4. tables[t] \in [1..Len(d[t].columns) -> Field]
    BY <1>1, <2>2, <2>3
  <2>5. QED BY <2>1, <2>2, <2>3, <2>4, SeqDef
<1>3. DOMAIN tables = DOMAIN d /\ tables = [t \in DOMAIN d |-> tables[t]]
  BY DEF ReadTables
<1> HIDE DEF tables
<1>4. IsSchema(tables)
  BY <1>1, <1>2, <1>3 DEF IsSchema
<1>5. ASSUME NEW t \in DOMAIN tables \intersect DOMAIN file \intersect DOMAIN was,
             NEW o \in ToSet(tables[t])
      PROVE  \E k \in ColumnNames(was[t]) \union ColumnsOf(file[t]) :
               o.name = Camel[k] /\ o.column = Snake[Camel[k]]
  <2>1. PICK n \in DOMAIN d[t].columns : o = tables[t][n]
    BY <1>2, <1>3 DEF ToSet
  <2>2. ColumnNames(d[t]) \subseteq ColumnNames(was[t]) \union ColumnsOf(file[t])
    BY <1>3 DEF Known
  <2>3. QED BY <1>1, <1>3, <2>1, <2>2
<1>6. QED BY <1>4, <1>5 DEF Reading, tables

-----------------------------------------------------------------------------
(* What a planned statement keeps.                                         *)

\* The data of column c is under c or under the column of field f.
Holds(tbl, c, f) ==
  \E col \in ToSet(tbl.columns) : col.name \in {c, f.column} /\ col.data = c

\* DeclaredDataKept and OtherTablesUntouched, of any tables.
DataKept(d, file, was) ==
  \A t \in DOMAIN was \intersect DOMAIN file :
    ~Crossed(file[t]) /\ ~Respelled(was[t], file[t]) =>
      \A c \in ColumnNames(was[t]), n \in DOMAIN file[t] :
        file[t][n].column = c \/ file[t][n].name = Camel[c] =>
          t \in DOMAIN d /\ Holds(d[t], c, file[t][n])

Untouched(d, file, was) ==
  DOMAIN file # {} => \A t \in DOMAIN was \ DOMAIN file : t \in DOMAIN d /\ d[t] = was[t]

\* A statement that alters a table, planned from a reading of the tables.
LEMMA AlterationKeeps ==
  ASSUME NEW was, IsDatabase(was), NEW file, IsSource(file),
         NEW tables, Reading(tables, file, was), NEW c \in Plans(file, tables, TRUE),
         c.op \notin {"createTable", "dropTable"},
         NEW tbl, IsTable(tbl), NEW new \in AlterTable(tbl, c)
  PROVE  /\ c.table \in DOMAIN file
         /\ IsTable(new)
         /\ ColumnNames(new) \subseteq ColumnNames(tbl) \union ColumnsOf(file[c.table])
         /\ c.table \in DOMAIN was /\ ~Crossed(file[c.table])
              /\ ~Respelled(was[c.table], file[c.table]) =>
                \A k \in ColumnNames(was[c.table]), n \in DOMAIN file[c.table] :
                  LET f == file[c.table][n]
                  IN  (f.column = k \/ f.name = Camel[k]) /\ Holds(tbl, k, f) => Holds(new, k, f)
<1> DEFINE t == c.table
           Declares(k, n) == file[t][n].column = k \/ file[t][n].name = Camel[k]
<1>1. c \in Change /\ IsPlanned(c, file, tables, TRUE)
  BY DEF Plans
<1>2. IsSchema(file) /\ IsSchema(tables)
  BY DEF IsSource, Reading
<1>3. ASSUME IsTable(new) PROVE ColumnNames(new) = {col.name : col \in ToSet(new.columns)}
  BY <1>3, PartsOfTable
<1>4. ColumnNames(tbl) = {col.name : col \in ToSet(tbl.columns)}
  BY PartsOfTable
<1>5. CASE c.op \in {"modifyPrimaryKey", "dropIndex", "createIndex"}
  <2>1. t \in DOMAIN file
    BY <1>1, <1>5 DEF IsPlanned, CreateTable, AddColumn, DropColumn, ModifyColumn
  <2>2. IsTable(new) /\ new.columns = tbl.columns
    BY <1>1, <1>5, OtherAlterations
  <2>3. QED BY <2>1, <2>2 DEF ColumnNames, Holds
<1>6. CASE \E u \in DOMAIN file : \E f \in ToSet(file[u]) : c = AddColumn(f)
  <2>1. PICK u \in DOMAIN file : \E f \in ToSet(file[u]) : c = AddColumn(f)
    BY <1>6
  <2>2. PICK f \in ToSet(file[u]) : c = AddColumn(f)
    BY <2>1
  <2>3. f \in Field /\ f.table = u
    BY <1>2, SchemaFields
  <2>4. c.op = "addColumn" /\ t = u
    BY <2>2, <2>3 DEF AddColumn
  <2>5. new \in AddColumnSQL(tbl, AddColumn(f))
    BY <2>2, <2>4 DEF AlterTable
  <2>6. IsTable(new) /\ ToSet(new.columns) = ToSet(tbl.columns) \union {ColumnSQL(f, NewColumn)}
    BY <2>3, <2>5, AddColumnDoes
  <2>7. f.column \in ColumnsOf(file[t])
    BY <2>4 DEF ToSet, ColumnsOf
  <2>8. ColumnNames(new) \subseteq ColumnNames(tbl) \union ColumnsOf(file[t])
    BY <1>3, <1>4, <2>6, <2>7 DEF ColumnSQL
  <2>9. QED BY <2>4, <2>6, <2>8 DEF Holds
<1>7. CASE \E u \in DOMAIN file \intersect DOMAIN tables :
             \E o \in ToSet(tables[u]) : c = DropColumn(o) /\ IsDropped(file[u], o)
  <2>1. PICK u \in DOMAIN file \intersect DOMAIN tables :
               \E o \in ToSet(tables[u]) : c = DropColumn(o) /\ IsDropped(file[u], o)
    BY <1>7
  <2>2. PICK o \in ToSet(tables[u]) : c = DropColumn(o) /\ IsDropped(file[u], o)
    BY <2>1
  <2>3. o \in Field /\ o.table = u
    BY <1>2, SchemaFields
  <2>4. c.op = "dropColumn" /\ t = u
    BY <2>2, <2>3 DEF DropColumn
  <2>5. new \in DropColumnSQL(tbl, DropColumn(o))
    BY <2>2, <2>4 DEF AlterTable
  <2>6. IsTable(new) /\ ToSet(new.columns) = {col \in ToSet(tbl.columns) : col.name # o.column}
    BY <2>3, <2>5, DropColumnDoes
  <2>7. ColumnNames(new) \subseteq ColumnNames(tbl)
    BY <1>3, <1>4, <2>6
  <2>8. ASSUME t \in DOMAIN was, ~Respelled(was[t], file[t]),
               NEW k \in ColumnNames(was[t]), NEW n \in DOMAIN file[t], Declares(k, n),
               Holds(tbl, k, file[t][n])
        PROVE  Holds(new, k, file[t][n])
    <3>1. o.column \notin {k, file[t][n].column}
      BY <1>2, <2>2, <2>4, <2>8, DropSpares
    <3>2. QED BY <2>6, <2>8, <3>1 DEF Holds
  <2>9. QED BY <2>4, <2>6, <2>7, <2>8
<1>8. CASE \E u \in DOMAIN file \intersect DOMAIN tables :
             \E o \in ToSet(tables[u]), f \in ToSet(file[u]) :
               c = ModifyColumn(o, f) /\ OldField(tables[u], f) = {o}
  <2>1. PICK u \in DOMAIN file \intersect DOMAIN tables :
               \E o \in ToSet(tables[u]), f \in ToSet(file[u]) :
                 c = ModifyColumn(o, f) /\ OldField(tables[u], f) = {o}
    BY <1>8
  <2>2. PICK o \in ToSet(tables[u]), g \in ToSet(file[u]) :
               c = ModifyColumn(o, g) /\ OldField(tables[u], g) = {o}
    BY <2>1
  <2>3. o \in Field /\ g \in Field /\ g.table = u
    BY <1>2, SchemaFields
  <2>4. c.op = "modifyColumn" /\ t = u
    BY <2>2, <2>3 DEF ModifyColumn
  <2>5. new \in ModifyColumnSQL(tbl, ModifyColumn(o, g))
    BY <2>2, <2>4 DEF AlterTable
  <2>6. /\ IsTable(new)
        /\ \A col \in ToSet(tbl.columns) :
             IF col.name = o.column THEN ColumnSQL(g, col.data) \in ToSet(new.columns)
             ELSE col \in ToSet(new.columns)
        /\ \A col \in ToSet(new.columns) : col \in ToSet(tbl.columns) \/ col.name = g.column
    BY <2>3, <2>5, ModifyColumnDoes
  <2>7. g.column \in ColumnsOf(file[t])
    BY <2>4 DEF ToSet, ColumnsOf
  <2>8. ColumnNames(new) \subseteq ColumnNames(tbl) \union ColumnsOf(file[t])
    BY <1>3, <1>4, <2>6, <2>7
  <2>9. ASSUME t \in DOMAIN was, ~Crossed(file[t]), ~Respelled(was[t], file[t]),
               NEW k \in ColumnNames(was[t]), NEW n \in DOMAIN file[t], Declares(k, n),
               Holds(tbl, k, file[t][n])
        PROVE  Holds(new, k, file[t][n])
    <3>1. PICK col \in ToSet(tbl.columns) : col.name \in {k, file[t][n].column} /\ col.data = k
      BY <2>9 DEF Holds
    <3>2. CASE col.name = o.column
      <4>1. ColumnNames(was[t]) \subseteq Columns
        BY <2>9, NamesOfColumns DEF IsDatabase, TableState
      <4>2. g.column \in {k, file[t][n].column}
        BY <2>2, <2>4, <2>9, <3>1, <3>2, <4>1, ModifyKeeps
      <4>3. ColumnSQL(g, k) \in ToSet(new.columns)
        BY <2>6, <3>1, <3>2
      <4>4. QED BY <4>2, <4>3 DEF Holds, ColumnSQL
    <3>3. CASE col.name # o.column
      BY <2>6, <3>1, <3>3 DEF Holds
    <3>4. QED BY <3>2, <3>3
  <2>10. QED BY <2>4, <2>6, <2>8, <2>9
<1>9. QED
  BY <1>1, <1>5, <1>6, <1>7, <1>8 DEF IsPlanned, CreateTable

\* A planned statement keeps the tables well formed, their columns known, the data of the
\* declared columns, and the tables that are not declared.
LEMMA StatementKeeps ==
  ASSUME NEW d, IsDatabase(d), NEW was, IsDatabase(was), NEW file, IsSource(file),
         NEW tables, Reading(tables, file, was), NEW c \in Plans(file, tables, TRUE),
         NEW new \in Result(d, c)
  PROVE  /\ IsDatabase(new)
         /\ Known(d, file, was) => Known(new, file, was)
         /\ DataKept(d, file, was) => DataKept(new, file, was)
         /\ Untouched(d, file, was) => Untouched(new, file, was)
<1>1. c \in Change /\ IsPlanned(c, file, tables, TRUE)
  BY DEF Plans
<1>2. /\ DOMAIN d \subseteq Tables
      /\ d \in [DOMAIN d -> TableState]
      /\ \A t \in DOMAIN d : IsTable(d[t]) /\ d[t] \in TableState
  BY DEF IsDatabase
<1>3. CASE c.op = "createTable"
  <2>1. c.table \notin DOMAIN d /\ new = WithTable(d, c.table, CreateTableSQL(c))
    BY <1>1, <1>3, ResultCases
  <2>2. PICK t \in DOMAIN file : c = CreateTable(t, file[t])
    BY <1>1, <1>3 DEF IsPlanned, AddColumn, DropColumn, ModifyColumn
  <2>3. c.table = t
    BY <2>2 DEF CreateTable
  <2>4. t \in Tables /\ file[t] \in Seq(Field)
    BY SchemaFields DEF IsSource
  <2>5. IsTable(CreateTableSQL(c)) /\ ColumnNames(CreateTableSQL(c)) = ColumnsOf(file[t])
    BY <2>2, <2>4, CreateTableDoes
  <2>6. /\ DOMAIN new = DOMAIN d \union {t} /\ new = [u \in DOMAIN new |-> new[u]]
        /\ new[t] = CreateTableSQL(c)
        /\ \A u \in DOMAIN d : u # t /\ new[u] = d[u]
    BY <2>1, <2>3 DEF WithTable
  <2>7. IsDatabase(new)
    <3>1. \A u \in DOMAIN new : IsTable(new[u])
      BY <1>2, <2>5, <2>6
    <3>2. \A u \in DOMAIN new : new[u] \in TableState
      BY <3>1 DEF IsTable
    <3>3. QED BY <1>2, <2>4, <2>6, <3>1, <3>2 DEF IsDatabase
  <2>8. Known(d, file, was) => Known(new, file, was)
    BY <2>5, <2>6 DEF Known
  <2>9. DataKept(d, file, was) => DataKept(new, file, was)
    BY <2>6 DEF DataKept
  <2>10. Untouched(d, file, was) => Untouched(new, file, was)
    BY <2>6 DEF Untouched
  <2>11. QED BY <2>7, <2>8, <2>9, <2>10
<1>4. CASE c.op = "dropTable"
  <2>1. new = [t \in DOMAIN d \ {c.table} |-> d[t]]
    BY <1>1, <1>4, ResultCases
  <2>2. DOMAIN file = {}
    BY <1>1, <1>4 DEF IsPlanned, CreateTable, AddColumn, DropColumn, ModifyColumn
  <2>3. IsDatabase(new)
    BY <1>2, <2>1 DEF IsDatabase
  <2>4. QED BY <2>2, <2>3 DEF Known, DataKept, Untouched
<1>5. CASE c.op \notin {"createTable", "dropTable"}
  <2>1. /\ c.table \in DOMAIN d
        /\ \E tbl \in AlterTable(d[c.table], c) : new = WithTable(d, c.table, tbl)
    BY <1>1, <1>5, ResultCases
  <2> DEFINE t == c.table
  <2>2. PICK tbl \in AlterTable(d[t], c) : new = WithTable(d, t, tbl)
    BY <2>1
  <2>3. IsTable(d[t])
    BY <1>2, <2>1
  <2>4. /\ t \in DOMAIN file
        /\ IsTable(tbl)
        /\ ColumnNames(tbl) \subseteq ColumnNames(d[t]) \union ColumnsOf(file[t])
        /\ t \in DOMAIN was /\ ~Crossed(file[t]) /\ ~Respelled(was[t], file[t]) =>
               \A k \in ColumnNames(was[t]), n \in DOMAIN file[t] :
                 (file[t][n].column = k \/ file[t][n].name = Camel[k])
                   /\ Holds(d[t], k, file[t][n]) => Holds(tbl, k, file[t][n])
    BY <1>5, <2>3, AlterationKeeps
  <2>5. /\ DOMAIN new = DOMAIN d /\ new[t] = tbl
        /\ \A u \in DOMAIN d : u # t => new[u] = d[u]
        /\ new = [u \in DOMAIN d |-> new[u]]
    BY <1>2, <2>1, <2>2 DEF WithTable
  <2> HIDE DEF t
  <2>6. IsDatabase(new)
    <3>1. \A u \in DOMAIN new : IsTable(new[u])
      BY <1>2, <2>4, <2>5
    <3>2. \A u \in DOMAIN new : new[u] \in TableState
      BY <3>1 DEF IsTable
    <3>3. QED BY <1>2, <2>5, <3>1, <3>2 DEF IsDatabase
  <2>7. Known(d, file, was) => Known(new, file, was)
    BY <2>4, <2>5 DEF Known
  <2>8. DataKept(d, file, was) => DataKept(new, file, was)
    BY <2>4, <2>5 DEF DataKept
  <2>9. Untouched(d, file, was) => Untouched(new, file, was)
    BY <2>4, <2>5 DEF Untouched
  <2>10. QED BY <2>6, <2>7, <2>8, <2>9
<1>6. QED BY <1>3, <1>4, <1>5

-----------------------------------------------------------------------------
(* The database when a version of the source becomes the next.             *)

\* Where each column holds its own data, nothing is lost yet.
LEMMA NothingLostYet ==
  ASSUME NEW d, NEW file, IsDatabase(d),
         \A t \in DOMAIN d : \A col \in ToSet(d[t].columns) : col.data = col.name
  PROVE  Known(d, file, d) /\ DataKept(d, file, d) /\ Untouched(d, file, d)
<1>1. \A t \in DOMAIN d : ColumnNames(d[t]) = {col.name : col \in ToSet(d[t].columns)}
  BY NamesOfColumns DEF IsDatabase, TableState
<1>2. \A t \in DOMAIN d : \A c \in ColumnNames(d[t]) : \A f : Holds(d[t], c, f)
  BY <1>1 DEF Holds
<1>3. QED BY <1>2 DEF Known, DataKept, Untouched

-----------------------------------------------------------------------------
(* The inductive invariant.                                                *)

\* What a run has in hand: the index map it read, the version of the source it started
\* from, which is still the one on disk, and statements planned from a reading of tables
\* whose columns are known.
RunInv(p) ==
  /\ IsIndexMap(indexMap[p])
  /\ pc[p] = "idle" => plan[p] = <<>>
  /\ pc[p] # "idle" => source[p] = File
  /\ plan[p] # <<>> =>
       \E tables : Reading(tables, File, before) /\ plan[p] \in Seq(Plans(File, tables, TRUE))

\* DeclaredDataKept is not inductive without it: a statement keeps the data of the declared
\* columns because it was planned from columns that are known.
Inv ==
  /\ TypeOK
  /\ DOMAIN source = Procs /\ DOMAIN indexMap = Procs /\ DOMAIN plan = Procs
  /\ IsHistory(versions)
  /\ IsDatabase(before)
  /\ Known(db, File, before)
  /\ \A p \in Procs : RunInv(p)
  /\ DataKept(db, File, before)
  /\ Untouched(db, File, before)

LEMMA InitInv == Init => Inv
<1> SUFFICES ASSUME Init PROVE Inv
  OBVIOUS
<1>1. PICK h \in Histories : db = [t \in DOMAIN h[1] |-> Built(t, h[1][t])] /\ versions = Tail(h)
  BY DEF Init
<1>2. IsHistory(h) /\ IsHistory(versions) /\ IsSource(h[1])
  BY <1>1, HistoriesAssumption, HistoryTail
<1>3. /\ IsDatabase(db) /\ \A t \in DOMAIN db : WellFormed(t, db[t])
      /\ \A t \in DOMAIN db : \A col \in ToSet(db[t].columns) : col.data = col.name
  BY <1>1, <1>2, BuiltDatabase, HistoriesAssumption DEF Holdable
<1>4. Known(db, File, before) /\ DataKept(db, File, before) /\ Untouched(db, File, before)
  BY <1>3, NothingLostYet DEF Init
<1>5. IsSchema(None) /\ IsIndexMap(None)
  BY DEF None, IsSchema, IsIndexMap
<1>6. TypeOK
  BY <1>3, <1>5, MaxFaultsAssumption, EmptySeq DEF TypeOK, Init
<1>7. \A p \in Procs : RunInv(p)
  BY <1>5 DEF RunInv, Init
<1>8. QED BY <1>2, <1>3, <1>4, <1>6, <1>7 DEF Inv, Init

\* One statement of a run, executed.
LEMMA ExecutedInv ==
  ASSUME Inv, NEW p \in Procs, plan[p] # <<>>, NEW new \in Result(db, Head(plan[p]))
  PROVE  /\ IsDatabase(new) /\ AllWellFormed(new) /\ Known(new, File, before)
         /\ DataKept(new, File, before) /\ Untouched(new, File, before)
<1>1. PICK tables : Reading(tables, File, before) /\ plan[p] \in Seq(Plans(File, tables, TRUE))
  BY DEF Inv, RunInv
<1>2. Head(plan[p]) \in Plans(File, tables, TRUE)
  BY <1>1, HeadAndTail
<1>3. IsSource(File)
  BY HistoryTail DEF Inv, File
<1>4. AllWellFormed(new)
  <2>1. Head(plan[p]) \in Change /\ IsPlanned(Head(plan[p]), File, tables, TRUE)
    BY <1>2 DEF Plans
  <2>2. Head(plan[p]).op = "createIndex" => Head(plan[p]).index.table = Head(plan[p]).table
    <3>1. \A c : IsPlanned(c, File, tables, TRUE) /\ c.op = "createIndex" => c.index.table = c.table
      BY DEF IsPlanned, CreateTable, AddColumn, DropColumn, ModifyColumn
    <3>2. QED BY <2>1, <3>1
  <2>3. QED BY <2>1, <2>2, StatementWellFormed DEF Inv, TypeOK, AllWellFormed
<1>5. QED BY <1>1, <1>2, <1>3, <1>4, StatementKeeps DEF Inv, TypeOK

PcOK == pc \in [Procs -> {"idle", "getIndexMap", "columnSchema", "begin", "exec",
                         "rollback", "ok", "failed", "dry"}]

\* What a run has in hand, by type.
RunTypes(p) == IsSchema(source[p]) /\ plan[p] \in Seq(Change)

\* The parts of the invariant that are about the tables.
TablesInv ==
  /\ IsDatabase(db) /\ AllWellFormed(db)
  /\ Known(db, File, before) /\ DataKept(db, File, before) /\ Untouched(db, File, before)

\* A step of a run that leaves the source as it is: the tables and that run are what there
\* is to look at.
LEMMA RunStep ==
  ASSUME Inv, NEW p \in Procs, UNCHANGED <<versions, before>>, TablesInv',
         NEW step, PcOK', pc' = [pc EXCEPT ![p] = step], faults' \in 0..MaxFaults,
         \A q \in Procs \ {p} :
           source'[q] = source[q] /\ indexMap'[q] = indexMap[q] /\ plan'[q] = plan[q],
         DOMAIN source' = Procs, DOMAIN indexMap' = Procs, DOMAIN plan' = Procs,
         RunInv(p)', RunTypes(p)'
  PROVE  Inv'
<1>1. File' = File
  BY DEF File
<1>2. ASSUME NEW q \in Procs PROVE RunInv(q)' /\ RunTypes(q)'
  <2>1. CASE q = p
    BY <2>1
  <2>2. CASE q # p
    <3>1. pc'[q] = pc[q] /\ source'[q] = source[q] /\ indexMap'[q] = indexMap[q]
          /\ plan'[q] = plan[q]
      BY <2>2 DEF Inv, TypeOK
    <3>2. RunInv(q) /\ RunTypes(q)
      BY DEF Inv, TypeOK, RunTypes
    <3>3. QED BY <1>1, <3>1, <3>2 DEF RunInv, RunTypes
  <2>3. QED BY <2>1, <2>2
<1>3. TypeOK'
  BY <1>2 DEF TypeOK, PcOK, RunTypes, TablesInv, AllWellFormed
<1>4. IsHistory(versions') /\ IsDatabase(before')
  BY DEF Inv
<1>5. QED BY <1>2, <1>3, <1>4 DEF Inv, TablesInv

\* A step that only moves a run on.
LEMMA GotoStep ==
  ASSUME Inv, NEW p \in Procs, pc[p] # "idle",
         NEW step \in {"begin", "dry", "exec", "rollback", "ok", "failed"}, Goto(p, step),
         faults' \in 0..MaxFaults, UNCHANGED <<db, versions, before, source, indexMap, plan>>
  PROVE  Inv'
<1>1. PcOK' /\ pc' = [pc EXCEPT ![p] = step] /\ pc'[p] = step
  BY DEF Inv, TypeOK, PcOK, Goto
<1>2. RunInv(p) /\ RunTypes(p) /\ TablesInv
  BY DEF Inv, TypeOK, RunTypes, TablesInv, AllWellFormed
<1>3. RunInv(p)' /\ RunTypes(p)' /\ TablesInv'
  BY <1>1, <1>2 DEF RunInv, RunTypes, TablesInv, File
<1>4. QED BY <1>1, <1>3, RunStep DEF Inv

\* A step between the edits that fails, or does not, adds at most one to the failures.
LEMMA FaultType == ASSUME Inv, Fault PROVE faults' \in 0..MaxFaults
BY MaxFaultsAssumption DEF Inv, TypeOK, Fault

LEMMA EditInv == ASSUME Inv, Edit PROVE Inv'
<1>1. /\ db' = Marked(db) /\ before' = Marked(db) /\ versions' = Tail(versions)
      /\ Len(versions) > 1
      /\ UNCHANGED <<faults, pc, source, indexMap, plan>>
  BY DEF Edit
<1>2. TablesInv' /\ IsDatabase(before') /\ IsHistory(versions')
  <2>1. IsDatabase(db) /\ \A t \in DOMAIN db : WellFormed(t, db[t])
    BY DEF Inv, TypeOK
  <2>2. /\ IsDatabase(db') /\ AllWellFormed(db')
        /\ \A t \in DOMAIN db' : \A col \in ToSet(db'[t].columns) : col.data = col.name
    BY <1>1, <2>1, MarkedType, MarkedWellFormed DEF AllWellFormed
  <2>3. Known(db', File', db') /\ DataKept(db', File', db') /\ Untouched(db', File', db')
    BY <2>2, NothingLostYet
  <2>4. QED BY <1>1, <2>2, <2>3, HistoryTail DEF TablesInv, Inv
<1>3. ASSUME NEW p \in Procs PROVE RunInv(p)' /\ RunTypes(p)'
  <2>1. pc[p] = "idle" /\ RunInv(p) /\ RunTypes(p)
    BY DEF Edit, Inv, TypeOK, RunTypes
  <2>2. QED BY <1>1, <2>1 DEF RunInv, RunTypes
<1>4. TypeOK'
  BY <1>1, <1>2, <1>3 DEF Inv, TypeOK, RunTypes, TablesInv, AllWellFormed
<1>5. QED BY <1>1, <1>2, <1>3, <1>4 DEF Inv, TablesInv

LEMMA StartInv == ASSUME Inv, NEW p \in Procs, Start(p) PROVE Inv'
<1>1. PcOK' /\ pc' = [pc EXCEPT ![p] = "getIndexMap"] /\ pc'[p] = "getIndexMap"
  BY DEF Inv, TypeOK, PcOK, Start, Goto
<1>2. RunInv(p) /\ RunTypes(p) /\ TablesInv /\ plan[p] = <<>> /\ IsSchema(File)
  BY HistoryTail DEF Inv, TypeOK, RunTypes, TablesInv, AllWellFormed, RunInv, Start, File, IsSource
<1>3. source'[p] = File /\ UNCHANGED <<db, versions, before, faults, indexMap, plan>>
  BY DEF Start, Inv
<1>4. RunInv(p)' /\ RunTypes(p)' /\ TablesInv'
  BY <1>1, <1>2, <1>3 DEF RunInv, RunTypes, TablesInv, File
<1>5. faults' \in 0..MaxFaults
  BY <1>3 DEF Inv, TypeOK
<1>6. QED BY <1>1, <1>3, <1>4, <1>5, RunStep DEF Inv, Start

LEMMA GetIndexMapInv == ASSUME Inv, NEW p \in Procs, GetIndexMap(p) PROVE Inv'
<1>1. PcOK' /\ pc' = [pc EXCEPT ![p] = "columnSchema"] /\ pc'[p] = "columnSchema"
  BY DEF Inv, TypeOK, PcOK, GetIndexMap, Goto
<1>2. RunInv(p) /\ RunTypes(p) /\ TablesInv
  BY DEF Inv, TypeOK, RunTypes, TablesInv, AllWellFormed
<1>3. PICK m \in IndexMaps(db) : indexMap' = [indexMap EXCEPT ![p] = m]
  BY DEF GetIndexMap
<1>4. IsIndexMap(indexMap'[p])
  BY <1>2, <1>3, IndexMapType DEF TablesInv, Inv
<1>5. UNCHANGED <<db, versions, before, faults, source, plan>> /\ pc[p] = "getIndexMap"
  BY DEF GetIndexMap
<1>6. RunInv(p)' /\ RunTypes(p)' /\ TablesInv'
  BY <1>1, <1>2, <1>4, <1>5 DEF RunInv, RunTypes, TablesInv, File
<1>7. faults' \in 0..MaxFaults
  BY <1>5 DEF Inv, TypeOK
<1>8. QED BY <1>1, <1>3, <1>5, <1>6, <1>7, RunStep DEF Inv

\* The plan a run makes is planned from a reading of the tables of now.
LEMMA ColumnSchemaInv == ASSUME Inv, NEW p \in Procs, ColumnSchema(p) PROVE Inv'
<1> DEFINE tables == ReadTables(db, indexMap[p])
<1>1. PcOK' /\ pc' = [pc EXCEPT ![p] = "begin"] /\ pc'[p] = "begin"
  BY DEF Inv, TypeOK, PcOK, ColumnSchema, Goto
<1>2. RunInv(p) /\ RunTypes(p) /\ TablesInv
  BY DEF Inv, TypeOK, RunTypes, TablesInv, AllWellFormed
<1>3. UNCHANGED <<db, versions, before, faults, source, indexMap>> /\ source[p] = File
  BY <1>2 DEF ColumnSchema, RunInv
<1>4. PICK d \in Diff(File, tables, TRUE) : plan' = [plan EXCEPT ![p] = d]
  BY <1>3 DEF ColumnSchema
<1>5. Reading(tables, File, before)
  BY <1>2, ReadTablesReading DEF TablesInv, RunInv
<1>6. IsSchema(File)
  BY HistoryTail DEF Inv, File, IsSource
<1>7. d \in Seq(Plans(File, tables, TRUE))
  <2>1. IsSchema(tables)
    BY <1>5 DEF Reading
  <2> HIDE DEF tables
  <2>2. QED BY <1>4, <1>6, <2>1, DiffIsPlanned
<1> HIDE DEF tables
<1>8. d \in Seq(Change) /\ plan'[p] = d
  <2>1. Plans(File, tables, TRUE) \subseteq Change
    BY DEF Plans
  <2>2. QED BY <1>4, <1>7, <2>1, SeqMonotonic DEF Inv
<1>9. RunInv(p)' /\ RunTypes(p)' /\ TablesInv'
  BY <1>1, <1>2, <1>3, <1>5, <1>7, <1>8 DEF RunInv, RunTypes, TablesInv, File
<1>10. faults' \in 0..MaxFaults
  BY <1>3 DEF Inv, TypeOK
<1>11. QED BY <1>1, <1>3, <1>4, <1>9, <1>10, RunStep DEF Inv

LEMMA ExecInv == ASSUME Inv, NEW p \in Procs, Exec(p) PROVE Inv'
<1>1. /\ plan[p] # <<>> /\ db' \in Result(db, Head(plan[p])) /\ plan'[p] = Tail(plan[p])
      /\ plan' = [plan EXCEPT ![p] = Tail(@)]
      /\ UNCHANGED <<versions, before, faults, pc, source, indexMap>> /\ pc[p] = "exec"
  BY DEF Exec, Inv
<1>2. PcOK' /\ pc' = [pc EXCEPT ![p] = "exec"]
  BY <1>1 DEF Inv, TypeOK, PcOK
<1>3. TablesInv'
  BY <1>1, ExecutedInv DEF TablesInv, File
<1>4. RunInv(p) /\ RunTypes(p)
  BY DEF Inv, TypeOK, RunTypes
<1>5. PICK tables : Reading(tables, File, before) /\ plan[p] \in Seq(Plans(File, tables, TRUE))
  BY <1>1, <1>4 DEF RunInv
<1>6. Tail(plan[p]) \in Seq(Plans(File, tables, TRUE)) /\ Tail(plan[p]) \in Seq(Change)
  BY <1>1, <1>4, <1>5, HeadAndTail DEF RunTypes
<1>7. RunInv(p)' /\ RunTypes(p)'
  BY <1>1, <1>4, <1>5, <1>6 DEF RunInv, RunTypes, File
<1>8. faults' \in 0..MaxFaults
  BY <1>1 DEF Inv, TypeOK
<1>9. QED BY <1>1, <1>2, <1>3, <1>7, <1>8, RunStep DEF Inv

LEMMA ExecBrokenInv == ASSUME Inv, NEW p \in Procs, ExecBroken(p) PROVE Inv'
<1>1. /\ plan[p] # <<>> /\ db' \in Result(db, Head(plan[p])) \union {db}
      /\ UNCHANGED <<versions, before, source, indexMap, plan>> /\ pc[p] = "exec"
      /\ faults' \in 0..MaxFaults
  BY FaultType DEF ExecBroken
<1>2. PcOK' /\ pc' = [pc EXCEPT ![p] = "rollback"] /\ pc'[p] = "rollback"
  BY DEF Inv, TypeOK, PcOK, ExecBroken, Goto
<1>3. TablesInv'
  <2>1. CASE db' = db
    BY <1>1, <2>1 DEF TablesInv, AllWellFormed, Inv, TypeOK, File
  <2>2. CASE db' \in Result(db, Head(plan[p]))
    BY <1>1, <2>2, ExecutedInv DEF TablesInv, File
  <2>3. QED BY <1>1, <2>1, <2>2
<1>4. RunInv(p) /\ RunTypes(p)
  BY DEF Inv, TypeOK, RunTypes
<1>5. RunInv(p)' /\ RunTypes(p)'
  BY <1>1, <1>2, <1>4 DEF RunInv, RunTypes, File
<1>6. QED BY <1>1, <1>2, <1>3, <1>5, RunStep DEF Inv

LEMMA ExitInv == ASSUME Inv, NEW p \in Procs, Exit(p) PROVE Inv'
<1>1. /\ source'[p] = None /\ indexMap'[p] = None /\ plan'[p] = <<>>
      /\ UNCHANGED <<db, versions, before, faults>>
  BY DEF Exit, Inv
<1>2. PcOK' /\ pc' = [pc EXCEPT ![p] = "idle"] /\ pc'[p] = "idle"
  BY DEF Inv, TypeOK, PcOK, Exit, Goto
<1>3. TablesInv'
  BY <1>1 DEF TablesInv, AllWellFormed, Inv, TypeOK, File
<1>4. IsSchema(None) /\ IsIndexMap(None)
  BY DEF None, IsSchema, IsIndexMap
<1>5. RunInv(p)' /\ RunTypes(p)'
  BY <1>1, <1>2, <1>4, EmptySeq DEF RunInv, RunTypes
<1>6. faults' \in 0..MaxFaults
  BY <1>1 DEF Inv, TypeOK
<1>7. QED BY <1>1, <1>2, <1>3, <1>5, <1>6, RunStep DEF Inv, Exit

LEMMA NextInv == ASSUME Inv, [Next]_vars PROVE Inv'
<1>1. CASE UNCHANGED vars
  BY <1>1 DEF Inv, TypeOK, RunInv, File, vars
<1>2. CASE Edit
  BY <1>2, EditInv
<1>3. ASSUME NEW p \in Procs, Run(p) \/ DryRun(p) \/ Fails(p) \/ ExecBroken(p) \/ Crash(p)
      PROVE  Inv'
  <2>1. faults \in 0..MaxFaults
    BY DEF Inv, TypeOK
  <2>2. CASE Start(p)
    BY <2>2, StartInv
  <2>3. CASE GetIndexMap(p)
    BY <2>3, GetIndexMapInv
  <2>4. CASE ColumnSchema(p)
    BY <2>4, ColumnSchemaInv
  <2>5. CASE Begin(p)
    BY <2>1, <2>5, GotoStep DEF Begin
  <2>6. CASE Exec(p)
    BY <2>6, ExecInv
  <2>7. CASE ExecRejected(p)
    BY <2>1, <2>7, GotoStep DEF ExecRejected
  <2>8. CASE Rollback(p)
    BY <2>1, <2>8, GotoStep DEF Rollback
  <2>9. CASE Commit(p)
    BY <2>1, <2>9, GotoStep DEF Commit
  <2>10. CASE Exit(p)
    BY <2>10, ExitInv
  <2>11. CASE DryRun(p)
    BY <2>1, <2>11, GotoStep DEF DryRun
  <2>12. CASE Fails(p)
    BY <2>12, FaultType, GotoStep DEF Fails
  <2>13. CASE ExecBroken(p)
    BY <2>13, ExecBrokenInv
  <2>14. CASE Crash(p)
    BY <2>14, FaultType, GotoStep DEF Crash
  <2>15. QED
    BY <1>3, <2>2, <2>3, <2>4, <2>5, <2>6, <2>7, <2>8, <2>9, <2>10, <2>11, <2>12, <2>13, <2>14
       DEF Run
<1>4. QED BY <1>1, <1>2, <1>3 DEF Next

\* The invariant holds in every state of every behaviour.
LEMMA Invariant == Spec => []Inv
<1>1. Init => Inv
  BY InitInv
<1>2. Inv /\ [Next]_vars => Inv'
  BY NextInv
<1>3. QED BY <1>1, <1>2, PTL DEF Spec

-----------------------------------------------------------------------------
(* The theorems.                                                           *)

\* The key and the indexes of a table are on columns it has, and every plan is a list of
\* changes, at every point of every run.
THEOREM TypeCorrect == Spec => []TypeOK
<1>1. Inv => TypeOK
  BY DEF Inv
<1>2. QED BY <1>1, Invariant, PTL

\* Whatever runs overlap, are refused, break off or are killed half way and started again:
\* a column that the source still declares, under its name or under the Go name it is read
\* with, keeps its data.
THEOREM DeclaredDataIsKept == Spec => []DeclaredDataKept
<1>1. Inv => DeclaredDataKept
  BY DEF Inv, DataKept, Holds, DeclaredDataKept
<1>2. QED BY <1>1, Invariant, PTL

\* A table the source does not declare is not touched as long as it declares one.
THEOREM OtherTablesAreUntouched == Spec => []OtherTablesUntouched
<1>1. Inv => OtherTablesUntouched
  BY DEF Inv, Untouched, OtherTablesUntouched
<1>2. QED BY <1>1, Invariant, PTL

-----------------------------------------------------------------------------
(* What a run reads when one run is at work.                               *)

\* A column is read with the row of the one index it is part of.
LEMMA ColumnRead ==
  ASSUME NEW d, IsDatabase(d), AllWellFormed(d), NEW m \in IndexMaps(d), NEW t \in DOMAIN d,
         ~Shared(d[t]), ~ReadAsDefault(t, d[t]),
         NEW col \in ToSet(d[t].columns), Snake[Camel[col.name]] = col.name
  PROVE  ReadAs(t, d[t], col, ReadField(t, d[t], col, m))
<1> DEFINE tbl  == d[t]
           key  == <<t, col.name>>
           rows == IndexRows(tbl, col.name)
           row  == IF key \in DOMAIN m THEN {m[key]} ELSE {}
           isPk == col.name \in tbl.pk /\ \E r \in row : r.name = PrimaryName
           keys == {k \in (DOMAIN d) \X Columns : IndexRows(d[k[1]], k[2]) # {}}
<1>1. /\ t \in Tables /\ IsTable(tbl) /\ WellFormed(t, tbl)
      /\ col.name \in ColumnNames(tbl) /\ col.name \in Columns
  <2>1. t \in Tables /\ IsTable(tbl) /\ WellFormed(t, tbl)
    BY DEF IsDatabase, AllWellFormed
  <2>2. ColumnNames(tbl) = {a.name : a \in ToSet(tbl.columns)} /\ ColumnNames(tbl) \subseteq Columns
    BY <2>1, PartsOfTable, NamesOfColumns
  <2> HIDE DEF tbl
  <2>3. QED BY <2>1, <2>2 DEF tbl
<1>2. Small(rows)
  BY <1>1, FewRows
<1>3. DOMAIN m = keys /\ \A k \in keys : m[k] \in IndexRows(d[k[1]], k[2])
  BY DEF IndexMaps
<1>4. key \in keys <=> rows # {}
  BY <1>1
<1>5. key \in keys => m[key] \in rows
  <2>1. key[1] = t /\ key[2] = col.name
    OBVIOUS
  <2> HIDE DEF keys, key
  <2>2. key \in keys => m[key] \in IndexRows(d[key[1]], key[2])
    BY <1>3
  <2>3. QED BY <2>1, <2>2
<1> HIDE DEF keys, key
<1>6. row = rows
  <2>1. CASE rows = {}
    BY <1>3, <1>4, <2>1
  <2>2. CASE \E a : rows = {a}
    <3>1. PICK a : rows = {a}
      BY <2>2
    <3>2. key \in DOMAIN m /\ m[key] = a
      BY <1>3, <1>4, <1>5, <3>1
    <3>3. QED BY <3>1, <3>2
  <2>3. QED BY <1>2, <2>1, <2>2 DEF Small
<1>7. isPk \in BOOLEAN /\ (isPk <=> \E r \in rows : r.name = PrimaryName)
  <2>1. ASSUME NEW r \in rows, r.name = PrimaryName PROVE col.name \in tbl.pk
    <3>1. \/ \E x \in tbl.indexes :
               col.name \in ToSet(x.columns) /\ r = [name |-> x.name, unique |-> x.unique]
          \/ col.name \in tbl.pk /\ r = [name |-> PrimaryName, unique |-> TRUE]
      BY <2>1, RowsOfColumn
    <3>2. \A x \in tbl.indexes : x.name # PrimaryName
      BY <1>1 DEF WellFormed
    <3>3. QED BY <2>1, <3>1, <3>2
  <2>2. QED BY <1>6, <2>1
<1>8. ReadField(t, tbl, col, m) = FieldOf(t, col, isPk, rows)
  <2>1. ReadField(t, tbl, col, m) = FieldOf(t, col, isPk, row)
    BY DEF ReadField, key
  <2>2. QED BY <1>6, <2>1
<1> HIDE DEF isPk, row
<1>9. ReadAs(t, tbl, col, FieldOf(t, col, isPk, rows))
  BY <1>1, <1>7, FieldIsReadAs
<1>10. QED BY <1>8, <1>9

\* A table is read as it is.
LEMMA TableRead ==
  ASSUME NEW d, IsDatabase(d), AllWellFormed(d), NEW m \in IndexMaps(d), NEW t \in DOMAIN d,
         ~Shared(d[t]), ~ReadAsDefault(t, d[t]),
         \A c \in ColumnNames(d[t]) : Snake[Camel[c]] = c,
         ReadTables(d, m)[t] \in Seq(Field)
  PROVE  IsReading(t, d[t], ReadTables(d, m)[t])
<1> DEFINE cs  == d[t].columns
           old == ReadTables(d, m)[t]
<1>1. DOMAIN old = DOMAIN cs /\ \A n \in DOMAIN cs : old[n] = ReadField(t, d[t], cs[n], m)
  BY DEF ReadTables
<1>2. \A col \in ToSet(cs) : ReadAs(t, d[t], col, ReadField(t, d[t], col, m))
  <2>1. ColumnNames(d[t]) = {a.name : a \in ToSet(cs)}
    BY PartsOfTable DEF IsDatabase
  <2>2. QED BY <2>1, ColumnRead
<1>3. \A n \in DOMAIN cs : cs[n] \in ToSet(cs) /\ old[n] \in ToSet(old)
  BY <1>1 DEF ToSet
<1>4. \A o \in ToSet(old) : \E n \in DOMAIN cs : o = old[n]
  BY <1>1 DEF ToSet
<1>5. \A col \in ToSet(cs) : \E n \in DOMAIN cs : col = cs[n]
  BY DEF ToSet
<1> HIDE DEF old
<1>6. \A o \in ToSet(old) : \E col \in ToSet(cs) : ReadAs(t, d[t], col, o)
  BY <1>1, <1>2, <1>3, <1>4
<1>7. \A col \in ToSet(cs) : \E o \in ToSet(old) : ReadAs(t, d[t], col, o)
  BY <1>1, <1>2, <1>3, <1>5
<1>8. QED BY <1>6, <1>7 DEF IsReading, old

\* Outside the limits, what Diff is given is as DiffPlans asks for.
LEMMA ReadOutside ==
  ASSUME NEW d, IsDatabase(d), AllWellFormed(d), NEW m \in IndexMaps(d), IsSchema(ReadTables(d, m)),
         NEW s, IsSchema(s), ~Limited(d, s)
  PROVE  DiffOutside(d, ReadTables(d, m), s)
<1> DEFINE tables == ReadTables(d, m)
<1>1. DOMAIN tables = DOMAIN d
  BY DEF ReadTables
<1>2. ASSUME NEW t \in DOMAIN s \intersect DOMAIN d
      PROVE  TableOutside(t, d[t], tables[t], s[t])
  <2>1. t \in Tables /\ s[t] \in Seq(Field) /\ IsTable(d[t]) /\ WellFormed(t, d[t])
    BY DEF IsSchema, IsDatabase, AllWellFormed
  <2>2. /\ ~Ambiguous(t, s[t]) /\ ~ReadAsDefault(t, d[t]) /\ ~Alias(d[t], s[t])
        /\ ~Respelled(d[t], s[t]) /\ ~Reshaped(t, d[t], s[t]) /\ ~Shared(d[t])
    BY DEF Limited
  <2>3. \A c \in ColumnNames(d[t]) : Snake[Camel[c]] = c
    BY <2>2 DEF Respelled
  <2>4. tables[t] \in Seq(Field)
    BY <1>1 DEF IsSchema
  <2>5. IsReading(t, d[t], tables[t])
    BY <2>2, <2>3, <2>4, TableRead
  <2>6. QED BY <2>1, <2>2, <2>5 DEF TableOutside
<1>3. ~Leaked(d, s) /\ \A t \in DOMAIN s : ~Ambiguous(t, s[t])
  BY DEF Limited
<1>4. QED BY <1>1, <1>2, <1>3 DEF DiffOutside

-----------------------------------------------------------------------------
(* What the statements still to be executed are for.                       *)

\* A change drops or modifies column k; a change makes the column of field f.
Touched(k, E) == \E c \in E : c.op \in {"dropColumn", "modifyColumn"} /\ c.old.column = k
Comes(f, E) == \E c \in E : c.op \in {"addColumn", "modifyColumn"} /\ c.new = f

\* A table is what its fields declare, but for what changes E of it do: every column is a
\* declared one or is dropped or modified, and so on for the fields, the key, the indexes.
ColumnsAwait(tbl, fields, E) ==
  /\ \A col \in ToSet(tbl.columns) : IsDeclaredColumn(col, fields) \/ Touched(col.name, E)
  /\ \A f \in ToSet(fields) : HasField(tbl, f) \/ Comes(f, E)
KeyAwaits(tbl, fields, E) ==
  tbl.pk = PkColumns(fields) \/ \E c \in E : c.op = "modifyPrimaryKey"
IndexesAwait(t, tbl, fields, E) ==
  IndexesServed(tbl.indexes, Declared(t, fields), ColumnsOf(fields),
                DroppedNames(E, t), CreatedIndexes(E, t))

\* No column of an index is still to be renamed: the index would follow it.
RenamesSpare(tbl, E) ==
  \A c \in E : c.op = "modifyColumn" /\ c.old.column # c.new.column =>
    \A x \in tbl.indexes : c.old.column \notin ToSet(x.columns)

Awaits(t, tbl, fields, E) ==
  /\ ColumnsAwait(tbl, fields, E) /\ KeyAwaits(tbl, fields, E)
  /\ IndexesAwait(t, tbl, fields, E) /\ RenamesSpare(tbl, E)

\* A change that brings a table closer to its fields.
ServesTable(c, t, fields) ==
  \/ c.op = "addColumn" /\ c.new \in ToSet(fields)
  \/ c.op = "dropColumn" /\ c.old.column \notin ColumnsOf(fields)
  \/ /\ c.op = "modifyColumn" /\ c.new \in ToSet(fields)
     /\ c.old.column = c.new.column \/ c.old.column \notin ColumnsOf(fields)
  \/ c.op = "modifyPrimaryKey" /\ c.newPk = PkColumns(fields)
  \/ c.op = "dropIndex" /\ c.index.name # PrimaryName
  \/ c.op = "createIndex" /\ c.index \in Declared(t, fields)

\* A statement on the columns or the key leaves the planned changes of the indexes.
LEMMA OtherIndexes ==
  ASSUME NEW E, NEW F, NEW c, Done(E, c, F), NEW t, c.op \notin {"dropIndex", "createIndex"}
  PROVE  DroppedNames(F, t) = DroppedNames(E, t) /\ CreatedIndexes(F, t) = CreatedIndexes(E, t)
<1>1. {e \in F : e.op = "dropIndex" /\ e.table = t} = {e \in E : e.op = "dropIndex" /\ e.table = t}
  BY DEF Done
<1>2. {e \in F : e.op = "createIndex" /\ e.table = t} = {e \in E : e.op = "createIndex" /\ e.table = t}
  BY DEF Done
<1>3. QED BY <1>1, <1>2 DEF DroppedNames, CreatedIndexes

\* What is shown of each statement.
Step(t, tbl, fields, c, E, F, new) ==
  /\ t \in Tables /\ IsTable(tbl) /\ WellFormed(t, tbl) /\ fields \in Seq(Field) /\ ~Repeated(fields)
  /\ c \in Change /\ c.table = t /\ ServesTable(c, t, fields) /\ Done(E, c, F)
  /\ \A e \in F : e.op = "modifyColumn" => ServesTable(e, t, fields)
  /\ Awaits(t, tbl, fields, E)
  /\ new \in AlterTable(tbl, c)

\* ADD makes the column of a field.
LEMMA AddServes ==
  ASSUME NEW t, NEW tbl, NEW fields, NEW c, NEW E, NEW F, NEW new,
         Step(t, tbl, fields, c, E, F, new), c.op = "addColumn"
  PROVE  Awaits(t, new, fields, F)
<1> DEFINE col == ColumnSQL(c.new, NewColumn)
<1>1. c.new \in ToSet(fields) /\ c.new \in Field /\ IsTable(tbl)
  BY DEF Step, ServesTable, Change
<1>2. /\ new = [tbl EXCEPT !.columns = Append(@, col)]
  BY DEF Step, AlterTable, AddColumnSQL, OnlyIf
<1>3. col.name = c.new.column /\ col.def = c.new.def /\ col \in Column
  BY <1>1 DEF ColumnSQL, Column, Field
<1> HIDE DEF col
<1>4. /\ tbl = [columns |-> tbl.columns, pk |-> tbl.pk, indexes |-> tbl.indexes]
      /\ tbl.columns \in Seq(Column)
  BY <1>1, PartsOfTable
<1>5. /\ ToSet(new.columns) = ToSet(tbl.columns) \union {col}
      /\ new.pk = tbl.pk /\ new.indexes = tbl.indexes
  BY <1>2, <1>3, <1>4, AppendElements
<1>6. Done(E, c, F) /\ Awaits(t, tbl, fields, E)
  BY DEF Step
<1>7. ColumnsAwait(new, fields, F)
  <2>1. ASSUME NEW a \in ToSet(new.columns) PROVE IsDeclaredColumn(a, fields) \/ Touched(a.name, F)
    <3>1. CASE a = col
      BY <1>1, <1>3, <3>1 DEF IsDeclaredColumn, IsField
    <3>2. CASE a \in ToSet(tbl.columns)
      <4>1. IsDeclaredColumn(a, fields) \/ Touched(a.name, E)
        BY <1>6, <3>2 DEF Awaits, ColumnsAwait
      <4>2. Touched(a.name, E) => Touched(a.name, F)
        BY <1>6 DEF Done, Touched
      <4>3. QED BY <4>1, <4>2
    <3>3. QED BY <1>5, <3>1, <3>2
  <2>2. ASSUME NEW f \in ToSet(fields) PROVE HasField(new, f) \/ Comes(f, F)
    <3>1. HasField(tbl, f) \/ Comes(f, E)
      BY <1>6 DEF Awaits, ColumnsAwait
    <3>2. HasField(tbl, f) => HasField(new, f)
      BY <1>5 DEF HasField
    <3>3. CASE f = c.new
      BY <1>3, <1>5, <3>3 DEF HasField, IsField
    <3>4. f # c.new /\ Comes(f, E) => Comes(f, F)
      BY <1>6 DEF Done, Comes
    <3>5. QED BY <3>1, <3>2, <3>3, <3>4
  <2>3. QED BY <2>1, <2>2 DEF ColumnsAwait
<1>8. KeyAwaits(new, fields, F)
  BY <1>5, <1>6 DEF Awaits, KeyAwaits, Done
<1>9. IndexesAwait(t, new, fields, F)
  BY <1>5, <1>6, OtherIndexes DEF Awaits, IndexesAwait
<1>10. RenamesSpare(new, F)
  BY <1>5, <1>6 DEF Awaits, RenamesSpare, Done
<1>11. QED BY <1>7, <1>8, <1>9, <1>10 DEF Awaits

\* DROP takes a column that is not declared.
LEMMA DropServes ==
  ASSUME NEW t, NEW tbl, NEW fields, NEW c, NEW E, NEW F, NEW new,
         Step(t, tbl, fields, c, E, F, new), c.op = "dropColumn"
  PROVE  Awaits(t, new, fields, F)
<1> DEFINE gone == c.old.column
           kept == ColumnsOf(fields)
           left == LeftBy(gone, tbl.indexes)
<1>1. gone \notin kept /\ IsTable(tbl) /\ fields \in Seq(Field) /\ t \in Tables
  BY DEF Step, ServesTable
<1>2. new = [columns |-> WithoutColumn(tbl.columns, gone), pk |-> tbl.pk \ {gone}, indexes |-> left]
  BY DEF Step, AlterTable, DropColumnSQL, OnlyIf, LeftBy
<1>3. tbl.columns \in Seq(Column) /\ \A x \in tbl.indexes : x \in Index
  BY <1>1, PartsOfTable
<1>4. ToSet(new.columns) = {col \in ToSet(tbl.columns) : col.name # gone}
  BY <1>2, <1>3, WithoutColumnElements
<1>5. new.pk = tbl.pk \ {gone} /\ new.indexes = left
  BY <1>2
<1>6. Done(E, c, F) /\ Awaits(t, tbl, fields, E)
  BY DEF Step
<1> HIDE DEF left
<1>7. ColumnsAwait(new, fields, F)
  <2>1. ASSUME NEW a \in ToSet(new.columns) PROVE IsDeclaredColumn(a, fields) \/ Touched(a.name, F)
    <3>1. IsDeclaredColumn(a, fields) \/ Touched(a.name, E)
      BY <1>4, <1>6 DEF Awaits, ColumnsAwait
    <3>2. a.name # gone
      BY <1>4
    <3>3. Touched(a.name, E) => Touched(a.name, F)
      BY <1>6, <3>2 DEF Done, Touched
    <3>4. QED BY <3>1, <3>3
  <2>2. ASSUME NEW f \in ToSet(fields) PROVE HasField(new, f) \/ Comes(f, F)
    <3>1. HasField(tbl, f) \/ Comes(f, E)
      BY <1>6 DEF Awaits, ColumnsAwait
    <3>2. f.column # gone
      BY <1>1 DEF ToSet, ColumnsOf
    <3>3. HasField(tbl, f) => HasField(new, f)
      BY <1>4, <3>2 DEF HasField, IsField
    <3>4. Comes(f, E) => Comes(f, F)
      BY <1>6 DEF Done, Comes
    <3>5. QED BY <3>1, <3>3, <3>4
  <2>3. QED BY <2>1, <2>2 DEF ColumnsAwait
<1>8. KeyAwaits(new, fields, F)
  <2>1. PkColumns(fields) \subseteq kept
    BY DEF PkColumns, KeyFields, ColumnsOf
  <2>2. QED BY <1>1, <1>5, <1>6, <2>1 DEF Awaits, KeyAwaits, Done
<1>9. IndexesAwait(t, new, fields, F)
  <2> DEFINE ys == Declared(t, fields)
             drops == DroppedNames(E, t)
             creates == CreatedIndexes(E, t)
  <2>1. IndexesServed(tbl.indexes, ys, kept, drops, creates)
    BY <1>6 DEF Awaits, IndexesAwait
  <2>2. \A y \in ys : y.columns # <<>>
    BY <1>1, DeclaredIndexes DEF IsDeclared
  <2>3. DroppedNames(F, t) = drops /\ CreatedIndexes(F, t) = creates
    BY <1>6, OtherIndexes
  <2> HIDE DEF ys, drops, creates, kept, gone
  <2>4. IndexesServed(left, ys, kept, drops, creates)
    BY <1>1, <1>3, <2>1, <2>2, ServedShrink DEF left
  <2>5. QED BY <1>5, <2>3, <2>4 DEF IndexesAwait, ys, kept
<1>10. RenamesSpare(new, F)
  <2>1. ASSUME NEW x \in new.indexes
        PROVE  \E y \in tbl.indexes : ToSet(x.columns) \subseteq ToSet(y.columns)
    <3>1. PICK y \in tbl.indexes : x = [y EXCEPT !.columns = Without(@, gone)]
      BY <1>5 DEF left, LeftBy
    <3>2. y \in Index /\ y.columns \in Seq(Columns)
      BY <1>3 DEF Index
    <3>3. x.columns = Without(y.columns, gone)
      BY <3>1, <3>2 DEF Index
    <3> HIDE DEF gone
    <3>4. QED BY <3>2, <3>3, WithoutElements
  <2>2. QED BY <1>6, <2>1 DEF Awaits, RenamesSpare, Done
<1>11. QED BY <1>7, <1>8, <1>9, <1>10 DEF Awaits

\* CHANGE makes the column of a field of another, which has its name or is not declared.
LEMMA ModifyServes ==
  ASSUME NEW t, NEW tbl, NEW fields, NEW c, NEW E, NEW F, NEW new,
         Step(t, tbl, fields, c, E, F, new), c.op = "modifyColumn"
  PROVE  Awaits(t, new, fields, F)
<1> DEFINE from == c.old.column
           to   == c.new.column
           Renamed(k) == IF k = from THEN to ELSE k
           Changed(col) == IF col.name = from THEN ColumnSQL(c.new, col.data) ELSE col
           pk == {Renamed(k) : k \in tbl.pk}
           xs == {[x EXCEPT !.columns = [n \in DOMAIN @ |-> Renamed(@[n])]] : x \in tbl.indexes}
<1>1. /\ c.new \in ToSet(fields) /\ (from = to \/ from \notin ColumnsOf(fields))
      /\ IsTable(tbl) /\ fields \in Seq(Field) /\ ~Repeated(fields)
  BY DEF Step, ServesTable
<1>2. /\ new = [columns |-> [n \in DOMAIN tbl.columns |-> Changed(tbl.columns[n])],
                pk |-> pk, indexes |-> xs]
      /\ from \in ColumnNames(tbl)
  BY DEF Step, AlterTable, ModifyColumnSQL, OnlyIf
<1>3. Done(E, c, F) /\ Awaits(t, tbl, fields, E)
  BY DEF Step
<1>4. ToSet(new.columns) = {Changed(col) : col \in ToSet(tbl.columns)}
  BY <1>2 DEF ToSet
<1>5. \A col : /\ col.name = from => IsField(Changed(col), c.new)
               /\ col.name # from => Changed(col) = col
  BY DEF IsField, ColumnSQL
<1>6. from \in ColumnsOf(fields) => \A f \in ToSet(fields) : f.column = from => f = c.new
  <2>1. \A m, n \in DOMAIN fields : fields[m].column = fields[n].column => m = n
    <3> DEFINE names == [n \in DOMAIN fields |-> fields[n].column]
    <3>1. \A m, n \in DOMAIN names : names[m] = names[n] => m = n
      BY <1>1 DEF Repeated, IsInjective
    <3>2. QED BY <3>1
  <2>2. QED BY <1>1, <2>1 DEF ToSet
<1>7. \A x \in tbl.indexes : [x EXCEPT !.columns = [n \in DOMAIN @ |-> Renamed(@[n])]] = x
  <2> SUFFICES ASSUME NEW x \in tbl.indexes
               PROVE  [x EXCEPT !.columns = [n \in DOMAIN @ |-> Renamed(@[n])]] = x
    OBVIOUS
  <2>1. x \in Index /\ x.columns \in Seq(Columns)
    BY <1>1, PartsOfTable DEF Index
  <2>2. from = to \/ from \notin ToSet(x.columns)
    BY <1>1, <1>3 DEF Awaits, RenamesSpare, Done
  <2>3. \A n \in DOMAIN x.columns : Renamed(x.columns[n]) = x.columns[n]
    BY <2>2 DEF ToSet
  <2>4. [n \in DOMAIN x.columns |-> Renamed(x.columns[n])] = x.columns
    <3>1. x.columns = [n \in DOMAIN x.columns |-> x.columns[n]]
      BY <2>1, Elements
    <3> HIDE DEF Renamed
    <3>2. QED BY <2>3, <3>1
  <2> HIDE DEF Renamed
  <2>5. QED BY <2>1, <2>4 DEF Index
<1>8. new.indexes = tbl.indexes
  BY <1>2, <1>7, SMTT(30)
<1>9. tbl.pk = PkColumns(fields) => new.pk = tbl.pk
  <2>1. PkColumns(fields) \subseteq ColumnsOf(fields)
    BY DEF PkColumns, KeyFields, ColumnsOf
  <2>2. tbl.pk = PkColumns(fields) => \A k \in tbl.pk : Renamed(k) = k
    BY <1>1, <2>1
  <2> HIDE DEF Renamed
  <2>3. QED BY <1>2, <2>2
<1> HIDE DEF Changed, pk, xs, Renamed
<1>10. ColumnsAwait(new, fields, F)
  <2>1. ASSUME NEW a \in ToSet(new.columns) PROVE IsDeclaredColumn(a, fields) \/ Touched(a.name, F)
    <3>1. PICK col \in ToSet(tbl.columns) : a = Changed(col)
      BY <1>4
    <3>2. CASE col.name = from
      <4>1. IsField(a, c.new)
        BY <1>5, <3>1, <3>2
      <4>2. QED BY <1>1, <4>1 DEF IsDeclaredColumn
    <3>3. CASE col.name # from
      <4>1. a = col
        BY <1>5, <3>1, <3>3
      <4>2. IsDeclaredColumn(a, fields) \/ Touched(a.name, E)
        BY <1>3, <4>1 DEF Awaits, ColumnsAwait
      <4>3. Touched(a.name, E) => Touched(a.name, F)
        BY <1>3, <3>3, <4>1 DEF Done, Touched
      <4>4. QED BY <4>2, <4>3
    <3>4. QED BY <3>2, <3>3
  <2>2. HasField(new, c.new)
    <3>1. ColumnNames(tbl) = {col.name : col \in ToSet(tbl.columns)}
      BY <1>1, PartsOfTable, ZenonT(40)
    <3>2. \E col \in ToSet(tbl.columns) : col.name = from
      BY <1>2, <3>1
    <3>3. QED BY <1>4, <1>5, <3>2 DEF HasField
  <2>3. ASSUME NEW f \in ToSet(fields) PROVE HasField(new, f) \/ Comes(f, F)
    <3>1. CASE HasField(tbl, f)
      <4>1. PICK col \in ToSet(tbl.columns) : IsField(col, f)
        BY <3>1 DEF HasField
      <4>2. CASE col.name = from
        <5>1. f.column = from /\ from \in ColumnsOf(fields)
          BY <4>1, <4>2 DEF IsField, ToSet, ColumnsOf
        <5>2. QED BY <1>6, <2>2, <5>1
      <4>3. CASE col.name # from
        BY <1>4, <1>5, <4>1, <4>3 DEF HasField
      <4>4. QED BY <4>2, <4>3
    <3>2. CASE Comes(f, E)
      BY <1>3, <2>2, <3>2 DEF Done, Comes
    <3>3. QED BY <1>3, <3>1, <3>2 DEF Awaits, ColumnsAwait
  <2>4. QED BY <2>1, <2>3 DEF ColumnsAwait
<1>11. KeyAwaits(new, fields, F)
  BY <1>3, <1>9 DEF Awaits, KeyAwaits, Done
<1>12. IndexesAwait(t, new, fields, F)
  BY <1>3, <1>8, OtherIndexes DEF Awaits, IndexesAwait
<1>13. RenamesSpare(new, F)
  BY <1>3, <1>8 DEF Awaits, RenamesSpare, Done
<1>14. QED BY <1>10, <1>11, <1>12, <1>13 DEF Awaits

\* Columns that stay are still what they await, when a change of another kind is done.
LEMMA ColumnsStay ==
  ASSUME NEW tbl, NEW fields, NEW c, NEW E, NEW F, NEW new, ColumnsAwait(tbl, fields, E),
         Done(E, c, F), c.op \in {"modifyPrimaryKey", "dropIndex", "createIndex"},
         new.columns = tbl.columns
  PROVE  ColumnsAwait(new, fields, F)
<1>1. \A k : Touched(k, E) => Touched(k, F)
  BY DEF Done, Touched
<1>2. \A f : Comes(f, E) => Comes(f, F)
  BY DEF Done, Comes
<1>3. \A f : HasField(new, f) <=> HasField(tbl, f)
  BY DEF HasField
<1>4. QED BY <1>1, <1>2, <1>3 DEF ColumnsAwait

\* The key is made the declared one.
LEMMA KeyServes ==
  ASSUME NEW t, NEW tbl, NEW fields, NEW c, NEW E, NEW F, NEW new,
         Step(t, tbl, fields, c, E, F, new), c.op = "modifyPrimaryKey"
  PROVE  Awaits(t, new, fields, F)
<1>1. c.newPk = PkColumns(fields) /\ IsTable(tbl) /\ Done(E, c, F) /\ Awaits(t, tbl, fields, E)
  BY DEF Step, ServesTable
<1>2. new = [tbl EXCEPT !.pk = c.newPk]
  BY DEF Step, AlterTable, ModifyPrimaryKeySQL, OnlyIf
<1>3. new.columns = tbl.columns /\ new.indexes = tbl.indexes /\ new.pk = PkColumns(fields)
  BY <1>1, <1>2, PartsOfTable
<1>4. ColumnsAwait(new, fields, F)
  BY <1>1, <1>3, ColumnsStay DEF Awaits
<1>5. KeyAwaits(new, fields, F)
  BY <1>3 DEF KeyAwaits
<1>6. IndexesAwait(t, new, fields, F)
  BY <1>1, <1>3, OtherIndexes DEF Awaits, IndexesAwait
<1>7. RenamesSpare(new, F)
  BY <1>1, <1>3 DEF Awaits, RenamesSpare, Done
<1>8. QED BY <1>4, <1>5, <1>6, <1>7 DEF Awaits

\* An index is dropped: a declared one of its name is to be created.
LEMMA DropIndexServes ==
  ASSUME NEW t, NEW tbl, NEW fields, NEW c, NEW E, NEW F, NEW new,
         Step(t, tbl, fields, c, E, F, new), c.op = "dropIndex"
  PROVE  Awaits(t, new, fields, F)
<1> DEFINE name == c.index.name
           left == {x \in tbl.indexes : x.name # name}
<1>1. /\ name # PrimaryName /\ IsTable(tbl) /\ Done(E, c, F) /\ Awaits(t, tbl, fields, E)
      /\ c.table = t
  BY DEF Step, ServesTable
<1>2. new = [tbl EXCEPT !.indexes = left]
  BY <1>1 DEF Step, AlterTable, DropIndexSQL, OnlyIf
<1>3. new.columns = tbl.columns /\ new.indexes = left /\ new.pk = tbl.pk
  BY <1>1, <1>2, PartsOfTable
<1>4. ColumnsAwait(new, fields, F)
  BY <1>1, <1>3, ColumnsStay DEF Awaits
<1>5. KeyAwaits(new, fields, F)
  BY <1>1, <1>3 DEF Awaits, KeyAwaits, Done
<1>6. IndexesAwait(t, new, fields, F)
  <2> DEFINE drops == DroppedNames(E, t)
             rest  == DroppedNames(F, t)
             ys    == Declared(t, fields)
             kept  == ColumnsOf(fields)
             creates == CreatedIndexes(E, t)
             xs    == tbl.indexes
  <2>1. CreatedIndexes(F, t) = creates
    <3>1. {e \in F : e.op = "createIndex" /\ e.table = t} = {e \in E : e.op = "createIndex" /\ e.table = t}
      BY <1>1 DEF Done
    <3>2. QED BY <3>1 DEF CreatedIndexes
  <2>2. name \in drops /\ rest \subseteq drops /\ drops \subseteq rest \union {name}
    BY <1>1 DEF Done, DroppedNames
  <2>3. IndexesServed(xs, ys, kept, drops, creates)
    BY <1>1 DEF Awaits, IndexesAwait
  <2> HIDE DEF drops, rest, ys, kept, creates, name, xs
  <2>4. IndexesServed({x \in xs : x.name # name}, ys, kept, rest, creates)
    BY <2>2, <2>3, ServedDrop
  <2>5. QED BY <1>3, <2>1, <2>4 DEF IndexesAwait, ys, kept, rest, xs
<1>7. RenamesSpare(new, F)
  BY <1>1, <1>3 DEF Awaits, RenamesSpare, Done
<1>8. QED BY <1>4, <1>5, <1>6, <1>7 DEF Awaits

\* A declared index is created: nothing drops it any more.
LEMMA CreateIndexServes ==
  ASSUME NEW t, NEW tbl, NEW fields, NEW c, NEW E, NEW F, NEW new,
         Step(t, tbl, fields, c, E, F, new), c.op = "createIndex",
         \A e \in F : ~(e.op = "dropIndex" /\ e.table = t)
  PROVE  Awaits(t, new, fields, F)
<1> DEFINE x  == c.index
           ys == Declared(t, fields)
           kept == ColumnsOf(fields)
<1>1. /\ x \in ys /\ IsTable(tbl) /\ Done(E, c, F) /\ Awaits(t, tbl, fields, E) /\ c.table = t
      /\ t \in Tables /\ fields \in Seq(Field) /\ x \in Index
      /\ \A e \in F : e.op = "modifyColumn" => ServesTable(e, t, fields)
  BY DEF Step, ServesTable, Change
<1>2. new = [tbl EXCEPT !.indexes = @ \union {x}]
  BY DEF Step, AlterTable, CreateIndexSQL, OnlyIf
<1>3. new.columns = tbl.columns /\ new.indexes = tbl.indexes \union {x} /\ new.pk = tbl.pk
  BY <1>1, <1>2, PartsOfTable
<1>4. ToSet(x.columns) \subseteq kept
  <2>1. IsDeclared(x, t, fields)
    BY <1>1, DeclaredIndexes
  <2>2. QED BY <2>1 DEF IsDeclared, ColumnsOf
<1>5. ColumnsAwait(new, fields, F)
  BY <1>1, <1>3, ColumnsStay DEF Awaits
<1>6. KeyAwaits(new, fields, F)
  BY <1>1, <1>3 DEF Awaits, KeyAwaits, Done
<1>7. IndexesAwait(t, new, fields, F)
  <2> DEFINE creates == CreatedIndexes(E, t)
             rest    == CreatedIndexes(F, t)
             xs      == tbl.indexes
  <2>1. DroppedNames(E, t) = {} /\ DroppedNames(F, t) = {}
    BY <1>1 DEF DroppedNames, Done
  <2>2. creates \subseteq rest \union {x}
    BY <1>1 DEF CreatedIndexes, Done
  <2>3. IndexesServed(xs, ys, kept, {}, creates)
    BY <1>1, <2>1 DEF Awaits, IndexesAwait
  <2> HIDE DEF creates, rest, xs, ys, kept, x
  <2>4. IndexesServed(xs \union {x}, ys, kept, {}, rest)
    BY <1>1, <1>4, <2>2, <2>3, ServedCreate
  <2>5. QED BY <1>3, <2>1, <2>4 DEF IndexesAwait, ys, kept, rest, xs
<1>8. RenamesSpare(new, F)
  <2>1. \A e \in F : e.op = "modifyColumn" /\ e.old.column # e.new.column => e.old.column \notin kept
    BY <1>1 DEF ServesTable
  <2>2. RenamesSpare(tbl, F)
    BY <1>1 DEF Awaits, RenamesSpare, Done
  <2> HIDE DEF kept, x
  <2>3. QED BY <1>3, <1>4, <2>1, <2>2 DEF RenamesSpare
<1>9. QED BY <1>5, <1>6, <1>7, <1>8 DEF Awaits

\* Every statement brings the table closer to its fields.
LEMMA AlterationServes ==
  ASSUME NEW t, NEW tbl, NEW fields, NEW c, NEW E, NEW F, NEW new,
         Step(t, tbl, fields, c, E, F, new),
         c.op = "createIndex" => \A e \in F : ~(e.op = "dropIndex" /\ e.table = t)
  PROVE  Awaits(t, new, fields, F)
<1>1. ServesTable(c, t, fields)
  BY DEF Step
<1>2. QED
  BY <1>1, AddServes, DropServes, ModifyServes, KeyServes, DropIndexServes, CreateIndexServes
     DEF ServesTable

\* Nothing is left to be done: the table is what its fields declare.
LEMMA NothingAwaited ==
  ASSUME NEW t \in Tables, NEW tbl, IsTable(tbl), WellFormed(t, tbl), NEW fields \in Seq(Field),
         Awaits(t, tbl, fields, {})
  PROVE  /\ {<<c.name, c.def>> : c \in ToSet(tbl.columns)}
              = {<<c.name, c.def>> : c \in ToSet(Built(t, fields).columns)}
         /\ tbl.pk = Built(t, fields).pk
         /\ tbl.indexes = Built(t, fields).indexes
<1>1. /\ \A col \in ToSet(tbl.columns) : IsDeclaredColumn(col, fields)
      /\ \A f \in ToSet(fields) : HasField(tbl, f)
  BY DEF Awaits, ColumnsAwait, Touched, Comes
<1>2. tbl.pk = PkColumns(fields)
  BY DEF Awaits, KeyAwaits
<1>3. DroppedNames({}, t) = {} /\ CreatedIndexes({}, t) = {}
  BY DEF DroppedNames, CreatedIndexes
<1>4. IndexesServed(tbl.indexes, Declared(t, fields), ColumnsOf(fields), {}, {})
  BY <1>3 DEF Awaits, IndexesAwait
<1>5. QED BY <1>1, <1>2, <1>4, TableMatches

-----------------------------------------------------------------------------
(* What the rest of a plan is for.                                         *)

\* A change that brings the tables closer to the source.
Serves(c, s) ==
  IF c.op = "dropTable" THEN DOMAIN s = {}
  ELSE /\ c.table \in DOMAIN s
       /\ c = CreateTable(c.table, s[c.table]) \/ ServesTable(c, c.table, s[c.table])

\* The tables are what the source declares but for what changes D of them do.
Pending(d, s, D) ==
  /\ \A c \in D : Serves(c, s)
  /\ DOMAIN s = {} => \A t \in DOMAIN d : DropTable(t) \in D
  /\ \A t \in DOMAIN s : ~Repeated(s[t])
  /\ \A t \in DOMAIN s \intersect DOMAIN d : Awaits(t, d[t], s[t], Of(D, t))
  /\ \A t \in DOMAIN s \ DOMAIN d :
       CreateTable(t, s[t]) \in D /\ \A y \in Declared(t, s[t]) : CreateIndex(y) \in D

\* A plan that is made outside the limits is for all there is to do.
LEMMA PlanIsPending ==
  ASSUME NEW d, IsDatabase(d), AllWellFormed(d), NEW tables, NEW s, DiffOutside(d, tables, s),
         ~Limited(d, s), NEW todo \in Diff(s, tables, TRUE)
  PROVE  Pending(d, s, ToSet(todo)) /\ Ordered(todo, Misplaced)
<1> DEFINE D == ToSet(todo)
<1>1. /\ todo \in Seq(Change) /\ Ordered(todo, Misplaced)
      /\ PlannedFor(d, tables, s, TRUE, D)
  BY DiffPlans
<1> HIDE DEF D
<1>2. ASSUME NEW t \in DOMAIN s \intersect DOMAIN d
      PROVE  /\ TableOutside(t, d[t], tables[t], s[t]) /\ ~RenamedIndexed(d[t], s[t])
             /\ PresentPlan(t, d[t], tables[t], s[t], TRUE, Of(D, t))
  BY <1>1 DEF DiffOutside, Limited, PlannedFor
<1>3. ASSUME NEW t \in DOMAIN s \intersect DOMAIN d, NEW c \in Of(D, t)
      PROVE  ServesTable(c, t, s[t])
  <2> DEFINE fields == s[t]
             old    == tables[t]
             tbl    == d[t]
  <2> SUFFICES ServesTable(c, t, fields)
    OBVIOUS
  <2>1. IsPresentChange(c, t, tbl, old, fields, TRUE)
    BY <1>2 DEF PresentPlan, Of
  <2>2. \A x \in tbl.indexes : x.name # PrimaryName
    BY <1>2 DEF TableOutside, WellFormed
  <2> HIDE DEF fields, old, tbl
  <2>3. CASE \E f \in ToSet(fields) : c = AddColumn(f)
    BY <2>3 DEF AddColumn, ServesTable
  <2>4. CASE \E o \in ToSet(old) : c = DropColumn(o) /\ o.column \notin ColumnsOf(fields)
    BY <2>4 DEF DropColumn, ServesTable
  <2>5. CASE \E o \in ToSet(old), f \in ToSet(fields) : c = ModifyColumn(o, f) /\ Matched(tbl, fields, f, o)
    <3>1. PICK o \in ToSet(old), f \in ToSet(fields) : c = ModifyColumn(o, f) /\ Matched(tbl, fields, f, o)
      BY <2>5
    <3>2. c.op = "modifyColumn" /\ c.old = o /\ c.new = f
      BY <3>1 DEF ModifyColumn
    <3>3. QED BY <3>1, <3>2 DEF Matched, ServesTable
  <2>6. CASE c = ModifyPrimaryKey(t, old, fields)
    BY <2>6 DEF ModifyPrimaryKey, ServesTable
  <2>7. CASE \E e : c = DropIndex(e) /\ e.table = t /\ \E x \in tbl.indexes : e.name = x.name
    BY <2>2, <2>7 DEF DropIndex, ServesTable
  <2>8. CASE \E y \in Declared(t, fields) : c = CreateIndex(y)
    BY <2>8 DEF CreateIndex, ServesTable
  <2>9. QED BY <2>1, <2>3, <2>4, <2>5, <2>6, <2>7, <2>8 DEF IsPresentChange, IsColumnChange
<1>4. ASSUME NEW c \in D PROVE Serves(c, s)
  <2>1. CASE c.op = "dropTable"
    BY <1>1, <2>1 DEF PlannedFor, Serves
  <2>2. CASE c.op # "dropTable" /\ c.table \in DOMAIN d
    <3>1. c.table \in DOMAIN s /\ c \in Of(D, c.table)
      BY <1>1, <2>2 DEF PlannedFor, Of
    <3>2. QED BY <1>3, <2>2, <3>1 DEF Serves
  <2>3. CASE c.op # "dropTable" /\ c.table \notin DOMAIN d
    <3>1. c.table \in DOMAIN s
      BY <1>1, <2>3 DEF PlannedFor
    <3>2. IsAbsentChange(c, c.table, s[c.table])
      BY <1>1, <2>3, <3>1 DEF PlannedFor, AbsentPlan
    <3>3. CASE c = CreateTable(c.table, s[c.table])
      BY <2>3, <3>1, <3>3 DEF Serves
    <3>4. CASE \E y \in Declared(c.table, s[c.table]) : c = CreateIndex(y)
      <4>1. ServesTable(c, c.table, s[c.table])
        BY <3>4 DEF CreateIndex, ServesTable
      <4>2. QED BY <2>3, <3>1, <4>1 DEF Serves
    <3>5. QED BY <3>2, <3>3, <3>4 DEF IsAbsentChange
  <2>4. QED BY <2>1, <2>2, <2>3
<1>5. \A t \in DOMAIN s : ~Repeated(s[t])
  BY DEF DiffOutside, Ambiguous
<1>6. ASSUME NEW t \in DOMAIN s \intersect DOMAIN d PROVE Awaits(t, d[t], s[t], Of(D, t))
  <2> DEFINE fields == s[t]
             old    == tables[t]
             tbl    == d[t]
             E      == Of(D, t)
  <2>1. /\ \A col \in ToSet(tbl.columns) : ColumnServed(col, tbl, fields, E)
        /\ \A f \in ToSet(fields) : FieldServed(f, tbl, fields, E)
        /\ tbl.pk # PkColumns(fields) => ModifyPrimaryKey(t, old, fields) \in E
        /\ IndexesServed(tbl.indexes, Declared(t, fields), ColumnsOf(fields),
                         DroppedNames(E, t), CreatedIndexes(E, t))
        /\ \A c \in E : IsPresentChange(c, t, tbl, old, fields, TRUE)
    BY <1>2 DEF PresentPlan, Of
  <2>2. IsTable(tbl) /\ DistinctColumns(tbl) /\ ~RenamedIndexed(tbl, fields)
    BY <1>2 DEF TableOutside, WellFormed
  <2> HIDE DEF fields, old, tbl, E
  <2>3. /\ ColumnNames(tbl) = {col.name : col \in ToSet(tbl.columns)}
        /\ \A a, b \in ToSet(tbl.columns) : a.name = b.name => a = b
    BY <2>2, PartsOfTable, DistinctIs
  <2>4. \A o, f : ModifyColumn(o, f) \in E => Touched(o.column, E) /\ Comes(f, E)
    BY DEF ModifyColumn, Touched, Comes
  <2>5. \A o : DropColumn(o) \in E => Touched(o.column, E)
    BY DEF DropColumn, Touched
  <2>6. \A f : AddColumn(f) \in E => Comes(f, E)
    BY DEF AddColumn, Comes
  <2>7. ASSUME NEW f \in ToSet(fields) PROVE HasField(tbl, f) \/ Comes(f, E)
    <3>1. FieldServed(f, tbl, fields, E)
      BY <2>1
    <3>2. CASE \E col \in ToSet(tbl.columns) : col.name = f.column /\ (col.def = f.def \/ Changes(col, f, E))
      BY <2>4, <3>2 DEF HasField, IsField, Changes
    <3>3. CASE AddColumn(f) \in E \/ Gives(f, tbl, fields, E)
      BY <2>4, <2>6, <3>3 DEF Gives
    <3>4. QED BY <3>1, <3>2, <3>3 DEF FieldServed
  <2>8. ASSUME NEW col \in ToSet(tbl.columns) PROVE IsDeclaredColumn(col, fields) \/ Touched(col.name, E)
    <3>1. CASE col.name \in ColumnsOf(fields)
      <4>1. PICK f \in ToSet(fields) : f.column = col.name
        BY <3>1 DEF ColumnsOf, ToSet
      <4>2. FieldServed(f, tbl, fields, E) /\ f.column \in ColumnNames(tbl)
        BY <2>1, <2>3, <4>1
      <4>3. col.def = f.def \/ Changes(col, f, E)
        BY <2>3, <4>1, <4>2 DEF FieldServed
      <4>4. QED BY <2>4, <4>1, <4>3 DEF Changes, IsDeclaredColumn, IsField
    <3>2. CASE Drops(col, E) \/ Takes(col, tbl, fields, E)
      BY <2>4, <2>5, <3>2 DEF Drops, Takes
    <3>3. QED BY <2>1, <3>1, <3>2 DEF ColumnServed
  <2>9. ColumnsAwait(tbl, fields, E)
    BY <2>7, <2>8 DEF ColumnsAwait
  <2>10. KeyAwaits(tbl, fields, E)
    BY <2>1 DEF KeyAwaits, ModifyPrimaryKey
  <2>11. IndexesAwait(t, tbl, fields, E)
    BY <2>1 DEF IndexesAwait
  <2>12. ASSUME NEW c \in E, c.op = "modifyColumn", c.old.column # c.new.column, NEW x \in tbl.indexes
         PROVE  c.old.column \notin ToSet(x.columns)
    <3>1. IsPresentChange(c, t, tbl, old, fields, TRUE)
      BY <2>1
    <3>2. \E o \in ToSet(old), f \in ToSet(fields) : c = ModifyColumn(o, f) /\ Matched(tbl, fields, f, o)
      BY <2>12, <3>1 DEF IsPresentChange, IsColumnChange, AddColumn, DropColumn, ModifyPrimaryKey,
                         DropIndex, CreateIndex
    <3>3. PICK o \in ToSet(old), f \in ToSet(fields) : c = ModifyColumn(o, f) /\ Matched(tbl, fields, f, o)
      BY <3>2
    <3>4. c.old = o /\ c.new = f
      BY <3>3 DEF ModifyColumn
    <3>5. o.column \in ColumnNames(tbl) \ ColumnsOf(fields) /\ f.name = Camel[o.column]
      BY <2>12, <3>3, <3>4 DEF Matched
    <3>6. \E n \in DOMAIN fields : fields[n] = f
      BY DEF ToSet
    <3>7. QED BY <2>2, <3>4, <3>5, <3>6 DEF RenamedIndexed
  <2>13. RenamesSpare(tbl, E)
    BY <2>12 DEF RenamesSpare
  <2>14. Awaits(t, tbl, fields, E)
    BY <2>9, <2>10, <2>11, <2>13 DEF Awaits
  <2>15. QED BY <2>14 DEF tbl, fields, E
<1>7. Pending(d, s, D)
  BY <1>1, <1>4, <1>5, <1>6 DEF Pending, PlannedFor, AbsentPlan
<1>8. QED BY <1>1, <1>7 DEF D

\* A statement of the plan, carried out: what is left of the plan is for what is left to do.
LEMMA StatementServes ==
  ASSUME NEW d, IsDatabase(d), AllWellFormed(d), NEW s, IsSchema(s), NEW D, Pending(d, s, D),
         NEW c \in Change, NEW R, Done(D, c, R),
         c.op = "createIndex" => \A e \in R : ~(e.op = "dropIndex" /\ e.table = c.table),
         NEW new \in Result(d, c)
  PROVE  Pending(new, s, R)
<1> DEFINE t == c.table
<1>1. Serves(c, s) /\ \A e \in R : Serves(e, s)
  BY DEF Pending, Done
<1>2. \A u \in DOMAIN s : ~Repeated(s[u])
  BY DEF Pending
<1>3. \A u : u # t => Of(R, u) = Of(D, u)
  BY DEF Of, Done
<1>4. CASE c.op = "createTable"
  <2>1. t \notin DOMAIN d /\ new = WithTable(d, t, CreateTableSQL(c))
    BY <1>4, ResultCases
  <2>2. t \in DOMAIN s /\ c = CreateTable(t, s[t])
    BY <1>1, <1>4 DEF Serves, ServesTable
  <2>3. /\ DOMAIN new = DOMAIN d \union {t} /\ new[t] = CreateTableSQL(c)
        /\ \A u \in DOMAIN d : u # t /\ new[u] = d[u]
    BY <2>1 DEF WithTable
  <2>4. Awaits(t, CreateTableSQL(c), s[t], Of(R, t))
    <3> DEFINE tbl == CreateTableSQL(c)
               fields == s[t]
               E == Of(R, t)
    <3>1. /\ tbl.pk = PkColumns(fields) /\ tbl.indexes = {}
          /\ tbl.columns = [n \in DOMAIN fields |-> ColumnSQL(fields[n], NewColumn)]
      BY <2>2 DEF CreateTableSQL, CreateTable
    <3>2. /\ \A col \in ToSet(tbl.columns) : IsDeclaredColumn(col, fields)
          /\ \A f \in ToSet(fields) : HasField(tbl, f)
      <4>1. \A f : IsField(ColumnSQL(f, NewColumn), f)
        BY DEF IsField, ColumnSQL
      <4>2. /\ \A col \in ToSet(tbl.columns) : \E f \in ToSet(fields) : col = ColumnSQL(f, NewColumn)
            /\ \A f \in ToSet(fields) : ColumnSQL(f, NewColumn) \in ToSet(tbl.columns)
        BY <3>1 DEF ToSet
      <4> HIDE DEF tbl, fields
      <4>3. QED BY <4>1, <4>2 DEF IsDeclaredColumn, HasField
    <3>3. ASSUME NEW y \in Declared(t, fields) PROVE y \in CreatedIndexes(E, t)
      <4>1. CreateIndex(y) \in D
        BY <2>1, <2>2 DEF Pending
      <4>2. CreateIndex(y) \in R
        BY <1>4, <4>1 DEF Done, CreateIndex
      <4>3. y.table = t
        BY DEF Declared
      <4>4. CreateIndex(y).op = "createIndex" /\ CreateIndex(y).table = t /\ CreateIndex(y).index = y
        BY <4>3 DEF CreateIndex
      <4>5. QED BY <4>2, <4>4 DEF CreatedIndexes, Of
    <3> HIDE DEF tbl, fields, E
    <3>4. ColumnsAwait(tbl, fields, E) /\ KeyAwaits(tbl, fields, E) /\ RenamesSpare(tbl, E)
      BY <3>1, <3>2 DEF ColumnsAwait, KeyAwaits, RenamesSpare
    <3>5. IndexesAwait(t, tbl, fields, E)
      BY <3>1, <3>3 DEF IndexesAwait, IndexesServed
    <3>6. Awaits(t, tbl, fields, E)
      BY <3>4, <3>5 DEF Awaits
    <3>7. QED BY <3>6 DEF tbl, fields, E
  <2>5. ASSUME NEW u \in DOMAIN s \intersect DOMAIN new PROVE Awaits(u, new[u], s[u], Of(R, u))
    BY <1>3, <2>3, <2>4 DEF Pending
  <2>6. ASSUME NEW u \in DOMAIN s \ DOMAIN new
        PROVE  CreateTable(u, s[u]) \in R /\ \A y \in Declared(u, s[u]) : CreateIndex(y) \in R
    <3>1. CreateTable(u, s[u]) \in D /\ \A y \in Declared(u, s[u]) : CreateIndex(y) \in D
      BY <2>3 DEF Pending
    <3>2. CreateTable(u, s[u]).table # t /\ \A y : CreateIndex(y).op # c.op
      BY <1>4, <2>3 DEF CreateTable, CreateIndex
    <3>3. QED BY <3>1, <3>2 DEF Done
  <2>7. DOMAIN s # {}
    BY <2>2
  <2>8. QED BY <1>1, <1>2, <2>5, <2>6, <2>7 DEF Pending
<1>5. CASE c.op = "dropTable"
  <2>1. new = [u \in DOMAIN d \ {t} |-> d[u]] /\ DOMAIN s = {}
    BY <1>1, <1>5, ResultCases DEF Serves
  <2>2. ASSUME NEW u \in DOMAIN new PROVE DropTable(u) \in R
    <3>1. DropTable(u) \in D /\ DropTable(u).table # t
      BY <2>1 DEF Pending, DropTable
    <3>2. QED BY <3>1 DEF Done
  <2>3. QED BY <1>1, <2>1, <2>2 DEF Pending
<1>6. CASE c.op \notin {"createTable", "dropTable"}
  <2>1. t \in DOMAIN d /\ \E tbl \in AlterTable(d[t], c) : new = WithTable(d, t, tbl)
    BY <1>6, ResultCases
  <2>2. PICK tbl \in AlterTable(d[t], c) : new = WithTable(d, t, tbl)
    BY <2>1
  <2>3. t \in DOMAIN s /\ ServesTable(c, t, s[t])
    BY <1>1, <1>6 DEF Serves, CreateTable
  <2>4. DOMAIN new = DOMAIN d /\ new[t] = tbl /\ \A u \in DOMAIN d : u # t => new[u] = d[u]
    BY <2>1, <2>2 DEF WithTable
  <2>5. \A e \in Of(R, t) : e.op = "modifyColumn" => ServesTable(e, t, s[t])
    BY <1>1 DEF Of, Serves, CreateTable
  <2>6. Done(Of(D, t), c, Of(R, t))
    BY DEF Done, Of
  <2>7. \A e \in Of(R, t) : e.table = t /\ e \in R
    BY DEF Of
  <2>8. IsTable(d[t]) /\ WellFormed(t, d[t]) /\ t \in Tables /\ s[t] \in Seq(Field)
    BY <2>1, <2>3 DEF IsDatabase, AllWellFormed, IsSchema
  <2>9. Awaits(t, d[t], s[t], Of(D, t))
    BY <2>1, <2>3 DEF Pending
  <2> DEFINE old == d[t]
             fields == s[t]
             E == Of(D, t)
             F == Of(R, t)
  <2>10. Step(t, old, fields, c, E, F, tbl)
    BY <1>2, <2>2, <2>3, <2>5, <2>6, <2>8, <2>9 DEF Step
  <2>11. c.op = "createIndex" => \A e \in F : ~(e.op = "dropIndex" /\ e.table = t)
    BY <2>7
  <2> HIDE DEF old, fields, E, F
  <2>12. Awaits(t, tbl, fields, F)
    BY <2>10, <2>11, AlterationServes
  <2>13. ASSUME NEW u \in DOMAIN s \intersect DOMAIN new PROVE Awaits(u, new[u], s[u], Of(R, u))
    <3>1. CASE u = t
      BY <2>4, <2>12, <3>1 DEF fields, F
    <3>2. CASE u # t
      BY <1>3, <2>4, <3>2 DEF Pending
    <3>3. QED BY <3>1, <3>2
  <2>14. ASSUME NEW u \in DOMAIN s \ DOMAIN new
         PROVE  CreateTable(u, s[u]) \in R /\ \A y \in Declared(u, s[u]) : CreateIndex(y) \in R
    <3>1. CreateTable(u, s[u]) \in D /\ \A y \in Declared(u, s[u]) : CreateIndex(y) \in D
      BY <2>4 DEF Pending
    <3>2. u # t /\ CreateTable(u, s[u]).table = u
      BY <2>1, <2>4 DEF CreateTable
    <3>3. \A y \in Declared(u, s[u]) : CreateIndex(y).table = u
      BY DEF CreateIndex, Declared
    <3>4. QED BY <3>1, <3>2, <3>3 DEF Done
  <2>15. DOMAIN s # {}
    BY <2>3
  <2>16. QED BY <1>1, <1>2, <2>13, <2>14, <2>15 DEF Pending
<1>7. QED BY <1>4, <1>5, <1>6

-----------------------------------------------------------------------------
(* A run that is alone.                                                    *)

\* A run alone between its two queries and at its statements: the tables are those it read
\* its indexes from; outside the limits its plan is for all there is to do.
Alone(p) ==
  /\ pc[p] = "columnSchema" => base[p] = db /\ indexMap[p] \in IndexMaps(db)
  /\ pc[p] \in {"begin", "exec", "ok"} /\ ~Limited(base[p], source[p]) =>
       Pending(db, source[p], ToSet(plan[p])) /\ Ordered(plan[p], Misplaced)
  /\ pc[p] = "ok" => plan[p] = <<>>

AloneInv ==
  /\ Inv
  /\ DOMAIN base = Procs
  /\ \A p \in Procs : Alone(p)

LEMMA AloneInit == Init => AloneInv
<1> SUFFICES ASSUME Init PROVE AloneInv
  OBVIOUS
<1>1. Inv
  BY InitInv
<1>2. QED BY <1>1 DEF AloneInv, Alone, Init

\* The plan a run alone makes.
LEMMA AlonePlans ==
  ASSUME AloneInv, NEW p \in Procs, ColumnSchema(p), ~Limited(base'[p], source'[p])
  PROVE  Pending(db', source'[p], ToSet(plan'[p])) /\ Ordered(plan'[p], Misplaced)
<1> DEFINE d == db
           s == source[p]
           m == indexMap[p]
           tables == ReadTables(d, m)
<1>1. pc[p] = "columnSchema" /\ m \in IndexMaps(d) /\ db' = d /\ source' = source
  BY DEF AloneInv, Alone, ColumnSchema
<1>2. base'[p] = d
  BY DEF AloneInv, ColumnSchema
<1>3. plan'[p] \in Diff(s, tables, TRUE)
  BY DEF AloneInv, Inv, ColumnSchema
<1>4. IsDatabase(d) /\ AllWellFormed(d) /\ IsSchema(s) /\ Known(d, File, before) /\ IsIndexMap(m)
  BY DEF AloneInv, Inv, TypeOK, AllWellFormed, RunInv
<1>5. IsSchema(tables)
  BY <1>4, ReadTablesReading DEF Reading
<1> DEFINE todo == plan'[p]
<1>6. ~Limited(d, s)
  BY <1>1, <1>2
<1> HIDE DEF d, s, m, todo
<1>7. DiffOutside(d, tables, s)
  BY <1>1, <1>4, <1>5, <1>6, ReadOutside
<1> HIDE DEF tables
<1>8. todo \in Diff(s, tables, TRUE)
  BY <1>3 DEF todo
<1>9. Pending(d, s, ToSet(todo)) /\ Ordered(todo, Misplaced)
  BY <1>4, <1>6, <1>7, <1>8, PlanIsPending
<1>10. QED BY <1>1, <1>9 DEF d, s, todo

\* The statement a run alone executes.
LEMMA AloneExecutes ==
  ASSUME AloneInv, NEW p \in Procs, Exec(p), ~Limited(base'[p], source'[p])
  PROVE  Pending(db', source'[p], ToSet(plan'[p])) /\ Ordered(plan'[p], Misplaced)
<1> DEFINE d == db
           s == source[p]
           todo == plan[p]
           c == Head(todo)
           rest == Tail(todo)
           new  == db'
<1>1. /\ pc[p] = "exec" /\ todo # <<>> /\ new \in Result(d, c) /\ plan'[p] = rest
      /\ UNCHANGED <<source, base>>
  BY DEF AloneInv, Inv, Exec
<1>2. Pending(d, s, ToSet(todo)) /\ Ordered(todo, Misplaced)
  BY <1>1 DEF AloneInv, Alone
<1>3. IsDatabase(d) /\ AllWellFormed(d) /\ IsSchema(s) /\ todo \in Seq(Change)
  BY DEF AloneInv, Inv, TypeOK, AllWellFormed
<1> DEFINE D == ToSet(todo)
           R == ToSet(rest)
<1> HIDE DEF d, s, new, todo
<1>4. /\ Done(D, c, R) /\ Ordered(rest, Misplaced)
      /\ \A y \in R : <<c, y>> \notin Misplaced
  BY <1>1, <1>2, <1>3, HeadAndRest
<1>5. c \in Change /\ \A e \in R : e \in Change
  <2>1. \A e \in D : e \in Change
    BY <1>3, Elements
  <2>2. QED BY <1>1, <1>3, <1>4, <2>1, HeadAndTail DEF Done
<1> HIDE DEF c, rest, D, R
<1>6. c.op = "createIndex" => \A e \in R : ~(e.op = "dropIndex" /\ e.table = c.table)
  BY <1>4, <1>5 DEF Misplaced
<1>7. Pending(d, s, D)
  BY <1>2 DEF D
<1>8. Pending(new, s, R)
  BY <1>1, <1>3, <1>4, <1>5, <1>6, <1>7, StatementServes
<1>9. QED BY <1>1, <1>4, <1>8 DEF new, s, R, rest, todo

\* Nothing is left to be done: the tables are what the source declares.
LEMMA NothingPending ==
  ASSUME NEW d, IsDatabase(d), AllWellFormed(d), NEW s, IsSchema(s), Pending(d, s, {})
  PROVE  Matches(d, s)
<1>1. ASSUME NEW t \in DOMAIN s
      PROVE  /\ t \in DOMAIN d
             /\ {<<c.name, c.def>> : c \in ToSet(d[t].columns)}
                  = {<<c.name, c.def>> : c \in ToSet(Built(t, s[t]).columns)}
             /\ d[t].pk = Built(t, s[t]).pk /\ d[t].indexes = Built(t, s[t]).indexes
  <2>1. t \in DOMAIN d
    BY DEF Pending
  <2>2. /\ t \in Tables /\ IsTable(d[t]) /\ WellFormed(t, d[t]) /\ s[t] \in Seq(Field)
    BY <2>1 DEF IsDatabase, AllWellFormed, IsSchema
  <2>3. Awaits(t, d[t], s[t], {})
    <3>1. Of({}, t) = {}
      BY DEF Of
    <3>2. QED BY <2>1, <3>1 DEF Pending
  <2>4. QED BY <2>1, <2>2, <2>3, NothingAwaited
<1>2. DOMAIN s = {} => DOMAIN d = {}
  BY DEF Pending
<1>3. QED BY <1>1, <1>2 DEF Matches

\* Every step keeps it when there is no other run.
LEMMA AloneNext ==
  ASSUME NEW p \in Procs, \A q \in Procs : q = p, AloneInv, [Next]_vars
  PROVE  AloneInv'
<1>1. Inv'
  BY NextInv DEF AloneInv
<1>2. /\ DOMAIN base = Procs /\ DOMAIN plan = Procs /\ DOMAIN indexMap = Procs
      /\ DOMAIN source = Procs /\ DOMAIN pc = Procs /\ Alone(p)
  BY DEF AloneInv, Inv, TypeOK
<1>3. SUFFICES DOMAIN base' = Procs /\ Alone(p)'
  BY <1>1 DEF AloneInv
<1>4. CASE UNCHANGED vars
  BY <1>2, <1>4 DEF vars, Alone
<1>5. CASE Edit
  <2>1. pc[p] = "idle" /\ UNCHANGED <<pc, base>>
    BY <1>5 DEF Edit
  <2>2. QED BY <1>2, <2>1 DEF Alone
<1>6. CASE Start(p)
  BY <1>2, <1>6 DEF Start, Goto, Alone
<1>7. CASE GetIndexMap(p)
  <2>1. /\ pc'[p] = "columnSchema" /\ base'[p] = db /\ DOMAIN base' = Procs
        /\ indexMap'[p] \in IndexMaps(db) /\ db' = db
    BY <1>2, <1>7 DEF GetIndexMap, Goto
  <2>2. QED BY <2>1 DEF Alone
<1>8. CASE ColumnSchema(p)
  <2>1. pc'[p] = "begin" /\ DOMAIN base' = Procs
    BY <1>2, <1>8 DEF ColumnSchema, Goto
  <2>2. QED BY <1>8, <2>1, AlonePlans DEF Alone
<1>9. CASE Exec(p)
  <2>1. pc'[p] = "exec" /\ DOMAIN base' = Procs
    BY <1>2, <1>9 DEF Exec
  <2>2. QED BY <1>9, <2>1, AloneExecutes DEF Alone
<1>10. CASE Begin(p)
  <2>1. pc[p] = "begin" /\ pc'[p] = "exec" /\ UNCHANGED <<db, source, base, plan>>
    BY <1>2, <1>10 DEF Begin, Goto
  <2>2. QED BY <1>2, <2>1 DEF Alone
<1>11. CASE Commit(p)
  <2>1. pc[p] = "exec" /\ pc'[p] = "ok" /\ plan[p] = <<>> /\ UNCHANGED <<db, source, base, plan>>
    BY <1>2, <1>11 DEF Commit, Goto
  <2>2. QED BY <1>2, <2>1 DEF Alone
<1>12. CASE ExecRejected(p) \/ Rollback(p) \/ DryRun(p) \/ Fails(p) \/ ExecBroken(p) \/ Crash(p)
  <2>1. pc'[p] \in {"rollback", "failed", "dry"} /\ base' = base
    BY <1>2, <1>12 DEF ExecRejected, Rollback, DryRun, Fails, ExecBroken, Crash, Goto
  <2>2. QED BY <1>2, <2>1 DEF Alone
<1>13. CASE Exit(p)
  <2>1. pc'[p] = "idle" /\ DOMAIN base' = Procs
    BY <1>2, <1>13 DEF Exit, Goto
  <2>2. QED BY <2>1 DEF Alone
<1>14. QED
  BY <1>4, <1>5, <1>6, <1>7, <1>8, <1>9, <1>10, <1>11, <1>12, <1>13 DEF Next, Run

\* A run that is alone returns nil only when the database has become what the source
\* declares, outside the limits of Diff, whatever earlier runs that were refused, broke off
\* or were killed left behind.  Of runs that overlap it does not hold.
THEOREM SuccessIsMatch ==
  ASSUME \E p : Procs = {p}
  PROVE  Spec => []SuccessMeansMatch
<1>1. PICK p : Procs = {p}
  OBVIOUS
<1>2. p \in Procs /\ \A q \in Procs : q = p
  BY <1>1
<1>3. Init => AloneInv
  BY AloneInit
<1>4. AloneInv /\ [Next]_vars => AloneInv'
  BY <1>2, AloneNext
<1>5. AloneInv => SuccessMeansMatch
  <2> SUFFICES ASSUME AloneInv, NEW q \in Procs, pc[q] = "ok", ~Limited(base[q], source[q])
               PROVE  Matches(db, source[q])
    BY DEF SuccessMeansMatch
  <2>1. Pending(db, source[q], ToSet(plan[q])) /\ plan[q] = <<>>
    BY DEF AloneInv, Alone
  <2>2. ToSet(<<>>) = {}
    BY DEF ToSet
  <2>3. IsDatabase(db) /\ AllWellFormed(db) /\ IsSchema(source[q])
    BY DEF AloneInv, Inv, TypeOK, AllWellFormed
  <2>4. QED BY <2>1, <2>2, <2>3, NothingPending
<1>6. QED BY <1>3, <1>4, <1>5, PTL DEF Spec

-----------------------------------------------------------------------------
(* A database that matches is left alone.                                  *)

\* The index of an old field that its new one does not name.
Unnames(old, fields, y) ==
  \E n \in DOMAIN fields, u \in BOOLEAN :
    InStrings(OldNames(old, fields[n], u), y) /\ ~InStrings(Names(fields[n], u), y)

\* A change of a table, and what it was planned for, whatever was read of the table.
PlannedAs(c, t, old, exists, fields) ==
  \/ ~exists /\ c = CreateTable(t, fields)
  \/ exists /\ \E f \in ToSet(fields) : c = AddColumn(f) /\ OldField(old, f) = {}
  \/ exists /\ \E o \in ToSet(old) : c = DropColumn(o) /\ IsDropped(fields, o)
  \/ exists /\ \E f \in ToSet(fields), o \in ToSet(old) :
                 c = ModifyColumn(o, f) /\ OldField(old, f) = {o}
  \/ exists /\ c = ModifyPrimaryKey(t, old, fields)
  \/ \E e : c = DropIndex(e) /\ Unnames(old, fields, e.name)
  \/ \E e : c = CreateIndex(e) /\ \E y \in Declared(t, fields) : y.name = e.name

LEMMA ColumnPlannedAs ==
  ASSUME NEW t, NEW old \in Seq(Field), NEW fields \in Seq(Field),
         NEW c \in ToSet(AlterColumns(old, fields))
  PROVE  PlannedAs(c, t, old, TRUE, fields)
<1>1. CASE \E f \in ToSet(fields) : c \in ToSet(AlterNew(old, f))
  <2>1. PICK f \in ToSet(fields) : c \in ToSet(AlterNew(old, f))
    BY <1>1
  <2>2. CASE OldField(old, f) = {}
    <3>1. AlterNew(old, f) = <<AddColumn(f)>>
      BY <2>2 DEF AlterNew
    <3>2. c = AddColumn(f)
      BY <2>1, <3>1, OneOrNone
    <3>3. QED BY <2>2, <3>2 DEF PlannedAs
  <2>3. CASE OldField(old, f) # {}
    <3>1. PICK o \in ToSet(old) : OldField(old, f) = {o}
      <4>1. \A m \in DOMAIN old : old[m] \in ToSet(old)
        BY Elements
      <4>2. f \in Field
        BY Elements
      <4>3. PICK k \in {f.column, f.name} : Keyed(old, k) # {} /\ OldField(old, f) = {old[LastOf(Keyed(old, k))]}
        BY <2>3 DEF OldField
      <4>4. LastOf(Keyed(old, k)) \in DOMAIN old
        <5>1. Keyed(old, k) \in SUBSET (1..Len(old)) /\ Len(old) \in Nat /\ DOMAIN old = 1..Len(old)
          BY FieldsOf DEF Keyed
        <5>2. LastOf(Keyed(old, k)) \in Keyed(old, k)
          BY <4>3, <5>1, LastOfIsLast
        <5>3. QED BY <5>1, <5>2
      <4>5. QED BY <4>1, <4>3, <4>4
    <3>2. AlterNew(old, f) = <<ModifyColumn(o, f)>> \/ AlterNew(old, f) = <<>>
      BY <3>1 DEF AlterNew
    <3>3. c = ModifyColumn(o, f)
      BY <2>1, <3>2, OneOrNone
    <3>4. QED BY <3>1, <3>3 DEF PlannedAs
  <2>4. QED BY <2>2, <2>3
<1>2. CASE \E o \in ToSet(old) : c \in ToSet(AlterOld(fields, o))
  <2>1. PICK o \in ToSet(old) : c \in ToSet(AlterOld(fields, o))
    BY <1>2
  <2>2. IsDropped(fields, o) /\ c = DropColumn(o)
    BY <2>1, OneOrNone DEF AlterOld
  <2>3. QED BY <2>2 DEF PlannedAs
<1>3. QED BY <1>1, <1>2, AlterColumnsSet

LEMMA IndexPlannedAs ==
  ASSUME NEW t \in Tables, NEW old \in Seq(Field), NEW fields \in Seq(Field), NEW add \in BOOLEAN,
         NEW e \in ToSet(Gathered(t, old, fields, add))
  PROVE  IF add THEN \E y \in Declared(t, fields) : y.name = e.name
         ELSE Unnames(old, fields, e.name)
<1> DEFINE vs == AllVisits(old, fields)
<1>1. /\ Gathering(t, Gathered(t, old, fields, add), vs, add) /\ TableVisits(vs, old, fields)
  BY GatheredVisits
<1>2. PICK v \in ToSet(vs) : Asked(v, e.name, add)
  BY <1>1 DEF Gathering, GatheredFrom
<1>3. PICK n \in DOMAIN fields : IsVisitOf(v, old, fields[n])
  BY <1>1 DEF TableVisits
<1>4. v.add = add /\ ~v.kept /\ v.name = e.name
  BY <1>2, Zenon DEF Asked
<1>5. v.unique \in BOOLEAN
  BY <1>3 DEF IsVisitOf, Visit
<1>6. CASE add
  <2>1. InStrings(Names(fields[n], v.unique), e.name)
    BY <1>3, <1>4, <1>6, Zenon DEF IsVisitOf
  <2>2. e.name \in IndexNames
    <3>1. Gathered(t, old, fields, add) \in Seq(IndexesOf(t))
      BY <1>1 DEF Gathering
    <3>2. e \in IndexesOf(t)
      BY <3>1, Elements
    <3>3. QED BY <3>2 DEF IndexesOf, Index
  <2>3. QED BY <1>5, <1>6, <2>1, <2>2, DeclaredIndexes
<1>7. CASE ~add
  <2>1. InStrings(OldNames(old, fields[n], v.unique), e.name)
        /\ ~InStrings(Names(fields[n], v.unique), e.name)
    BY <1>3, <1>4, <1>7, Zenon DEF IsVisitOf
  <2>2. QED BY <1>5, <1>7, <2>1 DEF Unnames
<1>8. QED BY <1>6, <1>7

LEMMA ChangePlannedAs ==
  ASSUME NEW s, IsSchema(s), NEW tables, IsSchema(tables), NEW c, IsDiffChange(c, s, tables, TRUE)
  PROVE  \/ DOMAIN s = {} /\ c.op = "dropTable"
         \/ /\ c.table \in DOMAIN s
            /\ PlannedAs(c, c.table, OldOf(tables, c.table), c.table \in DOMAIN tables, s[c.table])
<1>1. CASE DOMAIN s = {}
  BY <1>1 DEF IsDiffChange, DropTable
<1>2. CASE \E t \in DOMAIN s : IsTableChange(c, t, OldOf(tables, t), s[t], t \in DOMAIN tables,
                                               LostBy(t, s, tables), TRUE)
  <2>1. PICK t \in DOMAIN s : IsTableChange(c, t, OldOf(tables, t), s[t], t \in DOMAIN tables,
                                              LostBy(t, s, tables), TRUE)
    BY <1>2
  <2>2. c.table = t
    BY <2>1, ChangeIsOfTable
  <2> DEFINE old == OldOf(tables, t)
             fields == s[t]
             exists == t \in DOMAIN tables
             lost == LostBy(t, s, tables)
  <2>3. t \in Tables /\ old \in Seq(Field) /\ fields \in Seq(Field)
    BY EmptySeq DEF IsSchema, OldOf
  <2>4. IsTableChange(c, t, old, fields, exists, lost, TRUE)
    BY <2>1
  <2> HIDE DEF old, fields, exists, lost
  <2>5. PlannedAs(c, t, old, exists, fields)
    <3>1. CASE exists /\ c \in ToSet(AlterColumns(old, fields))
      <4>1. PlannedAs(c, t, old, TRUE, fields)
        BY <2>3, <3>1, ColumnPlannedAs
      <4>2. exists = TRUE
        BY <3>1 DEF exists
      <4>3. QED BY <4>1, <4>2
    <3>2. CASE \E e \in ToSet(Gathered(t, old, fields, FALSE)) : c = DropIndex(e)
      BY <2>3, <3>2, IndexPlannedAs DEF PlannedAs
    <3>3. CASE \E e \in ToSet(Gathered(t, old, fields, TRUE)) : c = CreateIndex(e)
      BY <2>3, <3>3, IndexPlannedAs DEF PlannedAs
    <3>4. QED BY <2>4, <3>1, <3>2, <3>3 DEF IsTableChange, PlannedAs
  <2>6. QED BY <2>2, <2>5 DEF old, fields, exists
<1>3. QED BY <1>1, <1>2 DEF IsDiffChange

\* A function on a finite set that reaches all of it stays in it.
LEMMA OntoStays ==
  ASSUME NEW S, IsFiniteSet(S), NEW h, \A n \in S : \E k \in S : h[k] = n
  PROVE  \A k \in S : h[k] \in S
<1>1. SUFFICES ASSUME NEW k \in S, h[k] \notin S PROVE FALSE
  OBVIOUS
<1> DEFINE T == S \ {k}
           image == {h[j] : j \in T}
<1>2. IsFiniteSet(T) /\ Cardinality(T) = Cardinality(S) - 1
  BY FS_RemoveElement
<1>3. IsFiniteSet(image) /\ Cardinality(image) <= Cardinality(T)
  <2> DEFINE g == [j \in T |-> h[j]]
  <2>1. g \in Surjection(T, image)
    BY DEF Surjection
  <2>2. QED BY <1>2, <2>1, FS_Surjection
<1>4. S \subseteq image
  <2>1. ASSUME NEW n \in S PROVE n \in image
    <3>1. PICK j \in S : h[j] = n
      OBVIOUS
    <3>2. j # k
      BY <1>1, <3>1
    <3>3. QED BY <3>1, <3>2
  <2>2. QED BY <2>1
<1> HIDE DEF T, image
<1>5. Cardinality(S) <= Cardinality(image)
  BY <1>3, <1>4, FS_Subset
<1>6. Cardinality(S) \in Nat /\ Cardinality(T) \in Nat /\ Cardinality(image) \in Nat
  BY <1>2, <1>3, FS_CardinalityType
<1>7. QED BY <1>2, <1>3, <1>5, <1>6

\* The names of the indexes a column is read with are those of indexes it is part of.
LEMMA NamesAreOfIndexes ==
  ASSUME NEW d, IsDatabase(d), AllWellFormed(d), NEW m \in IndexMaps(d), NEW t \in DOMAIN d,
         ~ReadAsDefault(t, d[t]), NEW col \in ToSet(d[t].columns), Snake[Camel[col.name]] = col.name,
         NEW u \in BOOLEAN, NEW y, InStrings(Names(ReadField(t, d[t], col, m), u), y)
  PROVE  \E x \in d[t].indexes : col.name \in ToSet(x.columns) /\ x.unique = u /\ x.name = y
<1> DEFINE tbl  == d[t]
           key  == <<t, col.name>>
           rows == IndexRows(tbl, col.name)
           row  == IF key \in DOMAIN m THEN {m[key]} ELSE {}
           isPk == col.name \in tbl.pk /\ \E r \in row : r.name = PrimaryName
           keys == {k \in (DOMAIN d) \X Columns : IndexRows(d[k[1]], k[2]) # {}}
<1>1. IsTable(tbl) /\ rows \subseteq Row
  <2>1. IsTable(tbl)
    BY DEF IsDatabase
  <2> HIDE DEF tbl
  <2>2. QED BY <2>1, RowsType
<1>2. DOMAIN m = keys /\ \A k \in keys : m[k] \in IndexRows(d[k[1]], k[2])
  BY DEF IndexMaps
<1>3. key \in keys => m[key] \in rows
  <2>1. key[1] = t /\ key[2] = col.name
    OBVIOUS
  <2> HIDE DEF keys, key
  <2>2. key \in keys => m[key] \in IndexRows(d[key[1]], key[2])
    BY <1>2
  <2>3. QED BY <2>1, <2>2
<1> HIDE DEF keys, key
<1>4. row \subseteq rows /\ Small(row)
  BY <1>2, <1>3 DEF Small
<1>5. ReadField(t, tbl, col, m) = FieldOf(t, col, isPk, row)
  BY DEF ReadField, key
<1>6. \A r \in rows : \/ \E x \in tbl.indexes :
                           col.name \in ToSet(x.columns) /\ r = [name |-> x.name, unique |-> x.unique]
                      \/ col.name \in tbl.pk /\ r = [name |-> PrimaryName, unique |-> TRUE]
  BY RowsOfColumn
<1>7. ~ReadAsDefault(t, tbl) /\ InStrings(Names(ReadField(t, tbl, col, m), u), y)
  OBVIOUS
<1> HIDE DEF tbl, rows
<1>8. isPk \in BOOLEAN
  OBVIOUS
<1>9. ~isPk
  <2>1. CASE isPk
    <3>1. isPk = TRUE
      BY <2>1
    <3>2. QED BY <1>5, <1>7, <3>1, PkHasNoNames
  <2>2. QED BY <1>8, <2>1
<1>10. \A r \in row : \E x \in tbl.indexes :
         col.name \in ToSet(x.columns) /\ r = [name |-> x.name, unique |-> x.unique]
  BY <1>4, <1>6, <1>9
<1> HIDE DEF row, isPk
<1>11. \A r \in row : r.name = AsColumn[col.name] => r.name = DefaultIndex[<<t, col.name>>]
  BY <1>7, <1>10 DEF ReadAsDefault
<1>12. row \subseteq Row
  BY <1>1, <1>4
<1>13. \E r \in row : r.unique = u /\ r.name = y
  <2>1. InStrings(Names(FieldOf(t, col, isPk, row), u), y) <=> ~isPk /\ \E r \in row : r.unique = u /\ r.name = y
    BY <1>4, <1>8, <1>11, <1>12, NamesOfRow
  <2>2. QED BY <1>5, <1>7, <2>1
<1>14. QED BY <1>10, <1>13 DEF tbl

\* The fields are read from columns of the table.
ReadFrom(was, old) ==
  /\ old \in Seq(Field)
  /\ \A o \in ToSet(old) : \E k \in ColumnNames(was) : k \in Columns /\ o.column = Snake[Camel[k]]

\* What a statement that makes no index does to the columns that were read: one it takes away
\* is one of them, it brings none of them, and an index keeps those that stay.
Spares(old, tbl, new) ==
  /\ ColumnNames(tbl) \subseteq ColumnNames(new) \union ColumnsOf(old)
  /\ ColumnNames(new) \intersect ColumnsOf(old) \subseteq ColumnNames(tbl)
  /\ \A z \in new.indexes : \E x \in tbl.indexes :
       /\ z.name = x.name /\ z.unique = x.unique
       /\ ToSet(x.columns) \intersect ColumnsOf(old) \intersect ColumnNames(new) \subseteq ToSet(z.columns)

LEMMA ReadApart ==
  ASSUME NEW was, NEW old, ReadFrom(was, old)
  PROVE  /\ \A o \in ToSet(old) : o.column \in ColumnsOf(old) /\ o \in Field
         /\ \A c \in ColumnsOf(old) :
              c \notin GoNames /\ \E k \in ColumnNames(was) : Snake[Camel[k]] = c
<1>1. \A o \in ToSet(old) : \E m \in DOMAIN old : old[m] = o
  BY DEF ToSet
<1>2. \A m \in DOMAIN old : old[m] \in ToSet(old) /\ old[m] \in Field
  BY Elements DEF ReadFrom
<1>3. \A o \in ToSet(old) : o.column \in ColumnsOf(old) /\ o \in Field
  BY <1>1, <1>2 DEF ColumnsOf
<1>4. ASSUME NEW c \in ColumnsOf(old)
      PROVE  c \notin GoNames /\ \E k \in ColumnNames(was) : Snake[Camel[k]] = c
  <2>1. PICK m \in DOMAIN old : old[m].column = c
    BY DEF ColumnsOf
  <2>2. PICK k \in ColumnNames(was) : k \in Columns /\ Snake[Camel[k]] = c
    BY <1>2, <2>1 DEF ReadFrom
  <2>3. QED BY <2>2, CaseAssumption
<1>5. QED BY <1>3, <1>4

LEMMA AddSpares ==
  ASSUME NEW was, NEW old, ReadFrom(was, old), NEW tbl, IsTable(tbl), NEW f \in Field,
         OldField(old, f) = {}, NEW new \in AddColumnSQL(tbl, AddColumn(f))
  PROVE  Spares(old, tbl, new)
<1>1. new = [tbl EXCEPT !.columns = Append(@, ColumnSQL(f, NewColumn))]
  BY DEF AddColumnSQL, OnlyIf, AddColumn
<1>2. new.indexes = tbl.indexes
  BY <1>1, PartsOfTable
<1>3. /\ IsTable(new)
      /\ ToSet(new.columns) = ToSet(tbl.columns) \union {ColumnSQL(f, NewColumn)}
  BY AddColumnDoes
<1>4. ColumnSQL(f, NewColumn).name = f.column
  BY DEF ColumnSQL
<1>5. ColumnNames(new) = ColumnNames(tbl) \union {f.column}
  BY <1>3, <1>4, PartsOfTable
<1>6. f.column \notin ColumnsOf(old)
  BY DEF OldField, Keyed, ColumnsOf
<1>7. QED BY <1>2, <1>5, <1>6 DEF Spares

LEMMA DropSparesOthers ==
  ASSUME NEW was, NEW old, ReadFrom(was, old), NEW tbl, IsTable(tbl), NEW o \in ToSet(old),
         NEW new \in DropColumnSQL(tbl, DropColumn(o))
  PROVE  Spares(old, tbl, new)
<1> DEFINE gone == o.column
<1>1. o \in Field /\ gone \in ColumnsOf(old)
  BY ReadApart
<1>2. /\ IsTable(new)
      /\ ToSet(new.columns) = {col \in ToSet(tbl.columns) : col.name # gone}
  BY <1>1, DropColumnDoes
<1>3. ColumnNames(new) = ColumnNames(tbl) \ {gone}
  BY <1>2, PartsOfTable
<1>4. new.indexes = {x \in {[x EXCEPT !.columns = Without(@, gone)] : x \in tbl.indexes} : x.columns # <<>>}
  BY DEF DropColumnSQL, OnlyIf, DropColumn
<1>5. ASSUME NEW z \in new.indexes
      PROVE  \E x \in tbl.indexes : /\ z.name = x.name /\ z.unique = x.unique
                                    /\ ToSet(z.columns) = ToSet(x.columns) \ {gone}
  <2>1. PICK x \in tbl.indexes : z = [x EXCEPT !.columns = Without(@, gone)]
    BY <1>4
  <2>2. x \in Index
    BY PartsOfTable
  <2>3. x.columns \in Seq(Columns)
    BY <2>2 DEF Index
  <2>4. z.columns = Without(x.columns, gone) /\ z.name = x.name /\ z.unique = x.unique
    BY <2>1, <2>2 DEF Index
  <2>5. ToSet(Without(x.columns, gone)) = ToSet(x.columns) \ {gone}
    BY <2>3, WithoutElements
  <2>6. QED BY <2>4, <2>5
<1> HIDE DEF gone
<1>6. QED BY <1>1, <1>3, <1>5 DEF Spares

LEMMA ModifySparesOthers ==
  ASSUME NEW was, NEW old, ReadFrom(was, old), NEW tbl, IsTable(tbl), NEW f \in Field,
         NEW o \in ToSet(old), OldField(old, f) = {o},
         NEW new \in ModifyColumnSQL(tbl, ModifyColumn(o, f))
  PROVE  Spares(old, tbl, new)
<1> DEFINE from == o.column
           to == f.column
           Renamed(k) == IF k = from THEN to ELSE k
<1>1. o \in Field /\ from \in ColumnsOf(old)
  BY ReadApart
<1>2. to \in ColumnsOf(old) => to = from
  <2> SUFFICES ASSUME to \in ColumnsOf(old) PROVE to = from
    OBVIOUS
  <2>1. Keyed(old, to) # {}
    BY DEF Keyed, ColumnsOf
  <2>2. o = old[LastOf(Keyed(old, to))]
    BY <2>1 DEF OldField
  <2>3. LastOf(Keyed(old, to)) \in Keyed(old, to)
    <3>1. Keyed(old, to) \in SUBSET (1..Len(old)) /\ Len(old) \in Nat
      BY FieldsOf DEF Keyed, ReadFrom
    <3>2. QED BY <2>1, <3>1, LastOfIsLast
  <2>4. o.column = to \/ o.name = to
    BY <2>2, <2>3 DEF Keyed
  <2>5. to \notin GoNames /\ o.name \in GoNames
    BY <1>1, ReadApart DEF Field
  <2>6. QED BY <2>4, <2>5
<1>3. /\ from \in ColumnNames(tbl)
      /\ new.columns = [n \in DOMAIN tbl.columns |->
                          IF tbl.columns[n].name = from
                            THEN ColumnSQL(f, tbl.columns[n].data) ELSE tbl.columns[n]]
      /\ new.indexes = {[x EXCEPT !.columns = [n \in DOMAIN @ |-> Renamed(@[n])]] : x \in tbl.indexes}
  BY DEF ModifyColumnSQL, OnlyIf, ModifyColumn
<1>4. \A n \in DOMAIN tbl.columns : new.columns[n].name = Renamed(tbl.columns[n].name)
  BY <1>3 DEF ColumnSQL
<1>5. DOMAIN new.columns = DOMAIN tbl.columns
  BY <1>3
<1>6. ASSUME NEW z \in new.indexes
      PROVE  \E x \in tbl.indexes :
               /\ z.name = x.name /\ z.unique = x.unique
               /\ \A k \in ToSet(x.columns) : Renamed(k) \in ToSet(z.columns)
  <2>1. PICK x \in tbl.indexes : z = [x EXCEPT !.columns = [n \in DOMAIN @ |-> Renamed(@[n])]]
    BY <1>3
  <2>2. x \in Index
    BY PartsOfTable
  <2>3. z.columns = [n \in DOMAIN x.columns |-> Renamed(x.columns[n])] /\ z.name = x.name /\ z.unique = x.unique
    BY <2>1, <2>2 DEF Index
  <2>4. ASSUME NEW k \in ToSet(x.columns) PROVE Renamed(k) \in ToSet(z.columns)
    <3>1. PICK n \in DOMAIN x.columns : x.columns[n] = k
      BY DEF ToSet
    <3>2. n \in DOMAIN z.columns /\ z.columns[n] = Renamed(k)
      BY <2>3, <3>1
    <3>3. QED BY <3>2 DEF ToSet
  <2>5. QED BY <2>3, <2>4
<1>7. ColumnNames(new) = {Renamed(k) : k \in ColumnNames(tbl)}
  BY <1>4, <1>5 DEF ColumnNames
<1> HIDE DEF from, to
<1>8. \A k \in ColumnNames(new) : k = to \/ (k \in ColumnNames(tbl) /\ k # from)
  BY <1>7
<1>9. ColumnNames(tbl) \subseteq ColumnNames(new) \union {from}
  BY <1>7
<1>10. ColumnNames(new) \intersect ColumnsOf(old) \subseteq ColumnNames(tbl)
  BY <1>2, <1>3, <1>8
<1>11. ASSUME NEW z \in new.indexes, NEW x \in tbl.indexes,
              \A k \in ToSet(x.columns) : Renamed(k) \in ToSet(z.columns)
       PROVE  ToSet(x.columns) \intersect ColumnsOf(old) \intersect ColumnNames(new) \subseteq ToSet(z.columns)
  BY <1>8, <1>11
<1>12. QED BY <1>1, <1>6, <1>9, <1>10, <1>11 DEF Spares

LEMMA OthersSpare ==
  ASSUME NEW was, NEW old, ReadFrom(was, old), NEW tbl, IsTable(tbl), NEW c \in Change,
         c.op \in {"modifyPrimaryKey", "dropIndex"}, NEW new \in AlterTable(tbl, c)
  PROVE  Spares(old, tbl, new)
<1>1. new.columns = tbl.columns
  BY OtherAlterations
<1>2. ColumnNames(new) = ColumnNames(tbl)
  BY <1>1 DEF ColumnNames
<1>3. new.indexes \subseteq tbl.indexes
  <2>1. tbl = [columns |-> tbl.columns, pk |-> tbl.pk, indexes |-> tbl.indexes]
    BY PartsOfTable
  <2>2. CASE c.op = "modifyPrimaryKey"
    BY <2>1, <2>2 DEF AlterTable, ModifyPrimaryKeySQL, OnlyIf
  <2>3. CASE c.op = "dropIndex"
    BY <2>1, <2>3 DEF AlterTable, DropIndexSQL, OnlyIf
  <2>4. QED BY <2>2, <2>3
<1>4. QED BY <1>2, <1>3 DEF Spares

\* A statement that makes no index, planned for what was read of the table.
LEMMA PlannedSpares ==
  ASSUME NEW was, NEW old, ReadFrom(was, old), NEW tbl, IsTable(tbl), NEW t, NEW fields \in Seq(Field),
         NEW c \in Change, PlannedAs(c, t, old, TRUE, fields), c.op # "createIndex",
         NEW new \in AlterTable(tbl, c)
  PROVE  Spares(old, tbl, new)
<1>1. CASE \E f \in ToSet(fields) : c = AddColumn(f) /\ OldField(old, f) = {}
  <2>1. PICK f \in ToSet(fields) : c = AddColumn(f) /\ OldField(old, f) = {}
    BY <1>1
  <2>2. f \in Field /\ c.op = "addColumn"
    BY <2>1, Elements DEF AddColumn
  <2>3. new \in AddColumnSQL(tbl, AddColumn(f))
    BY <2>1, <2>2 DEF AlterTable
  <2>4. QED BY <2>1, <2>2, <2>3, AddSpares
<1>2. CASE \E o \in ToSet(old) : c = DropColumn(o) /\ IsDropped(fields, o)
  <2>1. PICK o \in ToSet(old) : c = DropColumn(o)
    BY <1>2
  <2>2. c.op = "dropColumn"
    BY <2>1 DEF DropColumn
  <2>3. new \in DropColumnSQL(tbl, DropColumn(o))
    BY <2>1, <2>2 DEF AlterTable
  <2>4. QED BY <2>3, DropSparesOthers
<1>3. CASE \E f \in ToSet(fields), o \in ToSet(old) : c = ModifyColumn(o, f) /\ OldField(old, f) = {o}
  <2>1. PICK f \in ToSet(fields), o \in ToSet(old) : c = ModifyColumn(o, f) /\ OldField(old, f) = {o}
    BY <1>3
  <2>2. f \in Field /\ c.op = "modifyColumn"
    BY <2>1, Elements DEF ModifyColumn
  <2>3. new \in ModifyColumnSQL(tbl, ModifyColumn(o, f))
    BY <2>1, <2>2 DEF AlterTable
  <2>4. QED BY <2>1, <2>2, <2>3, ModifySparesOthers
<1>4. CASE c = ModifyPrimaryKey(t, old, fields) \/ \E e : c = DropIndex(e)
  <2>1. c.op \in {"modifyPrimaryKey", "dropIndex"}
    BY <1>4 DEF ModifyPrimaryKey, DropIndex
  <2>2. QED BY <2>1, OthersSpare
<1>5. CASE \E e : c = CreateIndex(e)
  BY <1>5 DEF CreateIndex
<1>6. QED BY <1>1, <1>2, <1>3, <1>4, <1>5 DEF PlannedAs

\* Since the table was read, a column has gone only where another is read under its name, and,
\* as long as no index was made, one that is left has the columns it had of those that were
\* read.
Traced(was, tbl) ==
  \A n \in ColumnNames(was) :
    n \in ColumnNames(tbl) \/ \E k \in ColumnNames(was) : Snake[Camel[k]] = n
IndexesHeld(was, old, tbl) ==
  \A x \in was.indexes, z \in tbl.indexes : z.name = x.name =>
    /\ z.unique = x.unique
    /\ ToSet(x.columns) \intersect ColumnsOf(old) \intersect ColumnNames(tbl) \subseteq ToSet(z.columns)

LEMMA NothingTracedYet ==
  ASSUME NEW t, NEW tbl, WellFormed(t, tbl), NEW old
  PROVE  Traced(tbl, tbl) /\ IndexesHeld(tbl, old, tbl)
<1>1. \A x, z \in tbl.indexes : z.name = x.name => z = x
  BY DEF WellFormed
<1>2. QED BY <1>1 DEF Traced, IndexesHeld

LEMMA SparesTraced ==
  ASSUME NEW was, NEW old, ReadFrom(was, old), NEW tbl, NEW new, Spares(old, tbl, new)
  PROVE  /\ Traced(was, tbl) => Traced(was, new)
         /\ IndexesHeld(was, old, tbl) => IndexesHeld(was, old, new)
<1>1. \A c \in ColumnsOf(old) : \E k \in ColumnNames(was) : Snake[Camel[k]] = c
  BY ReadApart
<1>2. ASSUME Traced(was, tbl), NEW n \in ColumnNames(was)
      PROVE  n \in ColumnNames(new) \/ \E k \in ColumnNames(was) : Snake[Camel[k]] = n
  BY <1>1, <1>2 DEF Traced, Spares
<1>3. ASSUME IndexesHeld(was, old, tbl), NEW x \in was.indexes, NEW z \in new.indexes, z.name = x.name
      PROVE  /\ z.unique = x.unique
             /\ ToSet(x.columns) \intersect ColumnsOf(old) \intersect ColumnNames(new)
                  \subseteq ToSet(z.columns)
  <2>1. PICK y \in tbl.indexes :
          /\ z.name = y.name /\ z.unique = y.unique
          /\ ToSet(y.columns) \intersect ColumnsOf(old) \intersect ColumnNames(new) \subseteq ToSet(z.columns)
    BY DEF Spares
  <2>2. /\ y.unique = x.unique
        /\ ToSet(x.columns) \intersect ColumnsOf(old) \intersect ColumnNames(tbl) \subseteq ToSet(y.columns)
    BY <1>3, <2>1 DEF IndexesHeld
  <2>3. ColumnNames(new) \intersect ColumnsOf(old) \subseteq ColumnNames(tbl)
    BY DEF Spares
  <2>4. QED BY <2>1, <2>2, <2>3
<1>4. QED BY <1>2, <1>3 DEF Traced, IndexesHeld

\* Making an index changes no column.
LEMMA CreateTraced ==
  ASSUME NEW was, NEW tbl, IsTable(tbl), Traced(was, tbl), NEW c \in Change, c.op = "createIndex",
         NEW new \in AlterTable(tbl, c)
  PROVE  Traced(was, new)
<1>1. new.columns = tbl.columns
  BY OtherAlterations
<1>2. QED BY <1>1 DEF Traced, ColumnNames

\* The columns that are read under another name are still there, if all that are there are
\* read under their own.
LEMMA ReadUnderOwnName ==
  ASSUME NEW was, IsTable(was), NEW tbl, Traced(was, tbl),
         \A c \in ColumnNames(tbl) : Snake[Camel[c]] = c,
         NEW k \in ColumnNames(was), Snake[Camel[Snake[Camel[k]]]] = Snake[Camel[k]]
  PROVE  Snake[Camel[k]] = k
<1> DEFINE S == {n \in ColumnNames(was) : Snake[Camel[n]] # n}
           h == [n \in ColumnNames(was) |-> Snake[Camel[n]]]
<1>1. IsFiniteSet(ColumnNames(was))
  <2> DEFINE cols == was.columns
             g == [n \in DOMAIN cols |-> cols[n].name]
  <2>1. DOMAIN cols = 1..Len(cols) /\ Len(cols) \in Nat
    BY PartsOfTable, Elements
  <2>2. IsFiniteSet(DOMAIN cols)
    <3>1. PICK m \in Nat : DOMAIN cols = 1..m
      BY <2>1
    <3>2. IsFiniteSet(1..m)
      BY FS_Interval
    <3> HIDE DEF cols
    <3>3. QED BY <3>1, <3>2
  <2>3. g \in Surjection(DOMAIN cols, ColumnNames(was))
    BY DEF Surjection, ColumnNames
  <2>4. QED BY <2>2, <2>3, FS_Surjection
<1>2. IsFiniteSet(S)
  BY <1>1, FS_Subset
<1>3. ASSUME NEW n \in S PROVE \E j \in S : h[j] = n
  <2>1. n \notin ColumnNames(tbl)
    OBVIOUS
  <2>2. PICK j \in ColumnNames(was) : Snake[Camel[j]] = n
    BY <2>1 DEF Traced
  <2>3. Snake[Camel[j]] # j
    BY <2>2
  <2>4. QED BY <2>2, <2>3
<1> HIDE DEF S
<1>4. \A j \in S : h[j] \in S
  BY <1>2, <1>3, OntoStays
<1>5. QED BY <1>4 DEF S

\* The names of the indexes a column was read with are those of indexes of it, if it was read
\* under its own name.
IndexedFrom(was, old) ==
  \A o \in ToSet(old), u \in BOOLEAN : \A y : InStrings(Names(o, u), y) =>
    \E k \in ColumnNames(was) :
      /\ o.column = Snake[Camel[k]]
      /\ Snake[Camel[k]] = k => \E x \in was.indexes : k \in ToSet(x.columns) /\ x.unique = u /\ x.name = y

\* A table that has become what is declared since it was read.
Settled(t, was, old, tbl, fields) ==
  /\ t \in Tables /\ fields \in Seq(Field) /\ ~Ambiguous(t, fields)
  /\ IsTable(was) /\ WellFormed(t, was) /\ IsTable(tbl) /\ WellFormed(t, tbl)
  /\ ReadFrom(was, old) /\ IndexedFrom(was, old)
  /\ Traced(was, tbl)
  /\ ~Respelled(tbl, fields)
  /\ {<<c.name, c.def>> : c \in ToSet(tbl.columns)}
       = {<<c.name, c.def>> : c \in ToSet(Built(t, fields).columns)}
  /\ tbl.pk = PkColumns(fields) /\ tbl.indexes = Declared(t, fields)

LEMMA SettledColumns ==
  ASSUME NEW t, NEW was, NEW old, NEW tbl, NEW fields, Settled(t, was, old, tbl, fields)
  PROVE  /\ ColumnNames(tbl) = ColumnsOf(fields)
         /\ \A f \in ToSet(fields) : f.column \in ColumnNames(tbl)
         /\ \A col \in ToSet(tbl.columns), f \in ToSet(fields) :
              col.name = f.column => col.def = f.def
<1> DEFINE built == Built(t, fields).columns
<1>1. fields \in Seq(Field) /\ ~Repeated(fields)
  BY DEF Settled, Ambiguous
<1>2. /\ DOMAIN built = DOMAIN fields
      /\ \A n \in DOMAIN fields : built[n].name = fields[n].column /\ built[n].def = fields[n].def
  BY DEF Built
<1>3. /\ \A n \in DOMAIN fields : fields[n] \in ToSet(fields) /\ built[n] \in ToSet(built)
      /\ \A f \in ToSet(fields) : \E n \in DOMAIN fields : f = fields[n]
      /\ \A c \in ToSet(built) : \E n \in DOMAIN fields : c = built[n]
  BY <1>2 DEF ToSet
<1>4. {<<c.name, c.def>> : c \in ToSet(tbl.columns)} = {<<c.name, c.def>> : c \in ToSet(built)}
  BY DEF Settled
<1>5. ColumnNames(tbl) = {col.name : col \in ToSet(tbl.columns)}
  BY PartsOfTable DEF Settled
<1> HIDE DEF built
<1>6. \A c \in ToSet(tbl.columns) : \E b \in ToSet(built) : c.name = b.name /\ c.def = b.def
  <2>1. TAKE c \in ToSet(tbl.columns)
  <2>2. <<c.name, c.def>> \in {<<b.name, b.def>> : b \in ToSet(built)}
    BY <1>4
  <2>3. QED BY <2>2
<1>7. \A b \in ToSet(built) : \E c \in ToSet(tbl.columns) : c.name = b.name /\ c.def = b.def
  <2>1. TAKE b \in ToSet(built)
  <2>2. <<b.name, b.def>> \in {<<c.name, c.def>> : c \in ToSet(tbl.columns)}
    BY <1>4
  <2>3. QED BY <2>2
<1>8. \A f \in ToSet(fields) : f.column \in ColumnNames(tbl)
  BY <1>2, <1>3, <1>5, <1>7
<1>9. ColumnNames(tbl) = ColumnsOf(fields)
  <2>1. ColumnNames(tbl) \subseteq ColumnsOf(fields)
    BY <1>2, <1>3, <1>5, <1>6 DEF ColumnsOf
  <2>2. ColumnsOf(fields) \subseteq ColumnNames(tbl)
    BY <1>3, <1>8 DEF ColumnsOf
  <2>3. QED BY <2>1, <2>2
<1>10. ASSUME NEW col \in ToSet(tbl.columns), NEW f \in ToSet(fields), col.name = f.column
       PROVE  col.def = f.def
  <2>1. PICK n \in DOMAIN fields : col.name = fields[n].column /\ col.def = fields[n].def
    BY <1>2, <1>3, <1>6
  <2>2. PICK k \in DOMAIN fields : f = fields[k]
    BY <1>3
  <2>3. n = k
    BY <1>1, <1>10, <2>1, <2>2 DEF Repeated, IsInjective
  <2>4. QED BY <2>1, <2>2, <2>3
<1>11. QED BY <1>8, <1>9, <1>10

\* An index that is there is not one that is to go.
LEMMA SettledDrops ==
  ASSUME NEW t, NEW was, NEW old, NEW tbl, NEW fields, Settled(t, was, old, tbl, fields),
         IndexesHeld(was, old, tbl), NEW y, Unnames(old, fields, y)
  PROVE  y # PrimaryName /\ y \notin IndexNamesOf(tbl)
<1>1. PICK n \in DOMAIN fields, u \in BOOLEAN :
        InStrings(OldNames(old, fields[n], u), y) /\ ~InStrings(Names(fields[n], u), y)
  BY DEF Unnames
<1> DEFINE f == fields[n]
<1>2. old \in Seq(Field) /\ fields \in Seq(Field) /\ t \in Tables
  BY DEF Settled, ReadFrom
<1>3. PICK o \in ToSet(old) : o.column = f.column /\ InStrings(Names(o, u), y)
  <2> DEFINE S == ByColumn(old, f.column)
  <2>1. DOMAIN old = 1..Len(old) /\ Len(old) \in Nat
    BY <1>2, FieldsOf
  <2>2. S \in SUBSET (1..Len(old)) /\ \A m \in S : m \in DOMAIN old /\ old[m].column = f.column
    BY <2>1 DEF ByColumn
  <2>3. S # {}
    BY <1>1 DEF OldNames, InStrings
  <2>4. OldNames(old, f, u) = Names(old[LastOf(S)], u)
    BY <2>3 DEF OldNames, Names
  <2> HIDE DEF S
  <2>5. LastOf(S) \in S
    BY <2>1, <2>2, <2>3, LastOfIsLast
  <2>6. old[LastOf(S)] \in ToSet(old)
    BY <2>2, <2>5 DEF ToSet
  <2>7. QED BY <1>1, <2>2, <2>4, <2>5, <2>6
<1>4. f \in ToSet(fields) /\ f.column \in ColumnsOf(fields)
  BY DEF ToSet, ColumnsOf
<1>5. \A c \in ColumnNames(tbl) \union ColumnsOf(fields) : Snake[Camel[c]] = c
  BY DEF Settled, Respelled
<1>6. PICK k \in ColumnNames(was) :
        /\ o.column = Snake[Camel[k]]
        /\ Snake[Camel[k]] = k =>
             \E x \in was.indexes : k \in ToSet(x.columns) /\ x.unique = u /\ x.name = y
  BY <1>3 DEF Settled, IndexedFrom
<1>7. Snake[Camel[k]] = k
  <2>1. Snake[Camel[Snake[Camel[k]]]] = Snake[Camel[k]]
    BY <1>3, <1>4, <1>5, <1>6
  <2>2. IsTable(was) /\ Traced(was, tbl)
    BY DEF Settled
  <2>3. QED BY <1>5, <2>1, <2>2, ReadUnderOwnName
<1>8. PICK x \in was.indexes : k \in ToSet(x.columns) /\ x.unique = u /\ x.name = y
  BY <1>6, <1>7
<1>9. y # PrimaryName
  BY <1>8 DEF Settled, WellFormed
<1>10. ASSUME NEW z \in tbl.indexes, z.name = y PROVE FALSE
  <2>1. z.unique = u
    BY <1>8, <1>10 DEF IndexesHeld
  <2>2. k = f.column
    BY <1>3, <1>6, <1>7
  <2>3. k \in ColumnsOf(old) /\ k \in ColumnNames(tbl)
    <3>1. k \in ColumnsOf(old)
      BY <1>3, <2>2 DEF ColumnsOf, ToSet
    <3>2. k \in ColumnNames(tbl)
      BY <1>4, <2>2, SettledColumns
    <3>3. QED BY <3>1, <3>2
  <2>4. k \in ToSet(z.columns)
    BY <1>8, <1>10, <2>3 DEF IndexesHeld
  <2>5. z \in Declared(t, fields)
    BY <1>10 DEF Settled
  <2>6. PICK j \in DOMAIN fields : fields[j].column = k /\ InStrings(Names(fields[j], u), y)
    <3>1. IsDeclared(z, t, fields)
      BY <1>2, <2>5, DeclaredIndexes
    <3>2. QED BY <1>10, <2>1, <2>4, <3>1 DEF IsDeclared
  <2>7. ~Repeated(fields)
    BY DEF Settled, Ambiguous
  <2>8. j = n
    BY <2>2, <2>6, <2>7 DEF Repeated, IsInjective
  <2>9. QED BY <1>1, <2>6, <2>8
<1>11. QED BY <1>9, <1>10 DEF IndexNamesOf

LEMMA SettledModifies ==
  ASSUME NEW t, NEW was, NEW old, NEW tbl, NEW fields, Settled(t, was, old, tbl, fields),
         NEW f \in ToSet(fields), NEW o, NEW new \in ModifyColumnSQL(tbl, ModifyColumn(o, f))
  PROVE  new = tbl
<1> DEFINE from == o.column
           to == f.column
           Renamed(k) == IF k = from THEN to ELSE k
           cols == [n \in DOMAIN tbl.columns |->
                      IF tbl.columns[n].name = from THEN ColumnSQL(f, tbl.columns[n].data)
                      ELSE tbl.columns[n]]
           idx == {[x EXCEPT !.columns = [n \in DOMAIN @ |-> Renamed(@[n])]] : x \in tbl.indexes}
<1>1. /\ from \in ColumnNames(tbl) /\ to \notin ColumnNames(tbl) \ {from}
      /\ new = [columns |-> cols, pk |-> {Renamed(k) : k \in tbl.pk}, indexes |-> idx]
  BY DEF ModifyColumnSQL, ModifyColumn, OnlyIf
<1>2. to = from
  BY <1>1, SettledColumns
<1>3. IsTable(tbl)
  BY DEF Settled
<1>4. tbl.columns \in Seq(Column) /\ tbl = [columns |-> tbl.columns, pk |-> tbl.pk, indexes |-> tbl.indexes]
      /\ \A x \in tbl.indexes : x \in Index
  BY <1>3, PartsOfTable
<1>5. cols = tbl.columns
  <2>1. ASSUME NEW n \in DOMAIN tbl.columns, tbl.columns[n].name = from
        PROVE  ColumnSQL(f, tbl.columns[n].data) = tbl.columns[n]
    <3> DEFINE col == tbl.columns[n]
    <3>1. col \in ToSet(tbl.columns) /\ col \in Column
      BY <1>4, Elements DEF ToSet
    <3>2. col.def = f.def
      BY <1>2, <2>1, <3>1, SettledColumns
    <3> HIDE DEF col
    <3>3. col.name = f.column
      BY <1>2, <2>1 DEF col
    <3>4. ColumnSQL(f, col.data) = col
      BY <3>1, <3>2, <3>3 DEF ColumnSQL, Column
    <3>5. QED BY <3>4 DEF col
  <2>2. \A n \in DOMAIN tbl.columns : cols[n] = tbl.columns[n]
    BY <2>1
  <2>3. DOMAIN cols = DOMAIN tbl.columns /\ tbl.columns = [n \in DOMAIN tbl.columns |-> tbl.columns[n]]
    BY <1>4
  <2>4. QED BY <2>2, <2>3
<1>6. \A k : Renamed(k) = k
  BY <1>2
<1>7. idx = tbl.indexes
  <2>1. ASSUME NEW x \in tbl.indexes
        PROVE  [x EXCEPT !.columns = [n \in DOMAIN @ |-> Renamed(@[n])]] = x
    <3>1. x \in Index /\ x.columns \in Seq(Columns)
      BY <1>4 DEF Index
    <3>2. x.columns = [n \in DOMAIN x.columns |-> x.columns[n]]
      BY <3>1
    <3> HIDE DEF Renamed
    <3>3. [n \in DOMAIN x.columns |-> Renamed(x.columns[n])] = x.columns
      BY <1>6, <3>2
    <3>4. QED BY <3>1, <3>3 DEF Index
  <2> HIDE DEF Renamed
  <2>2. QED BY <2>1
<1>8. {Renamed(k) : k \in tbl.pk} = tbl.pk
  BY <1>6
<1> HIDE DEF cols, idx, Renamed
<1>9. QED BY <1>1, <1>4, <1>5, <1>7, <1>8

\* No statement that was planned alters the table any more.
LEMMA SettledStays ==
  ASSUME NEW t, NEW was, NEW old, NEW tbl, NEW fields, Settled(t, was, old, tbl, fields),
         NEW c, PlannedAs(c, t, old, TRUE, fields), c.op = "dropIndex" => IndexesHeld(was, old, tbl),
         NEW new \in AlterTable(tbl, c)
  PROVE  new = tbl
<1>1. CASE \E f \in ToSet(fields) : c = AddColumn(f) /\ OldField(old, f) = {}
  <2>1. PICK f \in ToSet(fields) : c = AddColumn(f)
    BY <1>1
  <2>2. AlterTable(tbl, c) = AddColumnSQL(tbl, c) /\ c.new = f
    BY <2>1 DEF AlterTable, AddColumn
  <2>3. f.column \in ColumnNames(tbl)
    BY SettledColumns
  <2>4. QED BY <2>2, <2>3 DEF AddColumnSQL, OnlyIf
<1>2. CASE \E o \in ToSet(old) : c = DropColumn(o) /\ IsDropped(fields, o)
  <2>1. PICK o \in ToSet(old) : c = DropColumn(o) /\ IsDropped(fields, o)
    BY <1>2
  <2>2. AlterTable(tbl, c) = DropColumnSQL(tbl, c) /\ c.old = o
    BY <2>1 DEF AlterTable, DropColumn
  <2>3. o.column \notin ColumnsOf(fields)
    BY <2>1 DEF IsDropped, Keyed, ColumnsOf
  <2>4. o.column \notin ColumnNames(tbl)
    BY <2>3, SettledColumns
  <2>5. QED BY <2>2, <2>4 DEF DropColumnSQL, OnlyIf
<1>3. CASE \E f \in ToSet(fields), o \in ToSet(old) : c = ModifyColumn(o, f) /\ OldField(old, f) = {o}
  <2>1. PICK f \in ToSet(fields), o \in ToSet(old) : c = ModifyColumn(o, f)
    BY <1>3
  <2>2. AlterTable(tbl, c) = ModifyColumnSQL(tbl, ModifyColumn(o, f))
    BY <2>1 DEF AlterTable, ModifyColumn
  <2>3. QED BY <2>2, SettledModifies
<1>4. CASE c = ModifyPrimaryKey(t, old, fields)
  <2>1. AlterTable(tbl, c) = ModifyPrimaryKeySQL(tbl, c) /\ c.newPk = PkColumns(fields)
    BY <1>4 DEF AlterTable, ModifyPrimaryKey
  <2>2. new = [tbl EXCEPT !.pk = PkColumns(fields)]
    BY <2>1 DEF ModifyPrimaryKeySQL, OnlyIf
  <2>3. tbl = [columns |-> tbl.columns, pk |-> tbl.pk, indexes |-> tbl.indexes] /\ tbl.pk = PkColumns(fields)
    BY PartsOfTable DEF Settled
  <2>4. QED BY <2>2, <2>3
<1>5. CASE \E e : c = DropIndex(e) /\ Unnames(old, fields, e.name)
  <2>1. PICK e : c = DropIndex(e) /\ Unnames(old, fields, e.name)
    BY <1>5
  <2>2. AlterTable(tbl, c) = DropIndexSQL(tbl, c) /\ c.op = "dropIndex" /\ c.index = e
    BY <2>1 DEF AlterTable, DropIndex
  <2>3. e.name # PrimaryName /\ e.name \notin IndexNamesOf(tbl)
    BY <2>1, <2>2, SettledDrops
  <2>4. QED BY <2>2, <2>3 DEF DropIndexSQL, OnlyIf
<1>6. CASE \E e : c = CreateIndex(e) /\ \E y \in Declared(t, fields) : y.name = e.name
  <2>1. PICK e : c = CreateIndex(e) /\ \E y \in Declared(t, fields) : y.name = e.name
    BY <1>6
  <2>2. AlterTable(tbl, c) = CreateIndexSQL(tbl, c) /\ c.index = e
    BY <2>1 DEF AlterTable, CreateIndex
  <2>3. e.name \in IndexNamesOf(tbl)
    BY <2>1 DEF IndexNamesOf, Settled
  <2>4. QED BY <2>2, <2>3 DEF CreateIndexSQL, OnlyIf
<1>7. QED BY <1>1, <1>2, <1>3, <1>4, <1>5, <1>6 DEF PlannedAs

\* The fields of a table that was read come from its columns and indexes.
LEMMA FieldsReadFrom ==
  ASSUME NEW b, IsDatabase(b), AllWellFormed(b), NEW m \in IndexMaps(b), IsSchema(ReadTables(b, m)),
         NEW t \in DOMAIN b
  PROVE  /\ ReadFrom(b[t], ReadTables(b, m)[t])
         /\ ~ReadAsDefault(t, b[t]) => IndexedFrom(b[t], ReadTables(b, m)[t])
<1> DEFINE old == ReadTables(b, m)[t]
           cols == b[t].columns
<1>1. /\ old = [n \in DOMAIN cols |-> ReadField(t, b[t], cols[n], m)]
      /\ t \in DOMAIN ReadTables(b, m)
  BY DEF ReadTables
<1>2. old \in Seq(Field)
  BY <1>1 DEF IsSchema
<1>3. /\ \A n \in DOMAIN cols : cols[n] \in ToSet(cols)
      /\ ToSet(cols) = {cols[n] : n \in DOMAIN cols}
      /\ ToSet(old) = {old[n] : n \in DOMAIN old}
  BY DEF ToSet
<1>4. IsTable(b[t])
  BY DEF IsDatabase
<1>5. \A col \in ToSet(cols) : col \in Column /\ col.name \in ColumnNames(b[t]) /\ col.name \in Columns
  <2>1. cols \in Seq(Column) /\ ColumnNames(b[t]) = {col.name : col \in ToSet(cols)}
    BY <1>4, PartsOfTable
  <2> HIDE DEF cols
  <2>2. \A col \in ToSet(cols) : col \in Column
    BY <2>1, Elements
  <2>3. QED BY <2>1, <2>2 DEF Column
<1>6. \A o \in ToSet(old) : \E col \in ToSet(cols) :
        o = ReadField(t, b[t], col, m) /\ o.column = Snake[Camel[col.name]]
  <2>1. TAKE o \in ToSet(old)
  <2>2. PICK n \in DOMAIN old : o = old[n]
    BY <1>3
  <2>3. n \in DOMAIN cols /\ o = ReadField(t, b[t], cols[n], m)
    BY <1>1, <2>2, SMTT(30)
  <2>4. o.column = Snake[Camel[cols[n].name]]
    BY <2>3 DEF ReadField, FieldOf
  <2>5. QED BY <1>3, <2>3, <2>4
<1> HIDE DEF old, cols
<1>7. ReadFrom(b[t], old)
  BY <1>2, <1>5, <1>6 DEF ReadFrom
<1>8. ASSUME ~ReadAsDefault(t, b[t]), NEW o \in ToSet(old), NEW u \in BOOLEAN, NEW y, InStrings(Names(o, u), y)
      PROVE  \E k \in ColumnNames(b[t]) :
               /\ o.column = Snake[Camel[k]]
               /\ Snake[Camel[k]] = k =>
                    \E x \in b[t].indexes : k \in ToSet(x.columns) /\ x.unique = u /\ x.name = y
  <2>1. PICK col \in ToSet(cols) : o = ReadField(t, b[t], col, m) /\ o.column = Snake[Camel[col.name]]
    BY <1>6
  <2>2. Snake[Camel[col.name]] = col.name =>
          \E x \in b[t].indexes : col.name \in ToSet(x.columns) /\ x.unique = u /\ x.name = y
    BY <1>8, <2>1, NamesAreOfIndexes DEF cols
  <2>3. QED BY <1>5, <2>1, <2>2
<1>9. QED BY <1>7, <1>8 DEF IndexedFrom, old

\* A plan made from what was read of a database, and what has come of its tables since.
PlanFrom(b, m, s, D) ==
  /\ IsDatabase(b) /\ AllWellFormed(b) /\ m \in IndexMaps(b)
  /\ IsSchema(s) /\ IsSchema(ReadTables(b, m))
  /\ \A c \in D : IsDiffChange(c, s, ReadTables(b, m), TRUE)
SinceRead(b, m, d, D) ==
  \A t \in DOMAIN b \intersect DOMAIN d :
    /\ Traced(b[t], d[t])
    /\ (\E c \in D : c.op = "dropIndex" /\ c.table = t) =>
         IndexesHeld(b[t], ReadTables(b, m)[t], d[t])

\* What the plan has for a table that was read, and for one that was not.
LEMMA PlanFromCases ==
  ASSUME NEW b, NEW m, NEW s, NEW D, PlanFrom(b, m, s, D), NEW c \in D
  PROVE  \/ DOMAIN s = {} /\ c.op = "dropTable"
         \/ /\ c.table \in DOMAIN s /\ c.table \in DOMAIN b
            /\ PlannedAs(c, c.table, ReadTables(b, m)[c.table], TRUE, s[c.table])
            /\ c.op \notin {"createTable", "dropTable"}
         \/ /\ c.table \in DOMAIN s /\ c.table \notin DOMAIN b
            /\ \/ c.op = "createTable"
               \/ \E e : c = CreateIndex(e) /\ \E y \in Declared(c.table, s[c.table]) : y.name = e.name
<1> DEFINE tables == ReadTables(b, m)
           t == c.table
           old == OldOf(tables, t)
<1>1. DOMAIN tables = DOMAIN b
  BY DEF ReadTables
<1>2. IsSchema(s) /\ IsSchema(tables) /\ IsDiffChange(c, s, tables, TRUE)
  BY DEF PlanFrom
<1> HIDE DEF tables
<1>3. \/ DOMAIN s = {} /\ c.op = "dropTable"
      \/ t \in DOMAIN s /\ PlannedAs(c, t, old, t \in DOMAIN tables, s[t])
  BY <1>2, ChangePlannedAs
<1>4. CASE t \in DOMAIN s /\ PlannedAs(c, t, old, t \in DOMAIN tables, s[t]) /\ t \in DOMAIN tables
  <2>1. old = tables[t] /\ (t \in DOMAIN tables) = TRUE
    BY <1>4 DEF OldOf
  <2> HIDE DEF old
  <2>2. PlannedAs(c, t, tables[t], TRUE, s[t])
    BY <1>4, <2>1
  <2>3. c.op \notin {"createTable", "dropTable"}
    BY <2>2 DEF PlannedAs, AddColumn, DropColumn, ModifyColumn, ModifyPrimaryKey, DropIndex, CreateIndex
  <2>4. QED BY <1>1, <1>4, <2>2, <2>3 DEF tables
<1>5. CASE t \in DOMAIN s /\ PlannedAs(c, t, old, t \in DOMAIN tables, s[t]) /\ t \notin DOMAIN tables
  <2>1. old = <<>> /\ (t \in DOMAIN tables) = FALSE
    BY <1>5 DEF OldOf
  <2> HIDE DEF old
  <2>2. PlannedAs(c, t, <<>>, FALSE, s[t])
    BY <1>5, <2>1
  <2>3. \A y : ~Unnames(<<>>, s[t], y)
    <3>1. \A f, u : OldNames(<<>>, f, u) = <<>>
      BY DEF OldNames, ByColumn
    <3>2. QED BY <3>1 DEF Unnames, InStrings
  <2>4. c.op = "createTable"
        \/ \E e : c = CreateIndex(e) /\ \E y \in Declared(t, s[t]) : y.name = e.name
    BY <2>2, <2>3 DEF PlannedAs, CreateTable
  <2>5. QED BY <1>1, <1>5, <2>4
<1>6. QED BY <1>3, <1>4, <1>5

\* A statement of the plan leaves the tables traced.
LEMMA StatementSince ==
  ASSUME NEW d, IsDatabase(d), NEW b, NEW m, NEW s, NEW D, PlanFrom(b, m, s, D), SinceRead(b, m, d, D),
         NEW c \in Change, NEW R, Done(D, c, R),
         c.op = "createIndex" => \A e \in R : ~(e.op = "dropIndex" /\ e.table = c.table),
         NEW new \in Result(d, c)
  PROVE  PlanFrom(b, m, s, R) /\ SinceRead(b, m, new, R)
<1> DEFINE tables == ReadTables(b, m)
<1>1. R \subseteq D /\ c \in D
  BY DEF Done
<1>2. PlanFrom(b, m, s, R)
  BY <1>1 DEF PlanFrom
<1>3. ASSUME NEW t \in DOMAIN b \intersect DOMAIN new, t \in DOMAIN d /\ new[t] = d[t]
      PROVE  /\ Traced(b[t], new[t])
             /\ (\E e \in R : e.op = "dropIndex" /\ e.table = t) => IndexesHeld(b[t], tables[t], new[t])
  BY <1>1, <1>3 DEF SinceRead
<1>4. CASE \A t \in DOMAIN b \intersect DOMAIN new : t \in DOMAIN d /\ new[t] = d[t]
  <2>1. SinceRead(b, m, new, R)
    BY <1>3, <1>4 DEF SinceRead
  <2>2. QED BY <1>2, <2>1
<1>5. CASE /\ c.op \notin {"createTable", "dropTable"} /\ c.table \in DOMAIN d \intersect DOMAIN b
           /\ \E tbl \in AlterTable(d[c.table], c) : new = WithTable(d, c.table, tbl)
  <2> DEFINE t == c.table
             was == b[t]
             old == tables[t]
  <2>1. PICK tbl \in AlterTable(d[t], c) : new = WithTable(d, t, tbl)
    BY <1>5
  <2>2. /\ new[t] = tbl /\ DOMAIN new = DOMAIN d
        /\ \A u \in DOMAIN new : u # t => new[u] = d[u]
    BY <1>5, <2>1 DEF WithTable
  <2>3. t \in DOMAIN s /\ PlannedAs(c, t, old, TRUE, s[t])
    BY <1>1, <1>5, PlanFromCases
  <2>4. ReadFrom(was, old) /\ s[t] \in Seq(Field)
    <3>1. ReadFrom(was, old)
      BY <1>5, FieldsReadFrom DEF PlanFrom
    <3>2. QED BY <2>3, <3>1 DEF PlanFrom, IsSchema
  <2>5. IsTable(d[t])
    BY <1>5 DEF IsDatabase
  <2>6. /\ Traced(was, d[t])
        /\ (\E e \in D : e.op = "dropIndex" /\ e.table = t) => IndexesHeld(was, old, d[t])
    BY <1>5 DEF SinceRead
  <2> DEFINE now == d[t]
             fields == s[t]
  <2> HIDE DEF was, old, t, now, fields
  <2>7. /\ Traced(was, tbl)
        /\ (\E e \in R : e.op = "dropIndex" /\ e.table = t) => IndexesHeld(was, old, tbl)
    <3>1. /\ tbl \in AlterTable(now, c) /\ IsTable(now) /\ Traced(was, now) /\ fields \in Seq(Field)
          /\ PlannedAs(c, t, old, TRUE, fields)
          /\ (\E e \in D : e.op = "dropIndex" /\ e.table = t) => IndexesHeld(was, old, now)
      BY <2>1, <2>3, <2>4, <2>5, <2>6 DEF now, fields
    <3>2. CASE c.op = "createIndex"
      <4>1. Traced(was, tbl)
        BY <3>1, <3>2, CreateTraced
      <4>2. \A e \in R : ~(e.op = "dropIndex" /\ e.table = t)
        BY <3>2 DEF t
      <4>3. QED BY <4>1, <4>2
    <3>3. CASE c.op # "createIndex"
      <4>1. Spares(old, now, tbl)
        BY <2>4, <3>1, <3>3, PlannedSpares
      <4>2. QED BY <1>1, <2>4, <3>1, <4>1, SparesTraced
    <3>4. QED BY <3>2, <3>3
  <2>8. ASSUME NEW u \in DOMAIN b \intersect DOMAIN new
        PROVE  /\ Traced(b[u], new[u])
               /\ (\E e \in R : e.op = "dropIndex" /\ e.table = u) =>
                     IndexesHeld(b[u], ReadTables(b, m)[u], new[u])
    <3>1. CASE u = t
      BY <2>2, <2>7, <3>1 DEF was, old
    <3>2. CASE u # t
      BY <1>3, <2>2, <2>8, <3>2
    <3>3. QED BY <3>1, <3>2
  <2>9. QED BY <1>2, <2>8 DEF SinceRead
<1>6. CASE ~(\A t \in DOMAIN b \intersect DOMAIN new : t \in DOMAIN d /\ new[t] = d[t])
  <2>1. CASE c.op = "createTable" /\ new = WithTable(d, c.table, CreateTableSQL(c))
    <3>1. c.table \notin DOMAIN b
      BY <1>1, <2>1, PlanFromCases
    <3>2. \A t \in DOMAIN new : t # c.table => t \in DOMAIN d /\ new[t] = d[t]
      BY <2>1 DEF WithTable
    <3>3. QED BY <1>6, <3>1, <3>2
  <2>2. CASE c.op = "dropTable" /\ new = [t \in DOMAIN d \ {c.table} |-> d[t]]
    BY <1>6, <2>2
  <2>3. CASE /\ c.op \notin {"createTable", "dropTable"} /\ c.table \in DOMAIN d
             /\ \E tbl \in AlterTable(d[c.table], c) : new = WithTable(d, c.table, tbl)
    <3>1. \A t \in DOMAIN new : t # c.table => t \in DOMAIN d /\ new[t] = d[t]
      BY <2>3 DEF WithTable
    <3>2. CASE c.table \in DOMAIN b
      BY <1>5, <2>3, <3>2
    <3>3. CASE c.table \notin DOMAIN b
      BY <1>6, <3>1, <3>3
    <3>4. QED BY <3>2, <3>3
  <2>4. QED BY <2>1, <2>2, <2>3, ResultCases
<1>7. QED BY <1>4, <1>6

\* A statement of the plan does nothing to tables that are what the source declares.
LEMMA StatementSpares ==
  ASSUME NEW d, IsDatabase(d), AllWellFormed(d), NEW b, NEW m, NEW s, NEW D, PlanFrom(b, m, s, D),
         SinceRead(b, m, d, D), \A t \in DOMAIN b : ~ReadAsDefault(t, b[t]),
         Matches(d, s), ~Limited(d, s), NEW c \in Change, c \in D, NEW new \in Result(d, c)
  PROVE  new = d
<1> DEFINE t == c.table
           fields == s[t]
           now == d[t]
           was == b[t]
           old == ReadTables(b, m)[t]
<1>1. /\ DOMAIN s = {} => DOMAIN d = {}
      /\ \A u \in DOMAIN s :
           /\ u \in DOMAIN d /\ u \in Tables /\ s[u] \in Seq(Field)
           /\ {<<k.name, k.def>> : k \in ToSet(d[u].columns)}
                = {<<k.name, k.def>> : k \in ToSet(Built(u, s[u]).columns)}
           /\ d[u].pk = PkColumns(s[u]) /\ d[u].indexes = Declared(u, s[u])
           /\ ~Ambiguous(u, s[u]) /\ ~Respelled(d[u], s[u])
  <2>1. DOMAIN s = {} => DOMAIN d = {}
    BY DEF Matches
  <2>2. ASSUME NEW u \in DOMAIN s
        PROVE  /\ u \in DOMAIN d
               /\ {<<k.name, k.def>> : k \in ToSet(d[u].columns)}
                    = {<<k.name, k.def>> : k \in ToSet(Built(u, s[u]).columns)}
               /\ d[u].pk = Built(u, s[u]).pk /\ d[u].indexes = Built(u, s[u]).indexes
    BY DEF Matches
  <2>3. \A u \in DOMAIN s : u \in Tables /\ s[u] \in Seq(Field)
    BY DEF PlanFrom, IsSchema
  <2>4. \A u \in DOMAIN s : ~Ambiguous(u, s[u]) /\ (u \in DOMAIN d => ~Respelled(d[u], s[u]))
    BY DEF Limited
  <2>5. \A u : Built(u, s[u]).pk = PkColumns(s[u]) /\ Built(u, s[u]).indexes = Declared(u, s[u])
    BY DEF Built
  <2>6. QED BY <2>1, <2>2, <2>3, <2>4, <2>5
<1>2. CASE DOMAIN s = {} /\ c.op = "dropTable"
  BY <1>1, <1>2 DEF Result
<1>3. CASE /\ t \in DOMAIN s /\ t \in DOMAIN b
           /\ PlannedAs(c, t, old, TRUE, fields) /\ c.op \notin {"createTable", "dropTable"}
  <2>1. Settled(t, was, old, now, fields)
    <3>1. ReadFrom(was, old) /\ IndexedFrom(was, old)
      BY <1>3, FieldsReadFrom DEF PlanFrom
    <3>2. IsTable(was) /\ WellFormed(t, was)
      BY <1>3 DEF PlanFrom, IsDatabase, AllWellFormed
    <3>3. IsTable(now) /\ WellFormed(t, now)
      BY <1>1, <1>3 DEF IsDatabase, AllWellFormed
    <3>4. Traced(was, now)
      BY <1>1, <1>3 DEF SinceRead
    <3> HIDE DEF old, was
    <3>5. QED BY <1>1, <1>3, <3>1, <3>2, <3>3, <3>4 DEF Settled
  <2>2. c.op = "dropIndex" => IndexesHeld(was, old, now)
    BY <1>1, <1>3 DEF SinceRead
  <2>3. PICK tbl \in AlterTable(now, c) : new = WithTable(d, t, tbl)
    BY <1>3, ResultCases
  <2> HIDE DEF old, was
  <2>4. tbl = now
    <3> HIDE DEF now, fields
    <3>1. QED BY <1>3, <2>1, <2>2, <2>3, SettledStays
  <2>5. t \in DOMAIN d /\ d = [u \in DOMAIN d |-> d[u]]
    BY <1>1, <1>3 DEF IsDatabase
  <2>6. QED BY <2>3, <2>4, <2>5 DEF WithTable
<1>4. CASE t \in DOMAIN s /\ c.op = "createTable"
  BY <1>1, <1>4, ResultCases
<1>5. CASE t \in DOMAIN s /\ \E e : c = CreateIndex(e) /\ \E y \in Declared(t, fields) : y.name = e.name
  <2>1. PICK e : c = CreateIndex(e) /\ \E y \in Declared(t, fields) : y.name = e.name
    BY <1>5
  <2>2. e.name \in IndexNamesOf(now) /\ c.op = "createIndex" /\ c.index = e
    BY <1>1, <1>5, <2>1 DEF IndexNamesOf, CreateIndex
  <2>3. AlterTable(now, c) = {}
    BY <2>2 DEF AlterTable, CreateIndexSQL, OnlyIf
  <2>4. QED BY <2>2, <2>3, ResultCases
<1>6. QED BY <1>2, <1>3, <1>4, <1>5, PlanFromCases

\* The plan of a run that is alone is made of what it read, and every column and index it
\* planned for is still traced to that.
Traces(p) ==
  pc[p] \in {"begin", "exec"} =>
    /\ PlanFrom(base[p], indexMap[p], source[p], ToSet(plan[p]))
    /\ SinceRead(base[p], indexMap[p], db, ToSet(plan[p]))
    /\ Ordered(plan[p], Misplaced)
TracesInv == AloneInv /\ \A p \in Procs : Traces(p)

LEMMA TracesPlans ==
  ASSUME TracesInv, NEW p \in Procs, ColumnSchema(p)
  PROVE  Traces(p)'
<1> DEFINE d == db
           s == source[p]
           m == indexMap[p]
           tables == ReadTables(d, m)
           todo == plan'[p]
<1>1. /\ pc[p] = "columnSchema" /\ m \in IndexMaps(d) /\ db' = d /\ source' = source
      /\ indexMap' = indexMap /\ base'[p] = d
  BY DEF TracesInv, AloneInv, Alone, ColumnSchema
<1>2. todo \in Diff(s, tables, TRUE)
  BY DEF TracesInv, AloneInv, Inv, ColumnSchema
<1>3. IsDatabase(d) /\ AllWellFormed(d) /\ IsSchema(s) /\ Known(d, File, before) /\ IsIndexMap(m)
  BY DEF TracesInv, AloneInv, Inv, TypeOK, AllWellFormed, RunInv
<1> HIDE DEF d, s, m, todo
<1>4. IsSchema(tables)
  BY <1>3, ReadTablesReading DEF Reading
<1>5. Ordered(todo, Misplaced) /\ \A c \in ToSet(todo) : IsDiffChange(c, s, tables, TRUE)
  <2> HIDE DEF tables
  <2>1. QED BY <1>2, <1>3, <1>4, DiffContents
<1>6. PlanFrom(d, m, s, ToSet(todo))
  BY <1>1, <1>3, <1>4, <1>5 DEF PlanFrom
<1>7. SinceRead(d, m, d, ToSet(todo))
  BY <1>3, NothingTracedYet DEF SinceRead, AllWellFormed
<1>8. QED BY <1>1, <1>5, <1>6, <1>7 DEF Traces, d, s, m, todo

LEMMA TracesExecutes ==
  ASSUME TracesInv, NEW p \in Procs, Exec(p)
  PROVE  Traces(p)'
<1> DEFINE d == db
           s == source[p]
           m == indexMap[p]
           b == base[p]
           todo == plan[p]
           c == Head(todo)
           rest == Tail(todo)
           new  == db'
<1>1. /\ pc[p] = "exec" /\ todo # <<>> /\ new \in Result(d, c) /\ plan'[p] = rest
      /\ UNCHANGED <<source, base, indexMap>>
  BY DEF TracesInv, AloneInv, Inv, Exec
<1> DEFINE D == ToSet(todo)
           R == ToSet(rest)
<1>2. PlanFrom(b, m, s, D) /\ SinceRead(b, m, d, D) /\ Ordered(todo, Misplaced)
  BY <1>1 DEF TracesInv, Traces
<1>3. IsDatabase(d) /\ todo \in Seq(Change)
  BY DEF TracesInv, AloneInv, Inv, TypeOK
<1> HIDE DEF d, s, m, b, new, todo
<1>4. /\ Done(D, c, R) /\ Ordered(rest, Misplaced)
      /\ \A y \in R : <<c, y>> \notin Misplaced
  BY <1>1, <1>2, <1>3, HeadAndRest
<1>5. c \in Change /\ \A e \in R : e \in Change
  <2>1. \A e \in D : e \in Change
    BY <1>3, Elements
  <2>2. QED BY <1>1, <1>3, <1>4, <2>1, HeadAndTail DEF Done
<1> HIDE DEF c, rest, D, R
<1>6. c.op = "createIndex" => \A e \in R : ~(e.op = "dropIndex" /\ e.table = c.table)
  BY <1>4, <1>5 DEF Misplaced
<1>7. PlanFrom(b, m, s, R) /\ SinceRead(b, m, new, R)
  BY <1>1, <1>2, <1>3, <1>4, <1>5, <1>6, StatementSince
<1>8. QED BY <1>1, <1>4, <1>7 DEF Traces, new, b, m, s, R, rest, todo

LEMMA TracesNext ==
  ASSUME NEW p \in Procs, \A q \in Procs : q = p, TracesInv, [Next]_vars
  PROVE  TracesInv'
<1>1. AloneInv'
  BY AloneNext DEF TracesInv
<1>2. DOMAIN pc = Procs /\ Traces(p)
  BY DEF TracesInv, AloneInv, Inv, TypeOK
<1>3. SUFFICES Traces(p)'
  BY <1>1 DEF TracesInv
<1>4. CASE UNCHANGED vars
  BY <1>2, <1>4 DEF vars, Traces
<1>5. CASE ColumnSchema(p)
  BY <1>5, TracesPlans DEF TracesInv
<1>6. CASE Exec(p)
  BY <1>6, TracesExecutes DEF TracesInv
<1>7. CASE Begin(p)
  <2>1. pc[p] = "begin" /\ UNCHANGED <<db, source, base, plan, indexMap>>
    BY <1>7 DEF Begin
  <2>2. QED BY <1>2, <2>1 DEF Traces
<1>8. CASE \/ Edit \/ Start(p) \/ GetIndexMap(p) \/ ExecRejected(p) \/ Rollback(p) \/ Commit(p)
           \/ Exit(p) \/ DryRun(p) \/ Fails(p) \/ ExecBroken(p) \/ Crash(p)
  <2>1. pc'[p] \notin {"begin", "exec"}
    BY <1>2, <1>8 DEF Edit, Start, GetIndexMap, ExecRejected, Rollback, Commit, Exit, DryRun,
                      Fails, ExecBroken, Crash, Goto
  <2>2. QED BY <2>1 DEF Traces
<1>9. QED BY <1>4, <1>5, <1>6, <1>7, <1>8 DEF Next, Run

\* A run executes nothing on a database that matches.
LEMMA ExecutesNothing ==
  ASSUME TracesInv, NEW p \in Procs, pc[p] = "exec", plan[p] # <<>>,
         Matches(db, File), ~Limited(db, File), ~Misread, NEW new \in Result(db, Head(plan[p]))
  PROVE  new = db
<1> DEFINE todo == plan[p]
           c == Head(todo)
           D == ToSet(todo)
<1>1. /\ PlanFrom(base[p], indexMap[p], File, D) /\ SinceRead(base[p], indexMap[p], db, D)
  BY DEF TracesInv, AloneInv, Inv, RunInv, Traces
<1>2. IsDatabase(db) /\ AllWellFormed(db) /\ todo \in Seq(Change)
  BY DEF TracesInv, AloneInv, Inv, TypeOK, AllWellFormed
<1>3. \A t \in DOMAIN base[p] : ~ReadAsDefault(t, base[p][t])
  BY DEF Misread
<1> HIDE DEF todo
<1>4. c \in Change /\ c \in D
  <2>1. todo # <<>>
    BY DEF todo
  <2>2. DOMAIN todo = 1..Len(todo) /\ Len(todo) \in Nat /\ Head(todo) = todo[1] /\ Len(todo) > 0
    BY <1>2, <2>1, Elements, EmptySeq
  <2>3. QED BY <1>2, <2>2, Elements
<1>5. new \in Result(db, c)
  BY DEF todo
<1> HIDE DEF c, D
<1>6. QED BY <1>1, <1>2, <1>3, <1>4, <1>5, StatementSpares

\* When no two runs overlap, none changes a database that matches, whatever made it match
\* since the run read it: mysql.go's statements are refused or do nothing then.
THEOREM MatchIsLeftAlone ==
  ASSUME \E p : Procs = {p}
  PROVE  Spec => MatchIsStable
<1>1. PICK p : Procs = {p}
  OBVIOUS
<1>2. p \in Procs /\ \A q \in Procs : q = p
  BY <1>1
<1>3. Init => TracesInv
  <2>1. SUFFICES ASSUME Init PROVE TracesInv
    OBVIOUS
  <2>2. \A q \in Procs : pc[q] = "idle"
    BY <2>1 DEF Init
  <2>3. QED BY <2>1, <2>2, AloneInit DEF TracesInv, Traces
<1>4. TracesInv /\ [Next]_vars => TracesInv'
  BY <1>2, TracesNext
<1>5. ASSUME TracesInv, [Next]_vars, Matches(db, File), ~Limited(db, File), ~Misread, versions' = versions
      PROVE  db' = db
  <2>1. CASE Exec(p) \/ ExecBroken(p)
    <3>1. pc[p] = "exec" /\ plan[p] # <<>> /\ db' \in Result(db, Head(plan[p])) \union {db}
      BY <2>1 DEF Exec, ExecBroken
    <3>2. QED BY <1>2, <1>5, <3>1, ExecutesNothing
  <2>2. CASE Edit
    <3>1. Len(versions) > 1 /\ versions' = Tail(versions)
      BY <2>2 DEF Edit
    <3>2. versions \in Seq(ToSet(versions))
      BY <1>5 DEF TracesInv, AloneInv, Inv, IsHistory
    <3>3. Tail(versions) # versions
      <4> HIDE DEF File
      <4>1. Len(Tail(versions)) = Len(versions) - 1 /\ Len(versions) \in Nat
        BY <3>1, <3>2
      <4>2. QED BY <4>1
    <3>4. QED BY <1>5, <3>1, <3>3
  <2>3. CASE UNCHANGED vars
    BY <2>3 DEF vars
  <2>4. CASE \/ Start(p) \/ GetIndexMap(p) \/ ColumnSchema(p) \/ Begin(p) \/ ExecRejected(p)
             \/ Rollback(p) \/ Commit(p) \/ Exit(p) \/ DryRun(p) \/ Fails(p) \/ Crash(p)
    BY <2>4 DEF Start, GetIndexMap, ColumnSchema, Begin, ExecRejected, Rollback, Commit, Exit,
                DryRun, Fails, Crash
  <2>5. QED BY <1>2, <1>5, <2>1, <2>2, <2>3, <2>4 DEF Next, Run
<1>6. TracesInv /\ [Next]_vars =>
        ((Matches(db, File) /\ ~Limited(db, File) /\ ~Misread /\ versions' = versions) => db' = db)
  BY <1>5
<1>7. [Next]_vars /\ TracesInv =>
        [(Matches(db, File) /\ ~Limited(db, File) /\ ~Misread /\ versions' = versions) => db' = db]_vars
  BY <1>6
<1>8. QED BY <1>3, <1>4, <1>7, PTL DEF Spec, MatchIsStable
=============================================================================
