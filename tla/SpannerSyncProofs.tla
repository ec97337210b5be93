-------------------------- MODULE SpannerSyncProofs --------------------------
(***************************************************************************)
(* What the runs of sync never do to a Cloud Spanner database, however often *)
(* they are refused, interrupted and started again, and what the one that    *)
(* succeeds leaves.                                                          *)
(***************************************************************************)
EXTENDS SpannerSync, PlanTheorems

-----------------------------------------------------------------------------
(* Definitions of columns.                                                 *)

\* Any type, nullability and option are a definition.
LEMMA DefinitionType ==
  ASSUME NEW d \in Defs
  PROVE  /\ d.nullable \in BOOLEAN
         /\ \A e \in Defs, b \in BOOLEAN :
              /\ [d EXCEPT !.nullable = b] \in Defs
              /\ [d EXCEPT !.type = e.type, !.nullable = b] \in Defs
              /\ [d EXCEPT !.extra = e.extra] \in Defs
<1> DEFINE Types == {e.type : e \in Defs}
           Extras == {e.extra : e \in Defs}
<1>1. Defs = [type : Types, nullable : BOOLEAN, extra : Extras]
  BY DefsAssumption
<1>2. \A e \in Defs : e.type \in Types /\ e.extra \in Extras
  OBVIOUS
<1> HIDE DEF Types, Extras
<1>3. QED BY <1>1, <1>2

-----------------------------------------------------------------------------
(* Introspection.                                                          *)

\* The rows of a column are finitely many.
LEMMA IndexRowsType ==
  ASSUME NEW tbl, tbl.indexes \subseteq Index, NEW c
  PROVE  IndexRows(tbl, c) \in SUBSET Row /\ IsFiniteSet(IndexRows(tbl, c))
<1>1. IndexRows(tbl, c) \subseteq Row
  <2>1. \A x \in tbl.indexes : [name |-> x.name, unique |-> x.unique] \in Row
    BY DEF Index, Row
  <2>2. [name |-> PrimaryName, unique |-> TRUE] \in Row
    BY IndexNameAssumption DEF Row
  <2>3. QED BY <2>1, <2>2 DEF IndexRows
<1>2. IsFiniteSet(Row)
  <2>1. IsFiniteSet(IndexNames \X BOOLEAN)
    <3>1. IsFiniteSet({TRUE}) /\ IsFiniteSet({FALSE}) /\ BOOLEAN = {TRUE} \union {FALSE}
      BY FS_Singleton
    <3>2. IsFiniteSet(BOOLEAN)
      BY <3>1, FS_Union
    <3>3. QED BY <3>2, IndexNamesAssumption, FS_Product
  <2> DEFINE f == [p \in IndexNames \X BOOLEAN |-> [name |-> p[1], unique |-> p[2]]]
  <2>2. f \in Surjection(IndexNames \X BOOLEAN, Row)
    <3>1. f \in [IndexNames \X BOOLEAN -> Row]
      BY DEF Row
    <3>2. ASSUME NEW r \in Row PROVE \E p \in IndexNames \X BOOLEAN : f[p] = r
      <4>1. r.name \in IndexNames /\ r.unique \in BOOLEAN
            /\ r = [name |-> r.name, unique |-> r.unique]
        BY DEF Row
      <4>2. <<r.name, r.unique>> \in IndexNames \X BOOLEAN /\ f[<<r.name, r.unique>>] = r
        BY <4>1
      <4>3. QED BY <4>2
    <3>3. QED BY <3>1, <3>2 DEF Surjection
  <2> HIDE DEF f
  <2>3. QED BY <2>1, <2>2, FS_Surjection
<1>3. QED BY <1>1, <1>2, FS_Subset

\* A field read from column k of table t.
IsRead(f, t, k) ==
  f \in Field /\ f.table = t /\ f.name = Camel[k] /\ f.column = Snake[Camel[k]]

\* Every row of a column is read back as a field of that column.
LEMMA ColumnRowsType ==
  ASSUME NEW t \in Tables, NEW tbl \in TableState, NEW col \in Column,
         NEW rs \in ColumnRows(t, tbl, col)
  PROVE  rs \in Seq({f \in Field : IsRead(f, t, col.name)})
<1> DEFINE R == {f \in Field : IsRead(f, t, col.name)}
           set == IndexRows(tbl, col.name)
<1>1. set \in SUBSET Row /\ IsFiniteSet(set)
  BY IndexRowsType DEF TableState
<1>2. ASSUME NEW isPk \in BOOLEAN, NEW row \in SUBSET Row, IsFiniteSet(row)
      PROVE  FieldOf(t, col, isPk, row) \in R
  BY <1>2, FieldOfType DEF IsRead
<1> HIDE DEF R
<1>3. CASE set = {}
  <2> DEFINE f == FieldOf(t, col, FALSE, {})
  <2>1. rs = <<f>>
    BY <1>3 DEF ColumnRows
  <2>2. f \in R
    BY <1>2, FS_EmptySet
  <2> HIDE DEF f
  <2>3. rs \in Seq(R)
    BY <2>1, <2>2
  <2>4. QED BY <2>3 DEF R
<1>4. CASE set # {}
  <2>1. PICK r \in SetToSeqs(set) :
          rs = [n \in DOMAIN r |-> FieldOf(t, col, r[n].name = PrimaryName, {r[n]})]
    BY <1>4 DEF ColumnRows
  <2> HIDE DEF set
  <2>2. DOMAIN r = 1..Len(r) /\ Len(r) \in Nat /\ \A n \in DOMAIN r : r[n] \in set
    BY <1>1, <2>1, SetToSeqType, Elements
  <2>3. ASSUME NEW n \in DOMAIN r
        PROVE  FieldOf(t, col, r[n].name = PrimaryName, {r[n]}) \in R
    <3>1. {r[n]} \in SUBSET Row /\ IsFiniteSet({r[n]}) /\ (r[n].name = PrimaryName) \in BOOLEAN
      BY <1>1, <2>2, FS_Singleton
    <3>2. QED BY <1>2, <3>1
  <2>4. rs \in [1..Len(r) -> R]
    BY <2>1, <2>2, <2>3
  <2>5. QED BY <2>2, <2>4, SeqDef DEF R
<1>5. QED BY <1>3, <1>4

\* What the query answers of a table: some rows of each column, one column after the other.
IsAnswer(answer, t, tbl) ==
  \E rs : /\ answer = FlattenSeq(rs)
          /\ DOMAIN rs = DOMAIN tbl.columns /\ rs = [n \in DOMAIN tbl.columns |-> rs[n]]
          /\ \A n \in DOMAIN tbl.columns : rs[n] \in ColumnRows(t, tbl, tbl.columns[n])

LEMMA ReadsAnswers ==
  ASSUME NEW d, NEW tables \in Reads(d)
  PROVE  /\ DOMAIN tables = DOMAIN d /\ tables = [t \in DOMAIN d |-> tables[t]]
         /\ \A t \in DOMAIN d : IsAnswer(tables[t], t, d[t])
<1> DEFINE RowsOf(t) == [n \in DOMAIN d[t].columns |-> ColumnRows(t, d[t], d[t].columns[n])]
           family == [t \in DOMAIN d |-> {FlattenSeq(rs) : rs \in Selections(RowsOf(t))}]
<1>1. DOMAIN tables = DOMAIN d /\ tables = [t \in DOMAIN d |-> tables[t]]
      /\ \A t \in DOMAIN d : tables[t] \in {FlattenSeq(rs) : rs \in Selections(RowsOf(t))}
  <2>1. tables \in Selections(family)
    BY DEF Reads
  <2>2. DOMAIN family = DOMAIN d
    OBVIOUS
  <2> HIDE DEF family
  <2>3. DOMAIN tables = DOMAIN d /\ tables = [t \in DOMAIN d |-> tables[t]]
        /\ \A t \in DOMAIN d : tables[t] \in family[t]
    BY <2>1, <2>2 DEF Selections
  <2>4. QED BY <2>3 DEF family
<1> HIDE DEF family
<1>2. ASSUME NEW t \in DOMAIN d PROVE IsAnswer(tables[t], t, d[t])
  <2> DEFINE columns == d[t].columns
             columnRows == RowsOf(t)
  <2>1. PICK rs \in Selections(RowsOf(t)) : tables[t] = FlattenSeq(rs)
    BY <1>1
  <2>2. DOMAIN columnRows = DOMAIN columns
        /\ \A n \in DOMAIN columns : columnRows[n] = ColumnRows(t, d[t], columns[n])
    OBVIOUS
  <2> HIDE DEF columnRows, columns
  <2>3. rs \in Selections(columnRows)
    BY <2>1 DEF columnRows
  <2>4. /\ DOMAIN rs = DOMAIN columns /\ rs = [n \in DOMAIN columns |-> rs[n]]
        /\ \A n \in DOMAIN columns : rs[n] \in ColumnRows(t, d[t], columns[n])
    BY <2>2, <2>3 DEF Selections
  <2>5. QED BY <2>1, <2>4 DEF IsAnswer, columns
<1>3. QED BY <1>1, <1>2

\* An answer is a reading of the known columns.
LEMMA ReadsReading ==
  ASSUME NEW d, IsDatabase(d), NEW file, NEW was, Known(d, file, was), NEW tables \in Reads(d)
  PROVE  Reading(tables, file, was)
<1>1. DOMAIN tables = DOMAIN d /\ tables = [t \in DOMAIN d |-> tables[t]]
      /\ \A t \in DOMAIN d : IsAnswer(tables[t], t, d[t])
  BY ReadsAnswers
<1>2. ASSUME NEW t \in DOMAIN d
      PROVE  /\ t \in Tables
             /\ tables[t] \in Seq({f \in Field : \E k \in ColumnNames(d[t]) : IsRead(f, t, k)})
  <2> DEFINE R == {f \in Field : \E k \in ColumnNames(d[t]) : IsRead(f, t, k)}
             columns == d[t].columns
  <2>1. t \in Tables /\ d[t] \in TableState /\ columns \in Seq(Column)
    BY DEF IsDatabase, TableState
  <2>2. DOMAIN columns = 1..Len(columns) /\ Len(columns) \in Nat
        /\ \A n \in DOMAIN columns : columns[n] \in Column /\ columns[n].name \in ColumnNames(d[t])
    BY <2>1, Elements DEF ColumnNames
  <2>3. IsAnswer(tables[t], t, d[t])
    BY <1>1
  <2>4. PICK rs : /\ tables[t] = FlattenSeq(rs)
                  /\ DOMAIN rs = DOMAIN columns /\ rs = [n \in DOMAIN columns |-> rs[n]]
                  /\ \A n \in DOMAIN columns : rs[n] \in ColumnRows(t, d[t], columns[n])
    BY <2>3 DEF IsAnswer
  <2>5. ASSUME NEW n \in DOMAIN columns PROVE rs[n] \in Seq(R)
    <3>1. rs[n] \in Seq({f \in Field : IsRead(f, t, columns[n].name)})
      BY <2>1, <2>2, <2>4, ColumnRowsType
    <3>2. {f \in Field : IsRead(f, t, columns[n].name)} \subseteq R
      BY <2>2
    <3> HIDE DEF R
    <3>3. QED BY <3>1, <3>2, SeqMonotonic
  <2> HIDE DEF R, columns
  <2>6. FlattenSeq(rs) \in Seq(R)
    BY <2>2, <2>4, <2>5, FlattenMap
  <2>7. QED BY <2>1, <2>4, <2>6 DEF R
<1>3. ASSUME NEW t \in DOMAIN d, NEW n \in DOMAIN tables[t]
      PROVE  /\ tables[t][n] \in Field /\ tables[t][n].table = t
             /\ \E k \in ColumnNames(d[t]) : IsRead(tables[t][n], t, k)
  <2> DEFINE R == {f \in Field : \E k \in ColumnNames(d[t]) : IsRead(f, t, k)}
  <2>1. tables[t] \in Seq(R)
    BY <1>2
  <2>2. tables[t][n] \in R
    <3> HIDE DEF R
    <3>1. QED BY <2>1, Elements
  <2>3. QED BY <2>2 DEF IsRead
<1>4. IsSchema(tables)
  <2>1. \A t \in DOMAIN d : tables[t] \in Seq(Field)
    <3>1. \A t \in DOMAIN d :
            {f \in Field : \E k \in ColumnNames(d[t]) : IsRead(f, t, k)} \subseteq Field
      OBVIOUS
    <3>2. QED BY <1>2, <3>1, SeqMonotonic
  <2>2. QED BY <1>1, <1>2, <1>3, <2>1 DEF IsSchema
<1>5. ASSUME NEW t \in DOMAIN tables \intersect DOMAIN file \intersect DOMAIN was,
             NEW o \in ToSet(tables[t])
      PROVE  \E k \in ColumnNames(was[t]) \union ColumnsOf(file[t]) :
               o.name = Camel[k] /\ o.column = Snake[Camel[k]]
  <2>1. PICK n \in DOMAIN tables[t] : o = tables[t][n]
    BY DEF ToSet
  <2>2. ColumnNames(d[t]) \subseteq ColumnNames(was[t]) \union ColumnsOf(file[t])
    BY <1>1 DEF Known
  <2>3. QED BY <1>1, <1>3, <2>1, <2>2 DEF IsRead
<1>6. QED BY <1>4, <1>5 DEF Reading

-----------------------------------------------------------------------------
(* The statements of a plan.                                               *)

\* What a statement of a plan is about: DiffIsPlanned, after the dialect.
IsStatement(s, file, tables) ==
  \/ s.op = "dropTable" /\ DOMAIN file = {}
  \/ /\ s.op = "createIndex" /\ s.table \in DOMAIN file
     /\ s.index \in Index /\ s.index.table = s.table
  \/ s.op = "dropIndex" /\ s.table \in DOMAIN file
  \/ \E t \in DOMAIN file : CreateTableSQL(CreateTable(t, file[t])) = <<s>>
  \/ /\ s.op = "addColumn" /\ s.table \in DOMAIN file /\ s.def \in Defs
     /\ s.column \in ColumnsOf(file[s.table])
  \/ \E t \in DOMAIN file : \E f \in ToSet(file[t]) : s = AlterColumn(f)
  \/ s.op = "setOptions" /\ s.table \in DOMAIN file /\ \E d \in Defs : s.extra = d.extra
  \/ \E t \in DOMAIN file \intersect DOMAIN tables :
       \E o \in ToSet(tables[t]) : DropColumnSQL(DropColumn(o)) = <<s>> /\ IsDropped(file[t], o)

\* The statements of all the changes Diff may plan.
Statements(file, tables) == UNION {ToSet(SQL(c)) : c \in Plans(file, tables, FALSE)}

\* A sequence is one of its own elements.
LEMMA OwnElements ==
  ASSUME NEW S, NEW s \in Seq(S)
  PROVE  s \in Seq(ToSet(s)) /\ ToSet(s) \subseteq S
<1>1. DOMAIN s = 1..Len(s) /\ Len(s) \in Nat /\ s = [n \in 1..Len(s) |-> s[n]]
  BY Elements
<1>2. s \in [1..Len(s) -> ToSet(s)]
  BY <1>1 DEF ToSet
<1>3. QED BY <1>1, <1>2, SeqDef, Elements

\* One statement or none, and then one statement or none.
LEMMA OneOrTwo ==
  ASSUME NEW a, NEW b, NEW x, NEW y, x = <<>> \/ x = <<a>>, y = <<>> \/ y = <<b>>
  PROVE  x \o y \in Seq({a, b})
<1>1. <<a>> \in Seq({a, b}) /\ <<b>> \in Seq({a, b}) /\ <<>> \in Seq({a, b})
  BY EmptySeq
<1>2. QED BY <1>1, ConcatProperties

\* What the dialect writes for a planned change.
LEMMA SQLType ==
  ASSUME NEW file, NEW tables, IsSchema(file), IsSchema(tables),
         NEW c \in Plans(file, tables, FALSE)
  PROVE  /\ SQL(c) \in Seq(ToSet(SQL(c)))
         /\ \A s \in ToSet(SQL(c)) : IsStatement(s, file, tables)
<1>1. c \in Change /\ IsPlanned(c, file, tables, FALSE)
  BY DEF Plans
<1>2. ASSUME NEW S, SQL(c) \in Seq(S), \A s \in S : IsStatement(s, file, tables)
      PROVE  /\ SQL(c) \in Seq(ToSet(SQL(c)))
             /\ \A s \in ToSet(SQL(c)) : IsStatement(s, file, tables)
  BY <1>2, OwnElements
<1>3. ASSUME NEW s, SQL(c) = <<s>>, IsStatement(s, file, tables)
      PROVE  /\ SQL(c) \in Seq(ToSet(SQL(c)))
             /\ \A r \in ToSet(SQL(c)) : IsStatement(r, file, tables)
  <2>1. SQL(c) \in Seq({s})
    BY <1>3
  <2>2. \A r \in {s} : IsStatement(r, file, tables)
    BY <1>3
  <2>3. QED BY <1>2, <2>1, <2>2
<1>4. CASE c.op = "dropTable" /\ DOMAIN file = {}
  <2>1. SQL(c) = <<c>> /\ IsStatement(c, file, tables)
    BY <1>4 DEF SQL, IsStatement
  <2>2. QED BY <1>3, <2>1
<1>5. CASE /\ c.op \in {"dropIndex", "createIndex"}
           /\ c.table \in DOMAIN file /\ c.index.table = c.table
  <2>1. c.index \in Index
    BY <1>1, <1>5 DEF Change
  <2>2. \E s : SQL(c) = <<s>> /\ IsStatement(s, file, tables)
    BY <1>5, <2>1 DEF SQL, IsStatement, CreateIndexSQL, DropIndexSQL
  <2>3. QED BY <1>3, <2>2
<1>6. CASE \E t \in DOMAIN file : c = CreateTable(t, file[t])
  <2>1. c.op = "createTable"
    BY <1>6 DEF CreateTable
  <2>2. SQL(c) = CreateTableSQL(c) /\ \E s : CreateTableSQL(c) = <<s>>
    BY <2>1 DEF SQL, CreateTableSQL
  <2>3. PICK s : SQL(c) = <<s>> /\ CreateTableSQL(c) = <<s>>
    BY <2>2
  <2>4. IsStatement(s, file, tables)
    BY <1>6, <2>3 DEF IsStatement
  <2>5. QED BY <1>3, <2>3, <2>4
<1>7. CASE \E t \in DOMAIN file : \E f \in ToSet(file[t]) : c = AddColumn(f)
  <2>1. PICK t \in DOMAIN file : \E f \in ToSet(file[t]) : c = AddColumn(f)
    BY <1>7
  <2>2. PICK f \in ToSet(file[t]) : c = AddColumn(f)
    BY <2>1
  <2>3. f \in Field /\ f.table = t /\ f.def \in Defs
    BY SchemaFields DEF Field
  <2> DEFINE a == [op |-> "addColumn", table |-> c.table, column |-> c.new.column,
                   def |-> [c.new.def EXCEPT !.nullable = TRUE]]
             b == AlterColumn(c.new)
             y == IF c.new.def.nullable THEN <<>> ELSE <<b>>
  <2>4. c.op = "addColumn" /\ c.new = f /\ c.table = t
    BY <2>2, <2>3 DEF AddColumn
  <2>5. SQL(c) = <<a>> \o y
    BY <2>4 DEF SQL, AddColumnSQL
  <2>6. IsStatement(a, file, tables)
    <3>1. f.column \in ColumnsOf(file[t])
      BY DEF ToSet, ColumnsOf
    <3>2. [f.def EXCEPT !.nullable = TRUE] \in Defs
      BY <2>3, DefinitionType
    <3>3. QED BY <2>4, <3>1, <3>2 DEF IsStatement
  <2>7. IsStatement(b, file, tables)
    BY <2>4 DEF IsStatement
  <2>8. y = <<>> \/ y = <<b>>
    OBVIOUS
  <2> HIDE DEF a, b, y
  <2>9. SQL(c) \in Seq({a, b})
    BY <2>5, <2>8, OneOrTwo, ZenonT(40)
  <2>10. QED BY <1>2, <2>6, <2>7, <2>9
<1>8. CASE \E t \in DOMAIN file \intersect DOMAIN tables :
             \E o \in ToSet(tables[t]) : c = DropColumn(o) /\ IsDropped(file[t], o)
  <2>1. c.op = "dropColumn"
    BY <1>8 DEF DropColumn
  <2>2. SQL(c) = DropColumnSQL(c) /\ \E s : DropColumnSQL(c) = <<s>>
    BY <2>1 DEF SQL, DropColumnSQL
  <2>3. PICK s : SQL(c) = <<s>> /\ DropColumnSQL(c) = <<s>>
    BY <2>2
  <2>4. IsStatement(s, file, tables)
    BY <1>8, <2>3 DEF IsStatement
  <2>5. QED BY <1>3, <2>3, <2>4
<1>9. CASE \E t \in DOMAIN file \intersect DOMAIN tables :
             \E o \in ToSet(tables[t]), f \in ToSet(file[t]) :
               c = ModifyColumn(o, f) /\ OldField(tables[t], f) = {o}
  <2>1. PICK t \in DOMAIN file \intersect DOMAIN tables :
             \E o \in ToSet(tables[t]), f \in ToSet(file[t]) :
               c = ModifyColumn(o, f) /\ OldField(tables[t], f) = {o}
    BY <1>9
  <2>2. PICK o \in ToSet(tables[t]), f \in ToSet(file[t]) : c = ModifyColumn(o, f)
    BY <2>1
  <2>3. f \in Field /\ f.table = t /\ f.def \in Defs
    BY SchemaFields DEF Field
  <2> DEFINE a == AlterColumn(c.new)
             b == [op |-> "setOptions", table |-> c.table, column |-> c.new.column,
                   extra |-> c.new.def.extra]
             old == c.old.def
             new == c.new.def
             x == IF old.nullable # new.nullable \/ old.type # new.type THEN <<a>> ELSE <<>>
             y == IF (old.extra = NoExtra) # (new.extra = NoExtra) THEN <<b>> ELSE <<>>
  <2>4. c.op = "modifyColumn" /\ c.new = f /\ c.table = t
    BY <2>2, <2>3 DEF ModifyColumn
  <2>5. SQL(c) = x \o y
    <3>1. SQL(c) = ModifyColumnSQL(c)
      BY <2>4 DEF SQL
    <3>2. QED BY <3>1, Zenon DEF ModifyColumnSQL
  <2>6. IsStatement(a, file, tables)
    BY <2>4 DEF IsStatement
  <2>7. IsStatement(b, file, tables)
    BY <2>3, <2>4 DEF IsStatement
  <2>8. x = <<>> \/ x = <<a>>
    OBVIOUS
  <2>9. y = <<>> \/ y = <<b>>
    OBVIOUS
  <2> HIDE DEF a, b, x, y
  <2>10. SQL(c) \in Seq({a, b})
    <3>1. x \o y \in Seq({a, b})
      BY <2>8, <2>9, OneOrTwo
    <3>2. QED BY <2>5, <3>1
  <2>11. QED BY <1>2, <2>6, <2>7, <2>10
<1>10. QED BY <1>1, <1>4, <1>5, <1>6, <1>7, <1>8, <1>9 DEF IsPlanned

\* A plan is a list of these statements.
LEMMA PlannedType ==
  ASSUME NEW file, NEW tables, IsSchema(file), IsSchema(tables),
         NEW p \in Planned(file, tables)
  PROVE  p \in Seq(Statements(file, tables))
<1> DEFINE P == Plans(file, tables, FALSE)
           R == Statements(file, tables)
<1>1. PICK d \in Diff(file, tables, FALSE) : p = FlattenSeq([n \in DOMAIN d |-> SQL(d[n])])
  BY DEF Planned
<1>2. d \in Seq(P)
  BY DiffIsPlanned
<1>3. DOMAIN d = 1..Len(d) /\ Len(d) \in Nat /\ \A n \in DOMAIN d : d[n] \in P
  <2> HIDE DEF P
  <2>1. QED BY <1>2, Elements
<1> DEFINE ss == [n \in DOMAIN d |-> SQL(d[n])]
<1>4. ASSUME NEW n \in DOMAIN d PROVE ss[n] \in Seq(R)
  <2>1. ss[n] \in Seq(ToSet(SQL(d[n])))
    BY <1>3, SQLType
  <2>2. ToSet(SQL(d[n])) \subseteq R
    BY <1>3 DEF Statements
  <2> HIDE DEF ss, R
  <2>3. QED BY <2>1, <2>2, SeqMonotonic
<1>5. DOMAIN ss = 1..Len(d) /\ ss = [n \in 1..Len(d) |-> ss[n]]
  BY <1>3
<1> HIDE DEF ss, R
<1>6. FlattenSeq(ss) \in Seq(R)
  BY <1>3, <1>4, <1>5, FlattenMap
<1>7. QED BY <1>1, <1>6 DEF ss, R

-----------------------------------------------------------------------------
(* What the server makes of a statement.                                   *)

\* A statement on one table leaves its columns their names and their data, except the
\* column it drops, and adds none but the one it is about.
Keeps(tbl, new, gone, added) ==
  /\ IsTable(new)
  /\ \A col \in ToSet(tbl.columns) : col.name # gone =>
       \E k \in ToSet(new.columns) : k.name = col.name /\ k.data = col.data
  /\ ColumnNames(new) \subseteq ColumnNames(tbl) \union added

\* A table with other columns.
LEMMA TableWith ==
  ASSUME NEW tbl, IsTable(tbl), NEW cs \in Seq(Column),
         tbl.pk \subseteq {col.name : col \in ToSet(cs)},
         \A x \in tbl.indexes : ToSet(x.columns) \subseteq {col.name : col \in ToSet(cs)}
  PROVE  LET new == [tbl EXCEPT !.columns = cs]
         IN  IsTable(new) /\ new.columns = cs /\ ColumnNames(new) = {col.name : col \in ToSet(cs)}
<1> DEFINE pk == tbl.pk
           xs == tbl.indexes
           new == [columns |-> cs, pk |-> pk, indexes |-> xs]
<1>1. [tbl EXCEPT !.columns = cs] = new
  <2>1. tbl = [columns |-> tbl.columns, pk |-> tbl.pk, indexes |-> tbl.indexes]
    BY PartsOfTable
  <2>2. QED BY <2>1
<1>2. \A x \in xs : x \in Index /\ ToSet(x.columns) \subseteq {col.name : col \in ToSet(cs)}
  BY PartsOfTable
<1>3. new.columns = cs
  OBVIOUS
<1> HIDE DEF pk, xs
<1>4. IsTable(new)
  BY <1>2, TableFromParts DEF pk
<1> HIDE DEF new
<1>5. ColumnNames(new) = {col.name : col \in ToSet(cs)}
  BY <1>3, NamesOfColumns
<1>6. QED BY <1>1, <1>3, <1>4, <1>5

LEMMA AddColumnDoes ==
  ASSUME NEW tbl, IsTable(tbl), NEW s, s.op = "addColumn", s.column \in Columns, s.def \in Defs,
         NEW live, NEW new \in AlterTable(tbl, s, live), NEW gone
  PROVE  Keeps(tbl, new, gone, {s.column})
<1> DEFINE col == [name |-> s.column, def |-> s.def, data |-> NewColumn]
           cs  == Append(tbl.columns, col)
<1>1. new = [tbl EXCEPT !.columns = cs]
  BY DEF AlterTable, OnlyIf
<1>2. col \in Column /\ col.name = s.column
  BY DEF Column
<1> HIDE DEF col
<1>3. cs \in Seq(Column) /\ ToSet(cs) = ToSet(tbl.columns) \union {col}
  BY <1>2, PartsOfTable, AppendElements
<1> HIDE DEF cs
<1>4. /\ ColumnNames(tbl) = {k.name : k \in ToSet(tbl.columns)}
      /\ {k.name : k \in ToSet(cs)} = ColumnNames(tbl) \union {s.column}
  BY <1>2, <1>3, PartsOfTable
<1>5. /\ tbl.pk \subseteq {k.name : k \in ToSet(cs)}
      /\ \A x \in tbl.indexes : ToSet(x.columns) \subseteq {k.name : k \in ToSet(cs)}
  BY <1>4 DEF IsTable
<1>6. IsTable(new) /\ new.columns = cs /\ ColumnNames(new) = {k.name : k \in ToSet(cs)}
  BY <1>1, <1>3, <1>5, TableWith
<1>7. QED BY <1>3, <1>4, <1>6 DEF Keeps

\* No key and no index is on a column that is dropped.
LEMMA DropColumnDoes ==
  ASSUME NEW tbl, IsTable(tbl), NEW s, s.op = "dropColumn",
         NEW live, NEW new \in AlterTable(tbl, s, live)
  PROVE  Keeps(tbl, new, s.column, {})
<1> DEFINE cs == WithoutColumn(tbl.columns, s.column)
<1>1. new = [tbl EXCEPT !.columns = cs] /\ ~Refers(tbl, s.column)
  BY DEF AlterTable, OnlyIf
<1>2. cs \in Seq(Column) /\ ToSet(cs) = {col \in ToSet(tbl.columns) : col.name # s.column}
  BY PartsOfTable, WithoutColumnElements
<1> HIDE DEF cs
<1>3. /\ ColumnNames(tbl) = {k.name : k \in ToSet(tbl.columns)}
      /\ {k.name : k \in ToSet(cs)} = ColumnNames(tbl) \ {s.column}
  BY <1>2, PartsOfTable
<1>4. /\ tbl.pk \subseteq {k.name : k \in ToSet(cs)}
      /\ \A x \in tbl.indexes : ToSet(x.columns) \subseteq {k.name : k \in ToSet(cs)}
  BY <1>1, <1>3 DEF IsTable, Refers
<1>5. IsTable(new) /\ new.columns = cs /\ ColumnNames(new) = {k.name : k \in ToSet(cs)}
  BY <1>1, <1>2, <1>4, TableWith
<1>6. QED BY <1>2, <1>3, <1>5 DEF Keeps

LEMMA RedefinedDoes ==
  ASSUME NEW tbl, IsTable(tbl), NEW c, NEW def \in Defs, NEW gone
  PROVE  Keeps(tbl, Redefined(tbl, c, def), gone, {})
<1> DEFINE Changed(col) == IF col.name = c THEN [col EXCEPT !.def = def] ELSE col
           cs == [n \in DOMAIN tbl.columns |-> Changed(tbl.columns[n])]
           new == Redefined(tbl, c, def)
<1>1. new = [tbl EXCEPT !.columns = cs]
  BY DEF Redefined
<1>2. /\ DOMAIN tbl.columns = 1..Len(tbl.columns) /\ Len(tbl.columns) \in Nat
      /\ \A n \in 1..Len(tbl.columns) : tbl.columns[n] \in Column
      /\ \A col \in ToSet(tbl.columns) : col \in Column
  BY PartsOfTable, Elements
<1>3. \A col \in Column :
        Changed(col) \in Column /\ Changed(col).name = col.name /\ Changed(col).data = col.data
  BY DEF Column
<1>4. cs \in Seq(Column) /\ ToSet(cs) = {Changed(col) : col \in ToSet(tbl.columns)}
  <2> HIDE DEF Changed
  <2>1. cs \in [1..Len(tbl.columns) -> Column]
    BY <1>2, <1>3
  <2>2. ToSet(cs) = {Changed(col) : col \in ToSet(tbl.columns)}
    BY DEF ToSet
  <2>3. QED BY <1>2, <2>1, <2>2, SeqDef
<1> HIDE DEF cs, Changed, new
<1>5. /\ ColumnNames(tbl) = {k.name : k \in ToSet(tbl.columns)}
      /\ {k.name : k \in ToSet(cs)} = ColumnNames(tbl)
  BY <1>2, <1>3, <1>4, PartsOfTable
<1>6. /\ tbl.pk \subseteq {k.name : k \in ToSet(cs)}
      /\ \A x \in tbl.indexes : ToSet(x.columns) \subseteq {k.name : k \in ToSet(cs)}
  BY <1>5 DEF IsTable
<1>7. IsTable(new) /\ new.columns = cs /\ ColumnNames(new) = {k.name : k \in ToSet(cs)}
  BY <1>1, <1>4, <1>6, TableWith
<1>8. QED BY <1>2, <1>3, <1>4, <1>5, <1>7 DEF Keeps, new

\* The definition of a column that is there.
LEMMA ColumnNamedType ==
  ASSUME NEW tbl, IsTable(tbl), NEW c \in ColumnNames(tbl)
  PROVE  ColumnNamed(tbl, c).def \in Defs
<1>1. \E col \in ToSet(tbl.columns) : col.name = c
  BY PartsOfTable
<1>2. ColumnNamed(tbl, c) \in ToSet(tbl.columns)
  BY <1>1 DEF ColumnNamed
<1>3. \A col \in ToSet(tbl.columns) : col \in Column
  BY PartsOfTable, Elements
<1>4. QED BY <1>2, <1>3 DEF Column

\* CREATE makes the declared columns and no index.
LEMMA CreateTableDoes ==
  ASSUME NEW t \in Tables, NEW fields \in Seq(Field), NEW s,
         CreateTableSQL(CreateTable(t, fields)) = <<s>>
  PROVE  LET tbl == [columns |-> s.columns, pk |-> s.pk, indexes |-> {}]
         IN  /\ s.op = "createTable" /\ s.table = t
             /\ IsTable(tbl) /\ ColumnNames(tbl) = ColumnsOf(fields)
<1> DEFINE cs == [n \in DOMAIN fields |->
                    [name |-> fields[n].column, def |-> fields[n].def,
                     data |-> fields[n].column]]
           tbl == [columns |-> s.columns, pk |-> s.pk, indexes |-> {}]
<1>1. s = [op |-> "createTable", table |-> t, pk |-> PkColumns(fields), columns |-> cs]
  BY DEF CreateTableSQL, CreateTable
<1>2. /\ DOMAIN fields = 1..Len(fields) /\ Len(fields) \in Nat
      /\ \A n \in DOMAIN fields : fields[n] \in Field
      /\ PkColumns(fields) \subseteq ColumnsOf(fields)
  BY FieldsOf DEF PkColumns, KeyFields, ColumnsOf
<1>3. cs \in Seq(Column)
  <2>1. \A f \in Field : f.column \in Columns /\ f.def \in Defs
    BY DEF Field
  <2>2. cs \in [1..Len(fields) -> Column]
    BY <1>2, <2>1 DEF Column
  <2>3. QED BY <1>2, <2>2, SeqDef
<1>4. {col.name : col \in ToSet(cs)} = ColumnsOf(fields)
  <2>1. DOMAIN cs = DOMAIN fields /\ \A n \in DOMAIN fields : cs[n].name = fields[n].column
    OBVIOUS
  <2> HIDE DEF cs
  <2>2. QED BY <2>1 DEF ColumnsOf, ToSet
<1> HIDE DEF cs
<1>5. tbl = [columns |-> cs, pk |-> PkColumns(fields), indexes |-> {}] /\ tbl.columns = cs
  BY <1>1
<1> HIDE DEF tbl
<1>6. IsTable(tbl)
  BY <1>2, <1>3, <1>4, <1>5, TableFromParts
<1>7. ColumnNames(tbl) = {col.name : col \in ToSet(cs)}
  BY <1>3, <1>5, NamesOfColumns
<1>8. QED BY <1>1, <1>4, <1>6, <1>7 DEF tbl

-----------------------------------------------------------------------------
(* What a planned statement keeps.                                         *)

\* The column has its data, under its name.
Holds(tbl, c) == \E col \in ToSet(tbl.columns) : col.name = c /\ col.data = c

\* A field declares the column, under its name or under the Go name it is read with.
Declares(f, c) == f.column = c \/ f.name = Camel[c]

\* DeclaredDataKept, of any tables.
DataKept(d, file, was) ==
  \A t \in DOMAIN was \intersect DOMAIN file :
    ~Respelled(was[t], file[t]) =>
      \A c \in ColumnNames(was[t]), n \in DOMAIN file[t] :
        Declares(file[t][n], c) => t \in DOMAIN d /\ Holds(d[t], c)

\* What becomes of one table.
TableKept(tbl, new, t, file, was) ==
  /\ IsTable(new)
  /\ t \in DOMAIN file => ColumnNames(new) \subseteq ColumnNames(tbl) \union ColumnsOf(file[t])
  /\ t \in DOMAIN file \intersect DOMAIN was /\ ~Respelled(was[t], file[t]) =>
       \A c \in ColumnNames(was[t]), n \in DOMAIN file[t] :
         Declares(file[t][n], c) /\ Holds(tbl, c) => Holds(new, c)

\* A statement that drops no column, or one that no field declares.
LEMMA KeepsTable ==
  ASSUME NEW was, IsDatabase(was), NEW file, NEW t, NEW tbl, NEW new, NEW gone, NEW added,
         Keeps(tbl, new, gone, added), t \in DOMAIN file => added \subseteq ColumnsOf(file[t]),
         t \in DOMAIN file \intersect DOMAIN was /\ ~Respelled(was[t], file[t]) =>
           \A c \in ColumnNames(was[t]), n \in DOMAIN file[t] : Declares(file[t][n], c) => gone # c
  PROVE  TableKept(tbl, new, t, file, was)
BY DEF Keeps, TableKept, Holds

\* A statement that alters a table, planned from a reading of the tables.
LEMMA AlterationKeeps ==
  ASSUME NEW was, IsDatabase(was), NEW file, IsSource(file),
         NEW tables, Reading(tables, file, was), NEW s, IsStatement(s, file, tables),
         s.op \notin {"createTable", "dropTable", "createIndex", "dropIndex"},
         NEW tbl, IsTable(tbl), NEW live, NEW new \in AlterTable(tbl, s, live)
  PROVE  TableKept(tbl, new, s.table, file, was)
<1> DEFINE t == s.table
<1>1. IsSchema(file) /\ IsSchema(tables)
  BY DEF IsSource, Reading
<1>2. \A u \in DOMAIN was : ColumnNames(was[u]) \subseteq Columns /\ NewColumn \notin ColumnNames(was[u])
  BY NamesOfColumns, NewColumnAssumption DEF IsDatabase, TableState
<1>3. ASSUME NEW added, t \in DOMAIN file => added \subseteq ColumnsOf(file[t]),
             Keeps(tbl, new, NewColumn, added)
      PROVE  TableKept(tbl, new, t, file, was)
  <2>1. t \in DOMAIN file \intersect DOMAIN was /\ ~Respelled(was[t], file[t]) =>
          \A c \in ColumnNames(was[t]), n \in DOMAIN file[t] :
            Declares(file[t][n], c) => NewColumn # c
    BY <1>2
  <2> HIDE DEF t
  <2>2. QED BY <1>3, <2>1, KeepsTable
<1>4. CASE /\ s.op = "addColumn" /\ s.table \in DOMAIN file /\ s.def \in Defs
           /\ s.column \in ColumnsOf(file[s.table])
  <2>1. s.column \in Columns
    BY <1>1, <1>4, SchemaFields, FieldsOf
  <2>2. Keeps(tbl, new, NewColumn, {s.column})
    BY <1>4, <2>1, AddColumnDoes
  <2>3. {s.column} \subseteq ColumnsOf(file[t])
    BY <1>4
  <2>4. QED BY <1>3, <2>2, <2>3
<1>5. CASE \E u \in DOMAIN file : \E f \in ToSet(file[u]) : s = AlterColumn(f)
  <2>1. PICK u \in DOMAIN file : \E f \in ToSet(file[u]) : s = AlterColumn(f)
    BY <1>5
  <2>2. PICK f \in ToSet(file[u]) : s = AlterColumn(f)
    BY <2>1
  <2>3. s.op = "alterColumn" /\ s.type = f.def.type /\ s.nullable = f.def.nullable
    BY <2>2 DEF AlterColumn
  <2>4. f.def \in Defs
    BY <1>1, SchemaFields DEF Field
  <2> DEFINE col == ColumnNamed(tbl, s.column)
             def == [col.def EXCEPT !.type = s.type, !.nullable = s.nullable]
  <2>5. s.column \in ColumnNames(tbl) /\ new = Redefined(tbl, s.column, def)
    BY <2>3 DEF AlterTable, Altered, OnlyIf
  <2>6. col.def \in Defs
    BY <2>5, ColumnNamedType
  <2>7. def \in Defs
    BY <2>3, <2>4, <2>6, DefinitionType
  <2> HIDE DEF def
  <2>8. Keeps(tbl, new, NewColumn, {})
    BY <2>5, <2>7, RedefinedDoes
  <2>9. QED BY <1>3, <2>8
<1>6. CASE s.op = "setOptions" /\ s.table \in DOMAIN file /\ \E d \in Defs : s.extra = d.extra
  <2> DEFINE col == ColumnNamed(tbl, s.column)
             def == [col.def EXCEPT !.extra = s.extra]
  <2>1. s.column \in ColumnNames(tbl) /\ new = Redefined(tbl, s.column, def)
    BY <1>6 DEF AlterTable
  <2>2. col.def \in Defs
    BY <2>1, ColumnNamedType
  <2>3. def \in Defs
    BY <1>6, <2>2, DefinitionType
  <2> HIDE DEF def
  <2>4. Keeps(tbl, new, NewColumn, {})
    BY <2>1, <2>3, RedefinedDoes
  <2>5. QED BY <1>3, <2>4
<1>7. CASE \E u \in DOMAIN file \intersect DOMAIN tables :
             \E o \in ToSet(tables[u]) : DropColumnSQL(DropColumn(o)) = <<s>> /\ IsDropped(file[u], o)
  <2>1. PICK u \in DOMAIN file \intersect DOMAIN tables :
             \E o \in ToSet(tables[u]) : DropColumnSQL(DropColumn(o)) = <<s>> /\ IsDropped(file[u], o)
    BY <1>7
  <2>2. PICK o \in ToSet(tables[u]) : DropColumnSQL(DropColumn(o)) = <<s>> /\ IsDropped(file[u], o)
    BY <2>1
  <2>3. o.table = u
    BY <1>1, SchemaFields
  <2>4. s.op = "dropColumn" /\ t = u /\ s.column = o.column
    BY <2>2, <2>3 DEF DropColumnSQL, DropColumn
  <2>5. Keeps(tbl, new, s.column, {})
    BY <2>4, DropColumnDoes
  <2>6. ASSUME t \in DOMAIN file \intersect DOMAIN was, ~Respelled(was[t], file[t]),
               NEW c \in ColumnNames(was[t]), NEW n \in DOMAIN file[t], Declares(file[t][n], c)
        PROVE  s.column # c
    BY <1>1, <2>2, <2>4, <2>6, DropSpares DEF Declares
  <2>7. TableKept(tbl, new, t, file, was)
    <3>1. t \in DOMAIN file => {} \subseteq ColumnsOf(file[t])
      OBVIOUS
    <3> HIDE DEF t
    <3>2. QED BY <2>5, <2>6, <3>1, KeepsTable
  <2>8. QED BY <2>7
<1>8. CASE \E u \in DOMAIN file : CreateTableSQL(CreateTable(u, file[u])) = <<s>>
  BY <1>8 DEF CreateTableSQL, CreateTable
<1>9. QED BY <1>4, <1>5, <1>6, <1>7, <1>8 DEF IsStatement

\* A statement that changes tables, each of them as above.
LEMMA TablesKept ==
  ASSUME NEW d, IsDatabase(d), NEW was, NEW file, NEW new, DOMAIN new = DOMAIN d,
         new = [t \in DOMAIN d |-> new[t]],
         \A t \in DOMAIN d : new[t] = d[t] \/ TableKept(d[t], new[t], t, file, was)
  PROVE  /\ IsDatabase(new)
         /\ Known(d, file, was) => Known(new, file, was)
         /\ DataKept(d, file, was) => DataKept(new, file, was)
<1>1. \A t \in DOMAIN new : IsTable(new[t])
  BY DEF IsDatabase, TableKept
<1>2. \A t \in DOMAIN new : new[t] \in TableState
  BY <1>1 DEF IsTable
<1>3. IsDatabase(new)
  BY <1>1, <1>2 DEF IsDatabase
<1>4. Known(d, file, was) => Known(new, file, was)
  BY DEF Known, TableKept
<1>5. DataKept(d, file, was) => DataKept(new, file, was)
  BY DEF DataKept, TableKept
<1>6. QED BY <1>3, <1>4, <1>5

\* The indexes of a table are others.
LEMMA OtherIndexes ==
  ASSUME NEW tbl, IsTable(tbl), NEW xs,
         \A x \in xs : x \in Index /\ ToSet(x.columns) \subseteq ColumnNames(tbl)
  PROVE  LET new == [tbl EXCEPT !.indexes = xs]
         IN  IsTable(new) /\ new.columns = tbl.columns
<1> DEFINE cs == tbl.columns
           pk == tbl.pk
<1>1. tbl = [columns |-> cs, pk |-> pk, indexes |-> tbl.indexes]
  BY PartsOfTable
<1>2. [tbl EXCEPT !.indexes = xs] = [columns |-> cs, pk |-> pk, indexes |-> xs]
  BY <1>1
<1>3. /\ cs \in Seq(Column) /\ pk \subseteq {col.name : col \in ToSet(cs)}
      /\ \A x \in xs : x \in Index /\ ToSet(x.columns) \subseteq {col.name : col \in ToSet(cs)}
  BY PartsOfTable
<1> HIDE DEF cs, pk
<1>4. IsTable([columns |-> cs, pk |-> pk, indexes |-> xs])
  BY <1>3, TableFromParts
<1>5. QED BY <1>2, <1>4 DEF cs

\* A table with the same columns is kept.
LEMMA SameColumnsKept ==
  ASSUME NEW tbl, NEW new, IsTable(new), new.columns = tbl.columns, NEW t, NEW file, NEW was
  PROVE  TableKept(tbl, new, t, file, was)
BY DEF TableKept, ColumnNames, Holds

\* A planned statement keeps the tables well formed, their columns known, and the data of
\* the declared columns.
LEMMA StatementKeeps ==
  ASSUME NEW d, IsDatabase(d), NEW was, IsDatabase(was), NEW file, IsSource(file),
         NEW tables, Reading(tables, file, was), NEW s \in Statements(file, tables),
         NEW live, NEW new \in Result(d, s, live)
  PROVE  /\ IsDatabase(new)
         /\ Known(d, file, was) => Known(new, file, was)
         /\ DataKept(d, file, was) => DataKept(new, file, was)
<1>1. IsSchema(file) /\ IsSchema(tables)
  BY DEF IsSource, Reading
<1>2. IsStatement(s, file, tables)
  BY <1>1, SQLType DEF Statements
<1>3. /\ DOMAIN d \subseteq Tables
      /\ d = [t \in DOMAIN d |-> d[t]]
      /\ \A t \in DOMAIN d : IsTable(d[t]) /\ d[t] \in TableState
  BY DEF IsDatabase
<1>4. CASE s.op = "createTable"
  <2> DEFINE tbl == [columns |-> s.columns, pk |-> s.pk, indexes |-> {}]
  <2>1. s.table \notin DOMAIN d /\ new = WithTable(d, s.table, tbl)
    BY <1>4 DEF Result, OnlyIf
  <2>2. PICK t \in DOMAIN file : CreateTableSQL(CreateTable(t, file[t])) = <<s>>
    BY <1>2, <1>4 DEF IsStatement, AlterColumn, DropColumnSQL
  <2>3. s.table = t /\ IsTable(tbl) /\ ColumnNames(tbl) = ColumnsOf(file[t]) /\ t \in Tables
    BY <1>1, <2>2, SchemaFields, CreateTableDoes
  <2> HIDE DEF tbl
  <2>4. /\ DOMAIN new = DOMAIN d \union {t} /\ new = [u \in DOMAIN new |-> new[u]]
        /\ new[t] = tbl
        /\ \A u \in DOMAIN d : u # t /\ new[u] = d[u]
    BY <2>1, <2>3 DEF WithTable
  <2>5. IsDatabase(new)
    <3>1. \A u \in DOMAIN new : IsTable(new[u])
      BY <1>3, <2>3, <2>4
    <3>2. \A u \in DOMAIN new : new[u] \in TableState
      BY <3>1 DEF IsTable
    <3>3. QED BY <1>3, <2>3, <2>4, <3>1, <3>2 DEF IsDatabase
  <2>6. Known(d, file, was) => Known(new, file, was)
    BY <2>3, <2>4 DEF Known
  <2>7. DataKept(d, file, was) => DataKept(new, file, was)
    BY <2>4 DEF DataKept
  <2>8. QED BY <2>5, <2>6, <2>7
<1>5. CASE s.op # "createTable" /\ s.table \notin DOMAIN d
  BY <1>5 DEF Result
<1>6. CASE s.op = "dropTable" /\ s.table \in DOMAIN d
  <2>1. new = [t \in DOMAIN d \ {s.table} |-> d[t]]
    BY <1>6 DEF Result, OnlyIf, Restrict
  <2>2. DOMAIN file = {}
    BY <1>2, <1>6 DEF IsStatement, CreateTableSQL, CreateTable, AlterColumn, DropColumnSQL
  <2>3. IsDatabase(new)
    BY <1>3, <2>1 DEF IsDatabase
  <2>4. QED BY <2>2, <2>3 DEF Known, DataKept
<1>7. CASE s.op = "createIndex" /\ s.table \in DOMAIN d
  <2> DEFINE t   == s.table
             xs  == d[t].indexes \union {s.index}
             tbl == [d[t] EXCEPT !.indexes = xs]
  <2>1. new = [d EXCEPT ![t] = tbl] /\ ToSet(s.index.columns) \subseteq ColumnNames(d[t])
    BY <1>7 DEF Result, OnlyIf
  <2>2. s.index \in Index
    BY <1>2, <1>7 DEF IsStatement, CreateTableSQL, CreateTable, AlterColumn, DropColumnSQL
  <2>3. \A x \in xs : x \in Index /\ ToSet(x.columns) \subseteq ColumnNames(d[t])
    BY <1>3, <1>7, <2>1, <2>2 DEF IsTable, TableState
  <2> HIDE DEF xs
  <2>4. IsTable(d[t])
    BY <1>3, <1>7
  <2>5. IsTable(tbl) /\ tbl.columns = d[t].columns
    BY <2>3, <2>4, OtherIndexes
  <2>6. TableKept(d[t], tbl, t, file, was)
    BY <2>5, SameColumnsKept
  <2> HIDE DEF tbl, t
  <2>7. /\ DOMAIN new = DOMAIN d /\ new = [u \in DOMAIN d |-> new[u]]
        /\ \A u \in DOMAIN d : new[u] = d[u] \/ TableKept(d[u], new[u], u, file, was)
    BY <1>3, <2>1, <2>6
  <2>8. QED BY <2>7, TablesKept
<1>8. CASE s.op = "dropIndex" /\ s.table \in DOMAIN d
  <2> DEFINE xs(t)  == {x \in d[t].indexes : x.name # s.name}
             tbl(t) == [d[t] EXCEPT !.indexes = xs(t)]
  <2>1. new = [t \in DOMAIN d |-> tbl(t)]
    BY <1>8 DEF Result, OnlyIf
  <2>2. ASSUME NEW t \in DOMAIN d PROVE TableKept(d[t], tbl(t), t, file, was)
    <3>1. IsTable(d[t]) /\ \A x \in xs(t) : x \in Index /\ ToSet(x.columns) \subseteq ColumnNames(d[t])
      BY <1>3 DEF IsTable, TableState
    <3> HIDE DEF xs
    <3>2. IsTable(tbl(t)) /\ tbl(t).columns = d[t].columns
      BY <3>1, OtherIndexes
    <3> HIDE DEF tbl
    <3>3. QED BY <3>2, SameColumnsKept
  <2> HIDE DEF tbl
  <2>3. /\ DOMAIN new = DOMAIN d /\ new = [t \in DOMAIN d |-> new[t]]
        /\ \A t \in DOMAIN d : new[t] = d[t] \/ TableKept(d[t], new[t], t, file, was)
    BY <2>1, <2>2
  <2>4. QED BY <2>3, TablesKept
<1>9. CASE /\ s.op \notin {"createTable", "dropTable", "createIndex", "dropIndex"}
           /\ s.table \in DOMAIN d
  <2> DEFINE t == s.table
  <2>1. new \in {[d EXCEPT ![t] = tbl] : tbl \in AlterTable(d[t], s, live)}
    BY <1>9 DEF Result
  <2>2. PICK tbl \in AlterTable(d[t], s, live) : new = [d EXCEPT ![t] = tbl]
    BY <2>1
  <2>3. IsTable(d[t])
    BY <1>3, <1>9
  <2>4. TableKept(d[t], tbl, t, file, was)
    BY <1>2, <1>9, <2>3, AlterationKeeps
  <2> HIDE DEF t
  <2>5. /\ DOMAIN new = DOMAIN d /\ new = [u \in DOMAIN d |-> new[u]]
        /\ \A u \in DOMAIN d : new[u] = d[u] \/ TableKept(d[u], new[u], u, file, was)
    BY <1>3, <2>2, <2>4
  <2>6. QED BY <2>5, TablesKept
<1>10. QED BY <1>4, <1>5, <1>6, <1>7, <1>8, <1>9

-----------------------------------------------------------------------------
(* The inductive invariant.                                                *)

\* DeclaredDataKept is not inductive without it: what a run has left to do was planned from
\* a reading of tables whose columns are known.
Inv ==
  /\ IsHistory(versions)
  /\ IsDatabase(db) /\ IsDatabase(before)
  /\ Known(db, File, before) /\ DataKept(db, File, before)
  /\ pc \in {"idle", "exec", "ok", "failed"}
  /\ pc = "idle" => plan = <<>>
  /\ plan # <<>> =>
       \E tables : Reading(tables, File, before) /\ plan \in Seq(Statements(File, tables))

\* Where each column holds its own data, nothing is lost yet.
LEMMA NothingLostYet ==
  ASSUME NEW d, NEW file, IsDatabase(d),
         \A t \in DOMAIN d : \A col \in ToSet(d[t].columns) : col.data = col.name
  PROVE  Known(d, file, d) /\ DataKept(d, file, d)
<1>1. \A t \in DOMAIN d : ColumnNames(d[t]) = {col.name : col \in ToSet(d[t].columns)}
  BY NamesOfColumns DEF IsDatabase, TableState
<1>2. \A t \in DOMAIN d : \A c \in ColumnNames(d[t]) : Holds(d[t], c)
  BY <1>1 DEF Holds
<1>3. QED BY <1>2 DEF Known, DataKept

LEMMA InitInv == Init => Inv
<1> SUFFICES ASSUME Init PROVE Inv
  OBVIOUS
<1>1. PICK h \in Histories : db = [t \in DOMAIN h[1] |-> Built(t, h[1][t])] /\ versions = Tail(h)
  BY DEF Init
<1>2. IsHistory(h) /\ IsHistory(versions) /\ IsSource(h[1])
  BY <1>1, HistoriesAssumption, HistoryTail
<1>3. IsDatabase(db) /\ \A t \in DOMAIN db : \A col \in ToSet(db[t].columns) : col.data = col.name
  BY <1>1, <1>2, BuiltDatabase
<1>4. Known(db, File, before) /\ DataKept(db, File, before)
  BY <1>3, NothingLostYet DEF Init
<1>5. QED BY <1>2, <1>3, <1>4 DEF Inv, Init

\* One statement of a run, executed.
LEMMA ExecutedInv ==
  ASSUME Inv, plan # <<>>, NEW new \in Result(db, Head(plan), rows)
  PROVE  IsDatabase(new) /\ Known(new, File, before) /\ DataKept(new, File, before)
<1>1. PICK tables : Reading(tables, File, before) /\ plan \in Seq(Statements(File, tables))
  BY DEF Inv
<1>2. Head(plan) \in Statements(File, tables)
  BY <1>1, HeadAndTail
<1>3. IsSource(File)
  BY HistoryTail DEF Inv, File
<1>4. QED BY <1>1, <1>2, <1>3, StatementKeeps DEF Inv

LEMMA NextInv == ASSUME Inv, [Next]_vars PROVE Inv'
<1>1. CASE UNCHANGED vars
  BY <1>1 DEF Inv, File, vars
<1>2. CASE Edit
  <2>1. /\ db' = Marked(db) /\ before' = Marked(db) /\ versions' = Tail(versions)
        /\ Len(versions) > 1 /\ pc = "idle" /\ UNCHANGED <<pc, plan>>
    BY <1>2 DEF Edit
  <2>2. /\ IsDatabase(db')
        /\ \A t \in DOMAIN db' : \A col \in ToSet(db'[t].columns) : col.data = col.name
    BY <2>1, MarkedType DEF Inv
  <2>3. Known(db', File', db') /\ DataKept(db', File', db')
    BY <2>2, NothingLostYet
  <2>4. IsHistory(versions')
    BY <2>1, HistoryTail DEF Inv
  <2>5. QED BY <2>1, <2>2, <2>3, <2>4 DEF Inv
<1>3. CASE Plan
  <2>1. /\ UNCHANGED <<db, versions, before>> /\ pc' = "exec"
        /\ \E tables \in Reads(db) : plan' \in Planned(File, tables)
    BY <1>3 DEF Plan
  <2>2. PICK tables \in Reads(db) : plan' \in Planned(File, tables)
    BY <2>1
  <2>3. Reading(tables, File, before)
    BY ReadsReading DEF Inv
  <2>4. IsSchema(File) /\ IsSchema(tables)
    BY <2>3, HistoryTail DEF Inv, File, IsSource, Reading
  <2>5. plan' \in Seq(Statements(File, tables))
    BY <2>2, <2>4, PlannedType
  <2>6. File' = File
    BY <2>1 DEF File
  <2>7. \E r : Reading(r, File, before) /\ plan' \in Seq(Statements(File, r))
    BY <2>3, <2>5
  <2>8. QED BY <2>1, <2>6, <2>7 DEF Inv
<1>4. CASE Exec
  <2>1. /\ UNCHANGED <<versions, before, pc>> /\ pc = "exec" /\ plan # <<>>
        /\ db' \in Result(db, Head(plan), rows) /\ plan' = Tail(plan)
    BY <1>4 DEF Exec
  <2>2. IsDatabase(db') /\ Known(db', File, before) /\ DataKept(db', File, before)
    BY <2>1, ExecutedInv
  <2>3. PICK tables : Reading(tables, File, before) /\ plan \in Seq(Statements(File, tables))
    BY <2>1 DEF Inv
  <2>4. plan' \in Seq(Statements(File, tables))
    BY <2>1, <2>3, HeadAndTail
  <2>5. \E r : Reading(r, File, before) /\ plan' \in Seq(Statements(File, r))
    BY <2>3, <2>4
  <2>6. File' = File
    BY <2>1 DEF File
  <2>7. QED BY <2>1, <2>2, <2>5, <2>6 DEF Inv
<1>5. CASE Interrupted
  <2>1. /\ UNCHANGED <<versions, before, plan>> /\ pc' = "failed" /\ plan # <<>>
        /\ db' \in Result(db, Head(plan), rows) \union {db}
    BY <1>5 DEF Interrupted
  <2>2. IsDatabase(db') /\ Known(db', File, before) /\ DataKept(db', File, before)
    <3>1. CASE db' = db
      BY <3>1 DEF Inv
    <3>2. CASE db' \in Result(db, Head(plan), rows)
      BY <2>1, <3>2, ExecutedInv
    <3>3. QED BY <2>1, <3>1, <3>2
  <2>3. File' = File
    BY <2>1 DEF File
  <2>4. QED BY <2>1, <2>2, <2>3 DEF Inv
<1>6. CASE Refused
  BY <1>6 DEF Refused, Inv, File
<1>7. CASE Commit
  BY <1>7 DEF Commit, Inv, File
<1>8. CASE Exit
  BY <1>8 DEF Exit, Inv, File
<1>9. QED
  BY <1>1, <1>2, <1>3, <1>4, <1>5, <1>6, <1>7, <1>8 DEF Next, Run

\* The invariant holds in every state of every behaviour.
LEMMA Invariant == Spec => []Inv
<1>1. Init => Inv
  BY InitInv
<1>2. Inv /\ [Next]_vars => Inv'
  BY NextInv
<1>3. QED BY <1>1, <1>2, PTL DEF Spec

-----------------------------------------------------------------------------
(* The theorems.                                                           *)

\* However often runs are refused or interrupted and started again: a column that the source
\* still declares, under its name or under the Go name it is read with, keeps its name and
\* its data.
THEOREM DeclaredDataIsKept == Spec => []DeclaredDataKept
<1>1. Inv => DeclaredDataKept
  BY DEF Inv, DataKept, Holds, Declares, DeclaredDataKept
<1>2. QED BY <1>1, Invariant, PTL

\* The parts of a definition that is given others.
LEMMA DefinitionParts ==
  ASSUME NEW d \in Defs, NEW type, NEW nullable, NEW extra
  PROVE  /\ LET e == [d EXCEPT !.type = type, !.nullable = nullable]
            IN  e.type = type /\ e.nullable = nullable /\ e.extra = d.extra
         /\ LET e == [d EXCEPT !.nullable = nullable]
            IN  e.type = d.type /\ e.nullable = nullable /\ e.extra = d.extra
         /\ LET e == [d EXCEPT !.extra = extra]
            IN  e.type = d.type /\ e.nullable = d.nullable /\ e.extra = extra
         /\ \A e \in Defs : e.type = d.type /\ e.nullable = d.nullable /\ e.extra = d.extra => e = d
<1> DEFINE Types == {e.type : e \in Defs}
           Extras == {e.extra : e \in Defs}
<1>1. Defs = [type : Types, nullable : BOOLEAN, extra : Extras]
  BY DefsAssumption
<1> HIDE DEF Types, Extras
<1>2. QED BY <1>1

-----------------------------------------------------------------------------
(* What the statements on the columns make of a table.                     *)

\* No column, key or index but what is said of the columns is another.
OtherColumns(tbl, new) ==
  /\ new.pk = tbl.pk /\ new.indexes = tbl.indexes
  /\ DistinctColumns(tbl) => DistinctColumns(new)

LEMMA AddColumnMakes ==
  ASSUME NEW tbl, IsTable(tbl), NEW s, s.op = "addColumn", s.column \in Columns, s.def \in Defs,
         NEW live, NEW new \in AlterTable(tbl, s, live)
  PROVE  /\ OtherColumns(tbl, new) /\ s.column \notin ColumnNames(tbl)
         /\ \E col : /\ ToSet(new.columns) = ToSet(tbl.columns) \union {col}
                     /\ col.name = s.column /\ col.def = s.def
<1> DEFINE col == [name |-> s.column, def |-> s.def, data |-> NewColumn]
<1>1. new = [tbl EXCEPT !.columns = Append(@, col)] /\ s.column \notin ColumnNames(tbl)
  BY DEF AlterTable, OnlyIf
<1>2. col \in Column /\ col.name = s.column /\ col.def = s.def
  BY DEF Column
<1> HIDE DEF col
<1>3. /\ new.columns = Append(tbl.columns, col) /\ new.pk = tbl.pk /\ new.indexes = tbl.indexes
      /\ tbl.columns \in Seq(Column)
  BY <1>1, PartsOfTable
<1>4. ToSet(new.columns) = ToSet(tbl.columns) \union {col}
  BY <1>2, <1>3, AppendElements
<1>5. DistinctColumns(tbl) => DistinctColumns(new)
  BY <1>1, <1>2, <1>3, DistinctAppend
<1>6. QED BY <1>1, <1>2, <1>3, <1>4, <1>5 DEF OtherColumns

LEMMA DropColumnMakes ==
  ASSUME NEW tbl, IsTable(tbl), NEW s, s.op = "dropColumn",
         NEW live, NEW new \in AlterTable(tbl, s, live)
  PROVE  /\ OtherColumns(tbl, new)
         /\ ToSet(new.columns) = {col \in ToSet(tbl.columns) : col.name # s.column}
<1>1. new = [tbl EXCEPT !.columns = WithoutColumn(@, s.column)]
  BY DEF AlterTable, OnlyIf
<1>2. /\ new.columns = WithoutColumn(tbl.columns, s.column)
      /\ new.pk = tbl.pk /\ new.indexes = tbl.indexes /\ tbl.columns \in Seq(Column)
  BY <1>1, PartsOfTable
<1>3. DistinctColumns(tbl) => DistinctColumns(new)
  BY <1>2, DistinctWithout
<1>4. QED BY <1>2, <1>3, WithoutColumnElements DEF OtherColumns

\* The columns named c have another definition.
Redefines(a, b, c, def) == a.name = b.name /\ a.def = IF b.name = c THEN def ELSE b.def

LEMMA RedefinedMakes ==
  ASSUME NEW tbl, IsTable(tbl), NEW c, NEW def \in Defs, NEW new, new = Redefined(tbl, c, def)
  PROVE  /\ OtherColumns(tbl, new)
         /\ \A a \in ToSet(new.columns) : \E b \in ToSet(tbl.columns) : Redefines(a, b, c, def)
         /\ \A b \in ToSet(tbl.columns) : \E a \in ToSet(new.columns) : Redefines(a, b, c, def)
<1> DEFINE Changed(col) == IF col.name = c THEN [col EXCEPT !.def = def] ELSE col
           cs == [n \in DOMAIN tbl.columns |-> Changed(tbl.columns[n])]
<1>1. new = [tbl EXCEPT !.columns = cs]
  BY DEF Redefined
<1>2. /\ DOMAIN tbl.columns = 1..Len(tbl.columns) /\ Len(tbl.columns) \in Nat
      /\ \A n \in 1..Len(tbl.columns) : tbl.columns[n] \in Column
  BY PartsOfTable, Elements
<1>3. \A col \in Column : Changed(col) \in Column /\ Redefines(Changed(col), col, c, def)
  BY DEF Column, Redefines
<1>4. new.columns = cs /\ new.pk = tbl.pk /\ new.indexes = tbl.indexes
  BY <1>1, PartsOfTable
<1>5. \A n \in DOMAIN tbl.columns : cs[n] = Changed(tbl.columns[n])
  OBVIOUS
<1>6. DOMAIN cs = DOMAIN tbl.columns /\ cs = [n \in DOMAIN tbl.columns |-> cs[n]]
  OBVIOUS
<1> HIDE DEF Changed, cs
<1>7. \A n \in DOMAIN tbl.columns : cs[n] \in Column /\ Redefines(cs[n], tbl.columns[n], c, def)
  BY <1>2, <1>3, <1>5
<1>8. cs \in Seq(Column)
  BY <1>2, <1>6, <1>7, SeqDef
<1>9. DistinctColumns(tbl) => DistinctColumns(new)
  <2>1. \A m, n \in DOMAIN tbl.columns : new.columns[m].name = new.columns[n].name
            => tbl.columns[m].name = tbl.columns[n].name
    BY <1>4, <1>7 DEF Redefines
  <2>2. QED BY <1>4, <1>6, <1>8, <2>1, DistinctRenamed
<1>10. /\ \A a \in ToSet(cs) : \E b \in ToSet(tbl.columns) : Redefines(a, b, c, def)
       /\ \A b \in ToSet(tbl.columns) : \E a \in ToSet(cs) : Redefines(a, b, c, def)
  BY <1>6, <1>7 DEF ToSet
<1>11. QED BY <1>4, <1>9, <1>10 DEF OtherColumns

\* The statements on a column that is there.
LEMMA AlterColumnMakes ==
  ASSUME NEW tbl, IsTable(tbl), NEW f, f.def \in Defs, NEW s, s = AlterColumn(f),
         NEW live, NEW new \in AlterTable(tbl, s, live)
  PROVE  \E col \in ToSet(tbl.columns), def \in Defs :
           /\ col.name = s.column /\ new = Redefined(tbl, s.column, def)
           /\ def.type = f.def.type /\ def.nullable = f.def.nullable /\ def.extra = col.def.extra
<1> DEFINE col == ColumnNamed(tbl, s.column)
           def == [col.def EXCEPT !.type = s.type, !.nullable = s.nullable]
<1>1. s.op = "alterColumn" /\ s.type = f.def.type /\ s.nullable = f.def.nullable
  BY DEF AlterColumn
<1>2. s.column \in ColumnNames(tbl) /\ new = Redefined(tbl, s.column, def)
  BY <1>1 DEF AlterTable, Altered, OnlyIf
<1>3. col \in ToSet(tbl.columns) /\ col.name = s.column
  <2>1. \E a \in ToSet(tbl.columns) : a.name = s.column
    BY <1>2, PartsOfTable
  <2>2. QED BY <2>1 DEF ColumnNamed
<1>4. col.def \in Defs
  BY <1>2, ColumnNamedType
<1>5. def \in Defs
  BY <1>1, <1>4, DefinitionType
<1>6. def.type = f.def.type /\ def.nullable = f.def.nullable /\ def.extra = col.def.extra
  BY <1>1, <1>4, DefinitionParts
<1> HIDE DEF col, def
<1>7. QED BY <1>2, <1>3, <1>5, <1>6

LEMMA SetOptionsMakes ==
  ASSUME NEW tbl, IsTable(tbl), NEW s, s.op = "setOptions", \E d \in Defs : s.extra = d.extra,
         NEW live, NEW new \in AlterTable(tbl, s, live)
  PROVE  \E col \in ToSet(tbl.columns), def \in Defs :
           /\ col.name = s.column /\ new = Redefined(tbl, s.column, def)
           /\ def.type = col.def.type /\ def.nullable = col.def.nullable /\ def.extra = s.extra
<1> DEFINE col == ColumnNamed(tbl, s.column)
           def == [col.def EXCEPT !.extra = s.extra]
<1>1. s.column \in ColumnNames(tbl) /\ new = Redefined(tbl, s.column, def)
  BY DEF AlterTable
<1>2. col \in ToSet(tbl.columns) /\ col.name = s.column
  <2>1. \E a \in ToSet(tbl.columns) : a.name = s.column
    BY <1>1, PartsOfTable
  <2>2. QED BY <2>1 DEF ColumnNamed
<1>3. col.def \in Defs
  BY <1>1, ColumnNamedType
<1>4. def \in Defs
  BY <1>3, DefinitionType
<1>5. def.type = col.def.type /\ def.nullable = col.def.nullable /\ def.extra = s.extra
  BY <1>3, DefinitionParts
<1> HIDE DEF col, def
<1>6. QED BY <1>1, <1>2, <1>4, <1>5

-----------------------------------------------------------------------------
(* Tables as the server has them.                                          *)

\* Every table is well formed, and no two have an index of one name.
AllOwn(d) ==
  /\ \A t \in DOMAIN d : WellFormed(t, d[t])
  /\ \A t, u \in DOMAIN d : t # u => IndexNamesOf(d[t]) \intersect IndexNamesOf(d[u]) = {}

LEMMA AlterationOwns ==
  ASSUME NEW file, IsSchema(file), NEW tables, NEW s, IsStatement(s, file, tables),
         s.op \notin {"createTable", "dropTable", "createIndex", "dropIndex"},
         NEW tbl, IsTable(tbl), NEW live, NEW new \in AlterTable(tbl, s, live)
  PROVE  OtherColumns(tbl, new)
<1>1. CASE s.op = "addColumn" /\ s.def \in Defs
  <2>1. PICK t \in DOMAIN file : s.column \in ColumnsOf(file[t])
    BY <1>1 DEF IsStatement, CreateTableSQL, CreateTable, AlterColumn, DropColumnSQL
  <2>3. s.column \in Columns
    BY <2>1, SchemaFields DEF ColumnsOf, Field
  <2>2. QED BY <1>1, <2>3, AddColumnMakes
<1>2. CASE \E t \in DOMAIN file : \E f \in ToSet(file[t]) : s = AlterColumn(f)
  <2>1. PICK t \in DOMAIN file : \E f \in ToSet(file[t]) : s = AlterColumn(f)
    BY <1>2
  <2>2. PICK f \in ToSet(file[t]) : s = AlterColumn(f)
    BY <2>1
  <2>3. f.def \in Defs
    BY SchemaFields DEF Field
  <2>4. PICK def \in Defs : new = Redefined(tbl, s.column, def)
    BY <2>2, <2>3, AlterColumnMakes
  <2>5. QED BY <2>4, RedefinedMakes
<1>3. CASE s.op = "setOptions" /\ \E d \in Defs : s.extra = d.extra
  <2>1. PICK def \in Defs : new = Redefined(tbl, s.column, def)
    BY <1>3, SetOptionsMakes
  <2>2. QED BY <2>1, RedefinedMakes
<1>4. CASE s.op = "dropColumn"
  BY <1>4, DropColumnMakes
<1>5. QED
  BY <1>1, <1>2, <1>3, <1>4 DEF IsStatement, CreateTableSQL, CreateTable, DropColumnSQL

\* Tables of which some have other columns and some indexes less.
LEMMA FewerOwn ==
  ASSUME NEW d, AllOwn(d), NEW new, DOMAIN new \subseteq DOMAIN d,
         \A t \in DOMAIN new : /\ new[t].indexes \subseteq d[t].indexes
                               /\ DistinctColumns(new[t])
  PROVE  AllOwn(new)
<1>1. \A t \in DOMAIN new : WellFormed(t, new[t])
  BY DEF AllOwn, WellFormed
<1>2. \A t \in DOMAIN new : IndexNamesOf(new[t]) \subseteq IndexNamesOf(d[t])
  BY DEF IndexNamesOf
<1>3. QED BY <1>1, <1>2 DEF AllOwn

\* A planned statement leaves the tables as the server has them.
LEMMA StatementOwns ==
  ASSUME NEW d, IsDatabase(d), AllOwn(d), NEW file, IsSchema(file), NEW tables,
         NEW s, IsStatement(s, file, tables), NEW live, NEW new \in Result(d, s, live)
  PROVE  AllOwn(new)
<1>1. /\ d = [t \in DOMAIN d |-> d[t]]
      /\ \A t \in DOMAIN d : IsTable(d[t]) /\ DistinctColumns(d[t])
  BY DEF IsDatabase, AllOwn, WellFormed
<1>2. CASE s.op = "createTable"
  <2> DEFINE tbl == [columns |-> s.columns, pk |-> s.pk, indexes |-> {}]
  <2>1. s.table \notin DOMAIN d /\ new = WithTable(d, s.table, tbl) /\ DistinctColumns(s)
    BY <1>2 DEF Result, OnlyIf
  <2>2. tbl.indexes = {} /\ DistinctColumns(tbl)
    BY <2>1 DEF DistinctColumns
  <2> HIDE DEF tbl
  <2>3. /\ DOMAIN new = DOMAIN d \union {s.table} /\ new[s.table] = tbl
        /\ \A u \in DOMAIN d : u # s.table /\ new[u] = d[u]
    BY <2>1 DEF WithTable
  <2>4. \A t \in DOMAIN new : WellFormed(t, new[t])
    BY <2>2, <2>3 DEF AllOwn, WellFormed
  <2>5. IndexNamesOf(tbl) = {}
    BY <2>2 DEF IndexNamesOf
  <2>6. QED BY <2>3, <2>4, <2>5 DEF AllOwn
<1>3. CASE s.op # "createTable" /\ s.table \notin DOMAIN d
  BY <1>3 DEF Result
<1>4. CASE s.op = "dropTable" /\ s.table \in DOMAIN d
  <2>1. new = [t \in DOMAIN d \ {s.table} |-> d[t]]
    BY <1>4 DEF Result, OnlyIf, Restrict
  <2>2. QED BY <1>1, <2>1, FewerOwn
<1>5. CASE s.op = "createIndex" /\ s.table \in DOMAIN d
  <2> DEFINE t   == s.table
             x   == s.index
             tbl == [d[t] EXCEPT !.indexes = @ \union {x}]
  <2>1. /\ new = [d EXCEPT ![t] = tbl]
        /\ x.name \notin AllIndexNames(d) /\ x.name # PrimaryName /\ x.columns # <<>>
    BY <1>5 DEF Result, OnlyIf
  <2>2. x.table = t
    BY <1>5 DEF IsStatement, CreateTableSQL, CreateTable, AlterColumn, DropColumnSQL
  <2>3. IsTable(d[t]) /\ t \in DOMAIN d
    BY <1>1, <1>5
  <2>4. tbl.indexes = d[t].indexes \union {x} /\ tbl.columns = d[t].columns
    BY <2>3, PartsOfTable
  <2>5. \A u \in DOMAIN d : x.name \notin IndexNamesOf(d[u])
    BY <2>1 DEF AllIndexNames
  <2> HIDE DEF x, t, tbl
  <2>6. DistinctColumns(tbl)
    BY <1>1, <2>3, <2>4 DEF DistinctColumns
  <2>7. \A y \in d[t].indexes : y.name # x.name
    BY <2>3, <2>5 DEF IndexNamesOf
  <2>8. WellFormed(t, d[t])
    BY <2>3 DEF AllOwn
  <2>9. WellFormed(t, tbl)
    BY <2>1, <2>2, <2>4, <2>6, <2>7, <2>8 DEF WellFormed
  <2>10. IndexNamesOf(tbl) = IndexNamesOf(d[t]) \union {x.name}
    BY <2>4 DEF IndexNamesOf
  <2>11. DOMAIN new = DOMAIN d /\ \A u \in DOMAIN d : new[u] = IF u = t THEN tbl ELSE d[u]
    BY <1>1, <2>1
  <2>12. QED BY <2>5, <2>9, <2>10, <2>11 DEF AllOwn
<1>6. CASE s.op = "dropIndex" /\ s.table \in DOMAIN d
  <2> DEFINE tbl(t) == [d[t] EXCEPT !.indexes = {x \in @ : x.name # s.name}]
  <2>1. new = [t \in DOMAIN d |-> tbl(t)]
    BY <1>6 DEF Result, OnlyIf
  <2>2. ASSUME NEW t \in DOMAIN d
        PROVE  tbl(t).indexes \subseteq d[t].indexes /\ DistinctColumns(tbl(t))
    <3>1. tbl(t).columns = d[t].columns /\ tbl(t).indexes = {x \in d[t].indexes : x.name # s.name}
      BY <1>1, PartsOfTable
    <3>2. QED BY <1>1, <3>1 DEF DistinctColumns
  <2> HIDE DEF tbl
  <2>3. QED BY <2>1, <2>2, FewerOwn
<1>7. CASE /\ s.op \notin {"createTable", "dropTable", "createIndex", "dropIndex"}
           /\ s.table \in DOMAIN d
  <2> DEFINE t == s.table
  <2>1. new \in {[d EXCEPT ![t] = tbl] : tbl \in AlterTable(d[t], s, live)}
    BY <1>7 DEF Result
  <2>2. PICK tbl \in AlterTable(d[t], s, live) : new = [d EXCEPT ![t] = tbl]
    BY <2>1
  <2>3. OtherColumns(d[t], tbl)
    BY <1>1, <1>7, AlterationOwns
  <2>4. tbl.indexes = d[t].indexes /\ DistinctColumns(tbl)
    BY <1>1, <1>7, <2>3 DEF OtherColumns
  <2> HIDE DEF t
  <2>5. DOMAIN new = DOMAIN d /\ \A u \in DOMAIN d : new[u] = IF u = t THEN tbl ELSE d[u]
    BY <1>1, <2>2
  <2>6. QED BY <1>1, <2>4, <2>5, FewerOwn
<1>8. QED BY <1>2, <1>3, <1>4, <1>5, <1>6, <1>7

-----------------------------------------------------------------------------
(* What a run reads.                                                       *)

\* The rows of a column, one at most, are one field that is read as it is.
LEMMA ColumnIsRead ==
  ASSUME NEW t \in Tables, NEW tbl, IsTable(tbl), WellFormed(t, tbl), ~Shared(tbl),
         ~ReadAsDefault(t, tbl), NEW col \in ToSet(tbl.columns), Snake[Camel[col.name]] = col.name,
         NEW rs \in ColumnRows(t, tbl, col)
  PROVE  rs \in Seq(Field) /\ \E o : ToSet(rs) = {o} /\ ReadAs(t, tbl, col, o)
<1> DEFINE set == IndexRows(tbl, col.name)
           f(isPk) == FieldOf(t, col, isPk, set)
<1>1. col \in Column /\ col.name \in ColumnNames(tbl)
  BY PartsOfTable, Elements
<1>2. tbl \in TableState
  BY DEF IsTable
<1>3. rs \in Seq({o \in Field : IsRead(o, t, col.name)})
  BY <1>1, <1>2, ColumnRowsType
<1>4. rs \in Seq(Field)
  BY <1>3, SeqMonotonic
<1>5. Small(set) /\ IsFiniteSet(set)
  BY <1>1, FewRows, RowsType
<1>6. ASSUME NEW isPk \in BOOLEAN, isPk <=> \E r \in set : r.name = PrimaryName
      PROVE  ReadAs(t, tbl, col, f(isPk))
  BY <1>6, FieldIsReadAs
<1>7. CASE set = {}
  <2>1. rs = <<f(FALSE)>>
    BY <1>7 DEF ColumnRows
  <2>2. ReadAs(t, tbl, col, f(FALSE))
    BY <1>6, <1>7
  <2> HIDE DEF f
  <2>3. ToSet(rs) = {f(FALSE)}
    BY <2>1, OneElement
  <2>4. QED BY <1>4, <2>2, <2>3
<1>8. CASE \E a : set = {a}
  <2>1. PICK a : set = {a}
    BY <1>8
  <2> DEFINE isPk == a.name = PrimaryName
  <2>2. PICK r \in SetToSeqs(set) :
          rs = [n \in DOMAIN r |-> FieldOf(t, col, r[n].name = PrimaryName, {r[n]})]
    BY <1>8 DEF ColumnRows
  <2>3. /\ \A n \in DOMAIN r : r[n] = a
        /\ \E n : n \in DOMAIN r
    <3>1. \A n \in DOMAIN r : r[n] \in set
      BY <1>5, SetToSeqType, Elements
    <3> HIDE DEF set
    <3>2. Cardinality(set) = 1
      BY <2>1, FS_Singleton
    <3>4. DOMAIN r = 1..1
      BY <3>2 DEF SetToSeqs
    <3>3. QED BY <2>1, <3>1, <3>4
  <2>4. ReadAs(t, tbl, col, f(isPk))
    <3>1. isPk \in BOOLEAN /\ (isPk <=> \E x \in set : x.name = PrimaryName)
      BY <2>1
    <3> HIDE DEF isPk, f
    <3>2. QED BY <1>6, <3>1
  <2>5. \A n \in DOMAIN r : FieldOf(t, col, r[n].name = PrimaryName, {r[n]}) = f(isPk)
    BY <2>1, <2>3
  <2> HIDE DEF f, isPk
  <2>6. ToSet(rs) = {f(isPk)}
    BY <2>2, <2>3, <2>5 DEF ToSet
  <2>7. QED BY <1>4, <2>4, <2>6
<1>9. QED BY <1>5, <1>7, <1>8 DEF Small

\* A table is read as it is.
LEMMA TableIsRead ==
  ASSUME NEW t \in Tables, NEW tbl, IsTable(tbl), WellFormed(t, tbl), ~Shared(tbl),
         ~ReadAsDefault(t, tbl), \A c \in ColumnNames(tbl) : Snake[Camel[c]] = c,
         NEW old, IsAnswer(old, t, tbl)
  PROVE  IsReading(t, tbl, old)
<1> DEFINE cs == tbl.columns
<1>1. PICK rs : /\ old = FlattenSeq(rs)
                /\ DOMAIN rs = DOMAIN cs /\ rs = [n \in DOMAIN cs |-> rs[n]]
                /\ \A n \in DOMAIN cs : rs[n] \in ColumnRows(t, tbl, cs[n])
  BY DEF IsAnswer
<1>2. /\ DOMAIN cs = 1..Len(cs) /\ Len(cs) \in Nat /\ \A n \in DOMAIN cs : cs[n] \in ToSet(cs)
      /\ \A col \in ToSet(cs) : Snake[Camel[col.name]] = col.name
  BY PartsOfTable, Elements
<1>3. \A n \in DOMAIN cs : rs[n] \in Seq(Field) /\ \E o : ToSet(rs[n]) = {o} /\ ReadAs(t, tbl, cs[n], o)
  BY <1>1, <1>2, ColumnIsRead
<1>4. \A col \in ToSet(cs) : \E n \in DOMAIN cs : col = cs[n]
  BY DEF ToSet
<1> HIDE DEF cs
<1>5. rs \in [1..Len(cs) -> Seq(Field)]
  BY <1>1, <1>2, <1>3
<1>6. old \in Seq(Field) /\ ToSet(old) = UNION {ToSet(rs[n]) : n \in 1..Len(cs)}
  BY <1>1, <1>2, <1>5, FlattenUnion
<1>7. ASSUME NEW o \in ToSet(old) PROVE \E col \in ToSet(cs) : ReadAs(t, tbl, col, o)
  <2>1. PICK n \in 1..Len(cs) : o \in ToSet(rs[n])
    BY <1>6
  <2>2. QED BY <1>2, <1>3, <2>1
<1>8. ASSUME NEW col \in ToSet(cs) PROVE \E o \in ToSet(old) : ReadAs(t, tbl, col, o)
  <2>1. PICK n \in DOMAIN cs : col = cs[n]
    BY <1>4
  <2>2. PICK o : ToSet(rs[n]) = {o} /\ ReadAs(t, tbl, col, o)
    BY <1>3, <2>1
  <2>3. QED BY <1>2, <1>6, <2>2
<1>9. QED BY <1>6, <1>7, <1>8 DEF IsReading, cs

\* Outside the limits, what Diff is given is as DiffPlans asks for.
LEMMA ReadOutside ==
  ASSUME NEW d, IsDatabase(d), AllOwn(d), NEW tables \in Reads(d), IsSchema(tables),
         NEW s, IsSchema(s), ~Limited(d, s)
  PROVE  DiffOutside(d, tables, s)
<1>1. DOMAIN tables = DOMAIN d /\ \A t \in DOMAIN d : IsAnswer(tables[t], t, d[t])
  BY ReadsAnswers
<1>2. ASSUME NEW t \in DOMAIN s \intersect DOMAIN d
      PROVE  TableOutside(t, d[t], tables[t], s[t])
  <2>1. t \in Tables /\ s[t] \in Seq(Field) /\ IsTable(d[t]) /\ WellFormed(t, d[t])
    BY DEF IsSchema, IsDatabase, AllOwn
  <2>2. /\ ~Ambiguous(t, s[t]) /\ ~ReadAsDefault(t, d[t]) /\ ~Alias(d[t], s[t])
        /\ ~Respelled(d[t], s[t]) /\ ~Reshaped(t, d[t], s[t]) /\ ~Shared(d[t])
    BY DEF Limited
  <2>3. \A c \in ColumnNames(d[t]) : Snake[Camel[c]] = c
    BY <2>2 DEF Respelled
  <2>4. IsReading(t, d[t], tables[t])
    BY <1>1, <2>1, <2>2, <2>3, TableIsRead
  <2>5. QED BY <2>1, <2>2, <2>4 DEF TableOutside
<1>3. ~Leaked(d, s) /\ \A t \in DOMAIN s : ~Ambiguous(t, s[t])
  BY DEF Limited
<1>4. QED BY <1>1, <1>2, <1>3 DEF DiffOutside

-----------------------------------------------------------------------------
(* The statements of each change.                                          *)

CreatesTable(t, fields) ==
  [op |-> "createTable", table |-> t, pk |-> PkColumns(fields),
   columns |-> [n \in DOMAIN fields |->
                  [name |-> fields[n].column, def |-> fields[n].def, data |-> fields[n].column]]]
AddsColumn(f) ==
  [op |-> "addColumn", table |-> f.table, column |-> f.column, def |-> [f.def EXCEPT !.nullable = TRUE]]
SetsOptions(f) ==
  [op |-> "setOptions", table |-> f.table, column |-> f.column, extra |-> f.def.extra]
DropsColumn(t, c) == [op |-> "dropColumn", table |-> t, column |-> c]
CreatesIndex(y) == [op |-> "createIndex", table |-> y.table, index |-> y]
DropsIndex(t, y) == [op |-> "dropIndex", table |-> t, name |-> y]

\* No index is dropped twice.
DropStatements == [op : {"dropIndex"}, table : Tables, name : IndexNames]
Twice == {p \in DropStatements \X DropStatements : p[1].name = p[2].name}

\* A change is written as one statement, or as others than a DROP INDEX.
Written(c, X) ==
  /\ SQL(c) \in Seq(X) /\ ToSet(SQL(c)) = X /\ Ordered(SQL(c), Twice)

LEMMA WrittenOne ==
  ASSUME NEW c, NEW x, SQL(c) = <<x>>
  PROVE  Written(c, {x})
<1>1. <<x>> \in Seq({x}) /\ ToSet(<<x>>) = {x}
  BY OneElement
<1>2. Ordered(<<x>>, Twice)
  BY DEF Ordered
<1>3. QED BY <1>1, <1>2 DEF Written

LEMMA WrittenTwo ==
  ASSUME NEW c, NEW X, NEW Y, NEW x \in Seq(X), NEW y \in Seq(Y), ToSet(x) = X, ToSet(y) = Y,
         \A z \in X \union Y : z.op # "dropIndex", SQL(c) = x \o y
  PROVE  Written(c, X \union Y)
<1> DEFINE Z == X \union Y
           s == SQL(c)
<1>1. X \subseteq Z /\ Y \subseteq Z /\ \A z \in Z : z.op # "dropIndex"
  OBVIOUS
<1>2. s = x \o y
  OBVIOUS
<1>3. ToSet(x) \union ToSet(y) = Z
  OBVIOUS
<1> HIDE DEF Z, s
<1>4. x \in Seq(Z) /\ y \in Seq(Z)
  BY <1>1, SeqMonotonic
<1>5. s \in Seq(Z) /\ ToSet(s) = Z
  <2>1. x \o y \in Seq(Z) /\ ToSet(x \o y) = ToSet(x) \union ToSet(y)
    BY <1>4, ConcatSet
  <2>2. QED BY <1>2, <1>3, <2>1
<1>6. \A n \in DOMAIN s : s[n].op # "dropIndex"
  BY <1>1, <1>5, Elements
<1>7. Ordered(s, Twice)
  BY <1>6 DEF Ordered, Twice, DropStatements
<1>8. QED BY <1>5, <1>7 DEF Written, s, Z

\* A statement that is written on a condition.
OneIf(p, a) == {z \in {a} : p}

LEMMA WrittenIf ==
  ASSUME NEW a, NEW p, NEW x, x = IF p THEN <<a>> ELSE <<>>
  PROVE  x \in Seq(OneIf(p, a)) /\ ToSet(x) = OneIf(p, a)
<1>1. CASE p
  <2>1. x = <<a>> /\ OneIf(p, a) = {a}
    BY <1>1 DEF OneIf
  <2>2. <<a>> \in Seq({a}) /\ ToSet(<<a>>) = {a}
    BY OneElement
  <2>3. QED BY <2>1, <2>2
<1>2. CASE ~p
  <2>1. x = <<>> /\ OneIf(p, a) = {}
    BY <1>2 DEF OneIf
  <2>2. ToSet(<<>>) = {}
    BY DEF ToSet
  <2>3. QED BY <2>1, <2>2, EmptySeq
<1>3. QED BY <1>1, <1>2

LEMMA AddWritten ==
  ASSUME NEW f \in Field
  PROVE  Written(AddColumn(f), {AddsColumn(f)} \union OneIf(~f.def.nullable, AlterColumn(f)))
<1> DEFINE c == AddColumn(f)
           a == AddsColumn(f)
           b == AlterColumn(f)
           q == ~f.def.nullable
           y == IF q THEN <<b>> ELSE <<>>
<1>1. f.def.nullable \in BOOLEAN
  BY DefinitionType DEF Field
<1>2. a.op # "dropIndex" /\ b.op # "dropIndex"
  BY DEF AddsColumn, AlterColumn
<1>3. SQL(c) = <<a>> \o y
  BY <1>1 DEF SQL, AddColumnSQL, AddColumn, AddsColumn
<1>4. y \in Seq(OneIf(q, b)) /\ ToSet(y) = OneIf(q, b)
  BY WrittenIf
<1>5. <<a>> \in Seq({a}) /\ ToSet(<<a>>) = {a}
  BY OneElement
<1>6. \A z \in {a} \union OneIf(q, b) : z.op # "dropIndex"
  BY <1>2 DEF OneIf
<1> HIDE DEF c, a, b, y, q
<1>7. Written(c, {a} \union OneIf(q, b))
  BY <1>3, <1>4, <1>5, <1>6, WrittenTwo
<1>8. QED BY <1>7 DEF c, a, b, q

LEMMA ModifyWritten ==
  ASSUME NEW o, NEW f
  PROVE  \E X :
           /\ Written(ModifyColumn(o, f), X) /\ X \subseteq {AlterColumn(f), SetsOptions(f)}
           /\ (o.def.type = f.def.type /\ o.def.nullable = f.def.nullable) \/ AlterColumn(f) \in X
           /\ (o.def.extra = NoExtra <=> f.def.extra = NoExtra) \/ SetsOptions(f) \in X
<1> DEFINE c == ModifyColumn(o, f)
           a == AlterColumn(f)
           b == SetsOptions(f)
           p == o.def.nullable # f.def.nullable \/ o.def.type # f.def.type
           q == (o.def.extra = NoExtra) # (f.def.extra = NoExtra)
           x == IF p THEN <<a>> ELSE <<>>
           y == IF q THEN <<b>> ELSE <<>>
<1>1. x \in Seq(OneIf(p, a)) /\ ToSet(x) = OneIf(p, a)
  BY WrittenIf
<1>2. y \in Seq(OneIf(q, b)) /\ ToSet(y) = OneIf(q, b)
  BY WrittenIf
<1>3. \A z \in OneIf(p, a) \union OneIf(q, b) : z.op # "dropIndex"
  BY DEF SetsOptions, AlterColumn, OneIf
<1>4. SQL(c) = x \o y
  <2>1. c.op = "modifyColumn" /\ c.old = o /\ c.new = f /\ c.table = f.table
    BY DEF ModifyColumn
  <2>2. SQL(c) = ModifyColumnSQL(c)
    BY <2>1 DEF SQL
  <2> HIDE DEF c
  <2>3. ModifyColumnSQL(c) = x \o y
    BY <2>1, Zenon DEF ModifyColumnSQL, SetsOptions
  <2>4. QED BY <2>2, <2>3
<1>5. /\ ~p => o.def.type = f.def.type /\ o.def.nullable = f.def.nullable
      /\ ~q => (o.def.extra = NoExtra <=> f.def.extra = NoExtra)
  OBVIOUS
<1> DEFINE X == OneIf(p, a) \union OneIf(q, b)
<1> HIDE DEF c, a, b, x, y, q, p
<1>6. Written(c, X)
  BY <1>1, <1>2, <1>3, <1>4, WrittenTwo
<1>7. X \subseteq {a, b} /\ (~p \/ a \in X) /\ (~q \/ b \in X)
  BY Zenon DEF OneIf
<1> HIDE DEF X
<1>8. \E Y : /\ Written(c, Y) /\ Y \subseteq {a, b}
             /\ (o.def.type = f.def.type /\ o.def.nullable = f.def.nullable) \/ a \in Y
             /\ (o.def.extra = NoExtra <=> f.def.extra = NoExtra) \/ b \in Y
  BY <1>5, <1>6, <1>7
<1>9. QED BY <1>8 DEF c, a, b

LEMMA OtherWritten ==
  /\ \A o : Written(DropColumn(o), {DropsColumn(o.table, o.column)})
  /\ \A y : Written(CreateIndex(y), {CreatesIndex(y)})
  /\ \A e : Written(DropIndex(e), {DropsIndex(e.table, e.name)})
  /\ \A t : Written(DropTable(t), {DropTable(t)})
  /\ \A t, fields : Written(CreateTable(t, fields), {CreatesTable(t, fields)})
<1>1. ASSUME NEW o PROVE Written(DropColumn(o), {DropsColumn(o.table, o.column)})
  <2>1. SQL(DropColumn(o)) = <<DropsColumn(o.table, o.column)>>
    BY DEF SQL, DropColumn, DropColumnSQL, DropsColumn
  <2>2. QED BY <2>1, WrittenOne
<1>2. ASSUME NEW y PROVE Written(CreateIndex(y), {CreatesIndex(y)})
  <2>1. SQL(CreateIndex(y)) = <<CreatesIndex(y)>>
    BY DEF SQL, CreateIndex, CreateIndexSQL, CreatesIndex
  <2>2. QED BY <2>1, WrittenOne
<1>3. ASSUME NEW e PROVE Written(DropIndex(e), {DropsIndex(e.table, e.name)})
  <2>1. SQL(DropIndex(e)) = <<DropsIndex(e.table, e.name)>>
    BY DEF SQL, DropIndex, DropIndexSQL, DropsIndex
  <2>2. QED BY <2>1, WrittenOne
<1>4. ASSUME NEW t PROVE Written(DropTable(t), {DropTable(t)})
  <2>1. SQL(DropTable(t)) = <<DropTable(t)>>
    BY DEF SQL, DropTable
  <2>2. QED BY <2>1, WrittenOne
<1>5. ASSUME NEW t, NEW fields PROVE Written(CreateTable(t, fields), {CreatesTable(t, fields)})
  <2>1. SQL(CreateTable(t, fields)) = <<CreatesTable(t, fields)>>
    BY DEF SQL, CreateTable, CreateTableSQL, CreatesTable
  <2>2. QED BY <2>1, WrittenOne
<1>6. QED BY <1>1, <1>2, <1>3, <1>4, <1>5

\* A statement that brings the tables closer to the source.
ServesTable(x, t, fields) ==
  \/ x = CreatesTable(t, fields)
  \/ \E f \in ToSet(fields) : x \in {AddsColumn(f), AlterColumn(f), SetsOptions(f)}
  \/ \E c : x = DropsColumn(t, c) /\ c \notin ColumnsOf(fields)
  \/ \E y \in Declared(t, fields) : x = CreatesIndex(y)
Serves(x, s) ==
  \/ x.op = "dropTable" /\ DOMAIN s = {}
  \/ x \in DropStatements
  \/ \E t \in DOMAIN s : ServesTable(x, t, s[t])

\* What is written for a change of a plan.
DropsOf(x, c, d) ==
  /\ x \in DropStatements /\ c.op = "dropIndex" /\ x.name = c.index.name
  /\ c.table \in DOMAIN d /\ x.name \in IndexNamesOf(d[c.table])
WrittenFor(c, X, d, s) ==
  Written(c, X) /\ \A x \in X : Serves(x, s) /\ (x.op = "dropIndex" => DropsOf(x, c, d))

LEMMA ServesNoDrop ==
  ASSUME NEW c, NEW X, Written(c, X), NEW d, NEW s, NEW t \in DOMAIN s,
         \A x \in X : x.op # "dropIndex" /\ ServesTable(x, t, s[t])
  PROVE  WrittenFor(c, X, d, s)
BY DEF WrittenFor, Serves

LEMMA ColumnChangeWritten ==
  ASSUME NEW d, NEW tables, NEW s, DiffOutside(d, tables, s), NEW t \in DOMAIN s \intersect DOMAIN d,
         NEW c, IsColumnChange(c, d[t], tables[t], s[t])
  PROVE  \E X : WrittenFor(c, X, d, s)
<1> DEFINE fields == s[t]
           old == tables[t]
<1>1. /\ IsSchema(s) /\ IsSchema(tables) /\ t \in DOMAIN tables
  BY DEF DiffOutside
<1>2. /\ \A f \in ToSet(fields) : f \in Field
      /\ \A o \in ToSet(old) : o.table = t
  BY <1>1, SchemaFields
<1>3. CASE \E f \in ToSet(fields) : c = AddColumn(f)
  <2>1. PICK f \in ToSet(fields) : c = AddColumn(f)
    BY <1>3
  <2> DEFINE X == {AddsColumn(f)} \union OneIf(~f.def.nullable, AlterColumn(f))
  <2>2. Written(c, X)
    BY <1>2, <2>1, AddWritten
  <2>3. \A x \in X : x.op # "dropIndex" /\ ServesTable(x, t, fields)
    BY DEF OneIf, ServesTable, AddsColumn, AlterColumn
  <2> HIDE DEF X
  <2>4. WrittenFor(c, X, d, s)
    BY <2>2, <2>3, ServesNoDrop
  <2>5. QED BY <2>4
<1>4. CASE \E o \in ToSet(old) : c = DropColumn(o) /\ o.column \notin ColumnsOf(fields)
  <2>1. PICK o \in ToSet(old) : c = DropColumn(o) /\ o.column \notin ColumnsOf(fields)
    BY <1>4
  <2> DEFINE X == {DropsColumn(t, o.column)}
  <2>2. Written(c, X)
    BY <1>2, <2>1, OtherWritten
  <2>3. \A x \in X : x.op # "dropIndex" /\ ServesTable(x, t, fields)
    BY <2>1 DEF ServesTable, DropsColumn
  <2> HIDE DEF X
  <2>4. WrittenFor(c, X, d, s)
    BY <2>2, <2>3, ServesNoDrop
  <2>5. QED BY <2>4
<1>5. CASE \E o \in ToSet(old), f \in ToSet(fields) : c = ModifyColumn(o, f)
  <2>1. PICK o \in ToSet(old), f \in ToSet(fields) : c = ModifyColumn(o, f)
    BY <1>5
  <2>2. PICK X : Written(c, X) /\ X \subseteq {AlterColumn(f), SetsOptions(f)}
    BY <2>1, ModifyWritten
  <2>3. \A x \in X : x.op # "dropIndex" /\ ServesTable(x, t, fields)
    BY <2>2 DEF ServesTable, SetsOptions, AlterColumn
  <2>4. WrittenFor(c, X, d, s)
    BY <2>2, <2>3, ServesNoDrop
  <2>5. QED BY <2>4
<1>6. QED BY <1>3, <1>4, <1>5 DEF IsColumnChange

LEMMA ChangeWritten ==
  ASSUME NEW d, NEW tables, NEW s, DiffOutside(d, tables, s), NEW C, PlannedFor(d, tables, s, FALSE, C),
         NEW c \in C
  PROVE  \E X : WrittenFor(c, X, d, s)
<1>1. CASE c.op = "dropTable"
  <2>1. DOMAIN s = {} /\ SQL(c) = <<c>>
    BY <1>1 DEF PlannedFor, SQL
  <2>2. Written(c, {c})
    BY <2>1, WrittenOne
  <2>3. WrittenFor(c, {c}, d, s)
    BY <1>1, <2>1, <2>2 DEF WrittenFor, Serves
  <2>4. QED BY <2>3
<1>2. ASSUME NEW t \in DOMAIN s, NEW y \in Declared(t, s[t]), c = CreateIndex(y)
      PROVE  \E X : WrittenFor(c, X, d, s)
  <2>1. Written(c, {CreatesIndex(y)})
    BY <1>2, OtherWritten
  <2>2. CreatesIndex(y).op # "dropIndex" /\ ServesTable(CreatesIndex(y), t, s[t])
    BY DEF CreatesIndex, ServesTable
  <2>3. WrittenFor(c, {CreatesIndex(y)}, d, s)
    BY <2>1, <2>2, ServesNoDrop
  <2>4. QED BY <2>3
<1>3. CASE c.op # "dropTable" /\ c.table \notin DOMAIN d
  <2> DEFINE t == c.table
  <2>1. t \in DOMAIN s /\ IsAbsentChange(c, t, s[t])
    BY <1>3 DEF PlannedFor, AbsentPlan
  <2>2. CASE c = CreateTable(t, s[t])
    <3> DEFINE x == CreatesTable(t, s[t])
    <3>1. Written(c, {x})
      BY <2>2, OtherWritten
    <3>2. x.op # "dropIndex" /\ ServesTable(x, t, s[t])
      BY DEF CreatesTable, ServesTable
    <3> HIDE DEF x, t
    <3>3. WrittenFor(c, {x}, d, s)
      BY <2>1, <3>1, <3>2, ServesNoDrop
    <3>4. QED BY <3>3
  <2>3. CASE \E y \in Declared(t, s[t]) : c = CreateIndex(y)
    BY <1>2, <2>1, <2>3
  <2>4. QED BY <2>1, <2>2, <2>3 DEF IsAbsentChange
<1>4. CASE c.op # "dropTable" /\ c.table \in DOMAIN d
  <2> DEFINE t == c.table
  <2>1. t \in DOMAIN s \intersect DOMAIN d /\ c \in Of(C, t) /\ c.table = t
    BY <1>4 DEF PlannedFor, Of
  <2>2. IsPresentChange(c, t, d[t], tables[t], s[t], FALSE)
    BY <2>1 DEF PlannedFor, PresentPlan
  <2> HIDE DEF t
  <2>3. CASE IsColumnChange(c, d[t], tables[t], s[t])
    BY <2>1, <2>3, ColumnChangeWritten
  <2>4. CASE \E e : c = DropIndex(e) /\ e.table = t /\ \E x \in d[t].indexes : e.name = x.name
    <3>1. PICK e : c = DropIndex(e) /\ e.table = t /\ \E x \in d[t].indexes : e.name = x.name
      BY <2>4
    <3> DEFINE z == DropsIndex(t, e.name)
    <3>2. Written(c, {z})
      BY <3>1, OtherWritten
    <3>3. z.op = "dropIndex" /\ z.name = e.name
      BY DEF DropsIndex
    <3>4. t \in Tables /\ e.name \in IndexNames /\ e.name \in IndexNamesOf(d[t])
      <4>1. t \in Tables /\ IsTable(d[t])
        BY <2>1 DEF DiffOutside, TableOutside
      <4>2. \A x \in d[t].indexes : x.name \in IndexNames
        BY <4>1, PartsOfTable DEF Index
      <4>3. QED BY <3>1, <4>1, <4>2 DEF IndexNamesOf
    <3>5. z \in DropStatements
      BY <3>4 DEF DropsIndex, DropStatements
    <3>6. c.op = "dropIndex" /\ c.index = e
      BY <3>1 DEF DropIndex
    <3> HIDE DEF z
    <3>7. WrittenFor(c, {z}, d, s)
      BY <2>1, <3>2, <3>3, <3>4, <3>5, <3>6 DEF WrittenFor, Serves, DropsOf
    <3>8. QED BY <3>7
  <2>5. CASE \E y \in Declared(t, s[t]) : c = CreateIndex(y)
    BY <1>2, <2>1, <2>5
  <2>6. QED BY <2>2, <2>3, <2>4, <2>5 DEF IsPresentChange
<1>5. QED BY <1>1, <1>3, <1>4

\* A plan holds what is written for the changes of C, and no index is dropped twice.
PlanOf(todo, C, d, s) ==
  /\ \A c \in C : ToSet(SQL(c)) \subseteq ToSet(todo)
  /\ \A x \in ToSet(todo) : \E c \in C : \E X : x \in X /\ WrittenFor(c, X, d, s)
  /\ Ordered(todo, Twice)

LEMMA PlanWritten ==
  ASSUME NEW d, AllOwn(d), NEW tables, NEW s, DiffOutside(d, tables, s),
         NEW todo \in Planned(s, tables)
  PROVE  \E C : PlannedFor(d, tables, s, FALSE, C) /\ PlanOf(todo, C, d, s)
<1>1. PICK diff \in Diff(s, tables, FALSE) : todo = FlattenSeq([n \in DOMAIN diff |-> SQL(diff[n])])
  BY DEF Planned
<1> DEFINE C == ToSet(diff)
           R == UNION {ToSet(SQL(c)) : c \in C}
           ss == [n \in DOMAIN diff |-> SQL(diff[n])]
<1>2. /\ diff \in Seq(Change) /\ Ordered(diff, Misplaced)
      /\ PlannedFor(d, tables, s, FALSE, C)
  BY DiffPlans
<1>3. /\ DOMAIN diff = 1..Len(diff) /\ Len(diff) \in Nat
      /\ \A n \in DOMAIN diff : diff[n] \in Change /\ diff[n] \in C
  BY <1>2, Elements
<1>4. \A c \in C : \E n \in DOMAIN diff : c = diff[n]
  BY DEF ToSet
<1> HIDE DEF C
<1>5. \A c \in C : \E X : WrittenFor(c, X, d, s)
  BY <1>2, ChangeWritten
<1>6. ASSUME NEW c \in C
      PROVE  /\ SQL(c) \in Seq(R) /\ ToSet(SQL(c)) \subseteq R /\ Ordered(SQL(c), Twice)
             /\ WrittenFor(c, ToSet(SQL(c)), d, s)
  <2>1. PICK X : WrittenFor(c, X, d, s)
    BY <1>5
  <2>2. SQL(c) \in Seq(X) /\ X = ToSet(SQL(c)) /\ Ordered(SQL(c), Twice)
    BY <2>1 DEF WrittenFor, Written
  <2>3. X \subseteq R
    BY <2>2
  <2> HIDE DEF R
  <2>4. QED BY <2>1, <2>2, <2>3, SeqMonotonic
<1>7. \A n \in 1..Len(diff) : ss[n] = SQL(diff[n])
  BY <1>3
<1>8. DOMAIN ss = 1..Len(diff) /\ ss = [n \in 1..Len(diff) |-> ss[n]]
  BY <1>3
<1> HIDE DEF ss
<1>9. \A x \in R : \E c \in C : x \in ToSet(SQL(c))
  OBVIOUS
<1> HIDE DEF R
<1>10. ss \in [1..Len(diff) -> Seq(R)]
  BY <1>3, <1>6, <1>7, <1>8
<1>11. ToSet(todo) = UNION {ToSet(ss[n]) : n \in 1..Len(diff)}
  BY <1>1, <1>3, <1>10, FlattenUnion DEF ss
<1>12. ASSUME NEW c \in C PROVE ToSet(SQL(c)) \subseteq ToSet(todo)
  BY <1>3, <1>4, <1>7, <1>11
<1>13. ASSUME NEW x \in ToSet(todo) PROVE \E c \in C : \E X : x \in X /\ WrittenFor(c, X, d, s)
  <2>1. PICK n \in 1..Len(diff) : x \in ToSet(ss[n])
    BY <1>11
  <2>2. QED BY <1>3, <1>6, <1>7, <2>1
<1>14. ASSUME NEW m \in 1..Len(diff), NEW n \in 1..Len(diff), m < n,
              NEW x \in ToSet(ss[m]), NEW y \in ToSet(ss[n]), <<x, y>> \in Twice
       PROVE  FALSE
  <2> DEFINE a == diff[m]
             b == diff[n]
  <2>1. a \in C /\ b \in C /\ a \in Change /\ b \in Change /\ x \in ToSet(SQL(a)) /\ y \in ToSet(SQL(b))
        /\ <<a, b>> \notin Misplaced
    BY <1>2, <1>3, <1>7, <1>14 DEF Ordered
  <2> HIDE DEF a, b
  <2>2. x.op = "dropIndex" /\ y.op = "dropIndex" /\ x.name = y.name
    BY <1>14 DEF Twice, DropStatements
  <2>3. DropsOf(x, a, d) /\ DropsOf(y, b, d)
    BY <1>6, <2>1, <2>2 DEF WrittenFor
  <2>4. a.table = b.table
    BY <2>2, <2>3 DEF DropsOf, AllOwn
  <2>5. <<a, b>> \in Misplaced
    BY <2>1, <2>2, <2>3, <2>4 DEF DropsOf, Misplaced
  <2>6. QED BY <2>1, <2>5
<1>15. \A n \in 1..Len(diff) : Ordered(ss[n], Twice)
  BY <1>3, <1>6, <1>7
<1>16. Ordered(FlattenSeq(ss), Twice)
  BY <1>3, <1>10, <1>14, <1>15, OrderedFlatten
<1>17. PlanOf(todo, C, d, s)
  BY <1>1, <1>12, <1>13, <1>16 DEF PlanOf, ss
<1>18. QED BY <1>2, <1>17

-----------------------------------------------------------------------------
(* What the statements still to be executed are for.                       *)

\* A definition is that of a field but for what statements D do.
DefAwaits(def, f, D) ==
  /\ (def.type = f.def.type /\ def.nullable = f.def.nullable) \/ AlterColumn(f) \in D
  /\ def.extra = f.def.extra \/ SetsOptions(f) \in D

\* A field has its column but for what D does.
FieldAwaits(tbl, f, D) ==
  /\ f.column \notin ColumnNames(tbl) =>
       AddsColumn(f) \in D /\ (f.def.nullable \/ AlterColumn(f) \in D)
  /\ \A col \in ToSet(tbl.columns) : col.name = f.column => DefAwaits(col.def, f, D)

DropsIndexes(D) == {x.name : x \in {z \in D : z.op = "dropIndex"}}
CreatesIndexes(D, t) == {x.index : x \in {z \in D : z.op = "createIndex" /\ z.table = t}}

ColumnsAwait(t, tbl, fields, D) ==
  /\ \A col \in ToSet(tbl.columns) :
       col.name \in ColumnsOf(fields) \/ DropsColumn(t, col.name) \in D
  /\ \A f \in ToSet(fields) : FieldAwaits(tbl, f, D)
IndexesAwait(t, tbl, fields, D) ==
  IndexesServed(tbl.indexes, Declared(t, fields), ColumnsOf(fields),
                DropsIndexes(D), CreatesIndexes(D, t))

\* A table is what its fields declare but for what D does.
Awaits(t, tbl, fields, D) ==
  /\ ColumnsAwait(t, tbl, fields, D) /\ tbl.pk = PkColumns(fields)
  /\ IndexesAwait(t, tbl, fields, D)

\* The tables are what the source declares but for what D does.
Pending(d, s, D) ==
  /\ \A x \in D : Serves(x, s)
  /\ DropsIndexes(D) \subseteq AllIndexNames(d)
  /\ DOMAIN s = {} => \A t \in DOMAIN d : DropTable(t) \in D
  /\ \A t \in DOMAIN s : ~Repeated(s[t])
  /\ \A t \in DOMAIN s \intersect DOMAIN d : Awaits(t, d[t], s[t], D)
  /\ \A t \in DOMAIN s \ DOMAIN d :
       CreatesTable(t, s[t]) \in D /\ \A y \in Declared(t, s[t]) : CreatesIndex(y) \in D

\* What is written for the changes of C is in D.
LEMMA ChangesAreWritten ==
  ASSUME NEW C, NEW D, \A c \in C : ToSet(SQL(c)) \subseteq D
  PROVE  /\ \A f \in Field : AddColumn(f) \in C =>
              AddsColumn(f) \in D /\ (f.def.nullable \/ AlterColumn(f) \in D)
         /\ \A o, f : ModifyColumn(o, f) \in C =>
              /\ (o.def.type = f.def.type /\ o.def.nullable = f.def.nullable) \/ AlterColumn(f) \in D
              /\ (o.def.extra = NoExtra <=> f.def.extra = NoExtra) \/ SetsOptions(f) \in D
         /\ \A o : DropColumn(o) \in C => DropsColumn(o.table, o.column) \in D
         /\ \A y : CreateIndex(y) \in C => CreatesIndex(y) \in D
         /\ \A e : DropIndex(e) \in C => DropsIndex(e.table, e.name) \in D
         /\ \A t : DropTable(t) \in C => DropTable(t) \in D
         /\ \A t, fields : CreateTable(t, fields) \in C => CreatesTable(t, fields) \in D
<1>1. ASSUME NEW f \in Field, AddColumn(f) \in C
      PROVE  AddsColumn(f) \in D /\ (f.def.nullable \/ AlterColumn(f) \in D)
  <2>1. {AddsColumn(f)} \union OneIf(~f.def.nullable, AlterColumn(f)) \subseteq D
    BY <1>1, AddWritten DEF Written
  <2>2. QED BY <2>1 DEF OneIf
<1>2. ASSUME NEW o, NEW f, ModifyColumn(o, f) \in C
      PROVE  /\ (o.def.type = f.def.type /\ o.def.nullable = f.def.nullable) \/ AlterColumn(f) \in D
             /\ (o.def.extra = NoExtra <=> f.def.extra = NoExtra) \/ SetsOptions(f) \in D
  <2>1. PICK X :
          /\ Written(ModifyColumn(o, f), X)
          /\ (o.def.type = f.def.type /\ o.def.nullable = f.def.nullable) \/ AlterColumn(f) \in X
          /\ (o.def.extra = NoExtra <=> f.def.extra = NoExtra) \/ SetsOptions(f) \in X
    BY ModifyWritten
  <2>2. X \subseteq D
    BY <1>2, <2>1 DEF Written
  <2>3. QED BY <2>1, <2>2
<1>3. ASSUME NEW o, DropColumn(o) \in C PROVE DropsColumn(o.table, o.column) \in D
  BY <1>3, OtherWritten DEF Written
<1>4. ASSUME NEW y, CreateIndex(y) \in C PROVE CreatesIndex(y) \in D
  BY <1>4, OtherWritten DEF Written
<1>5. ASSUME NEW e, DropIndex(e) \in C PROVE DropsIndex(e.table, e.name) \in D
  BY <1>5, OtherWritten DEF Written
<1>6. ASSUME NEW t, DropTable(t) \in C PROVE DropTable(t) \in D
  BY <1>6, OtherWritten DEF Written
<1>7. ASSUME NEW t, NEW fields, CreateTable(t, fields) \in C PROVE CreatesTable(t, fields) \in D
  BY <1>7, OtherWritten DEF Written
<1>8. QED BY <1>1, <1>2, <1>3, <1>4, <1>5, <1>6, <1>7

\* What is written for the columns of a table.
LEMMA ColumnsWritten ==
  ASSUME NEW t, NEW tbl, IsTable(tbl), DistinctColumns(tbl), NEW fields \in Seq(Field),
         ~RenamedOrReset(tbl, fields),
         NEW C, NEW D, \A c \in C : ToSet(SQL(c)) \subseteq D, \A c \in C : c.table = t,
         \A o, f : ModifyColumn(o, f) \in C => f \in ToSet(fields),
         \A col \in ToSet(tbl.columns) : ColumnServed(col, tbl, fields, C),
         \A f \in ToSet(fields) : FieldServed(f, tbl, fields, C)
  PROVE  ColumnsAwait(t, tbl, fields, D)
<1>1. /\ ColumnNames(tbl) = {col.name : col \in ToSet(tbl.columns)}
      /\ \A a, b \in ToSet(tbl.columns) : a.name = b.name => a = b
  BY PartsOfTable, DistinctIs
<1>2. \A f \in ToSet(fields) : f \in Field /\ \E n \in DOMAIN fields : f = fields[n]
  BY Elements DEF ToSet
<1>3. \A o, f : f \in ToSet(fields) => ~IsRenamed(tbl, fields, o, f)
  BY <1>2 DEF RenamedOrReset, IsRenamed
<1>4. ASSUME NEW col \in ToSet(tbl.columns), col.name \notin ColumnsOf(fields)
      PROVE  DropsColumn(t, col.name) \in D
  <2>1. ~Takes(col, tbl, fields, C)
    <3> SUFFICES ASSUME NEW o, NEW f, IsRenamed(tbl, fields, o, f), ModifyColumn(o, f) \in C
                 PROVE  FALSE
      BY DEF Takes
    <3>1. QED BY <1>3
  <2>2. PICK o : o.column = col.name /\ DropColumn(o) \in C
    BY <1>4, <2>1 DEF ColumnServed, Drops
  <2>3. DropColumn(o).table = t /\ DropColumn(o).table = o.table
    BY <2>2 DEF DropColumn
  <2>4. DropsColumn(o.table, o.column) \in D
    BY <2>2, ChangesAreWritten
  <2>5. QED BY <2>2, <2>3, <2>4
<1>5. ASSUME NEW f \in ToSet(fields) PROVE FieldAwaits(tbl, f, D)
  <2>1. FieldServed(f, tbl, fields, C) /\ ~Gives(f, tbl, fields, C) /\ f \in Field
    BY <1>2, <1>3 DEF Gives
  <2>2. CASE f.column \notin ColumnNames(tbl)
    <3>1. AddColumn(f) \in C
      BY <1>1, <2>1, <2>2 DEF FieldServed
    <3>2. AddsColumn(f) \in D /\ (f.def.nullable \/ AlterColumn(f) \in D)
      BY <2>1, <3>1, ChangesAreWritten
    <3>3. QED BY <1>1, <2>2, <3>2 DEF FieldAwaits
  <2>3. CASE f.column \in ColumnNames(tbl)
    <3> SUFFICES ASSUME NEW col \in ToSet(tbl.columns), col.name = f.column
                 PROVE  DefAwaits(col.def, f, D)
      BY <2>3 DEF FieldAwaits
    <3>1. col.def = f.def \/ Changes(col, f, C)
      BY <1>1, <2>1, <2>3 DEF FieldServed
    <3>2. CASE Changes(col, f, C)
      <4>1. PICK o : o.column = col.name /\ o.def = col.def /\ ModifyColumn(o, f) \in C
        BY <3>2 DEF Changes
      <4>2. /\ (o.def.type = f.def.type /\ o.def.nullable = f.def.nullable) \/ AlterColumn(f) \in D
            /\ (o.def.extra = NoExtra <=> f.def.extra = NoExtra) \/ SetsOptions(f) \in D
        BY <4>1, ChangesAreWritten
      <4>3. NoExtra \in {f.def.extra, col.def.extra} \/ f.def.extra = col.def.extra
        BY <1>2 DEF RenamedOrReset
      <4>4. QED BY <4>1, <4>2, <4>3 DEF DefAwaits
    <3>3. CASE col.def = f.def
      BY <3>3 DEF DefAwaits
    <3>4. QED BY <3>1, <3>2, <3>3
  <2>4. QED BY <2>2, <2>3
<1>6. QED BY <1>4, <1>5 DEF ColumnsAwait

\* What is written for the indexes of a table.
LEMMA IndexesWritten ==
  ASSUME NEW d, AllOwn(d), NEW t \in DOMAIN d, IsTable(d[t]), NEW fields,
         NEW C, NEW D, \A c \in C : ToSet(SQL(c)) \subseteq D,
         \A x \in D : x.op = "dropIndex" => \E c \in C : DropsOf(x, c, d),
         \A c \in C : c.table = t /\ c.op = "dropIndex" => \E e : c = DropIndex(e),
         \A c \in C : c.table = t /\ c.op = "createIndex" => \E y : c = CreateIndex(y),
         IndexesServed(d[t].indexes, Declared(t, fields), ColumnsOf(fields),
                       DroppedNames(Of(C, t), t), CreatedIndexes(Of(C, t), t))
  PROVE  IndexesAwait(t, d[t], fields, D)
<1> DEFINE drops   == DroppedNames(Of(C, t), t)
           creates == CreatedIndexes(Of(C, t), t)
           xs      == d[t].indexes
           kept    == ColumnsOf(fields)
           ys      == Declared(t, fields)
<1>1. ASSUME NEW y \in drops PROVE y \in DropsIndexes(D)
  <2>1. PICK c \in C : c.table = t /\ c.op = "dropIndex" /\ y = c.index.name
    BY DEF DroppedNames, Of
  <2>2. PICK e : c = DropIndex(e)
    BY <2>1
  <2>3. y = e.name
    BY <2>1, <2>2 DEF DropIndex
  <2>4. DropsIndex(e.table, e.name) \in D
    BY <2>1, <2>2, ChangesAreWritten
  <2>5. DropsIndex(e.table, e.name).op = "dropIndex" /\ DropsIndex(e.table, e.name).name = y
    BY <2>3 DEF DropsIndex
  <2>6. QED BY <2>4, <2>5 DEF DropsIndexes
<1>2. ASSUME NEW x \in xs, x.name \in DropsIndexes(D) PROVE x.name \in drops
  <2>1. PICK z \in D : z.op = "dropIndex" /\ z.name = x.name
    BY <1>2 DEF DropsIndexes
  <2>2. PICK c \in C : DropsOf(z, c, d)
    BY <2>1
  <2>3. c.table \in DOMAIN d /\ x.name \in IndexNamesOf(d[c.table]) /\ x.name \in IndexNamesOf(d[t])
    BY <2>1, <2>2 DEF DropsOf, IndexNamesOf
  <2>4. c.table = t
    BY <2>3 DEF AllOwn
  <2>5. c.op = "dropIndex" /\ c.index.name = x.name
    BY <2>1, <2>2 DEF DropsOf
  <2>6. QED BY <2>4, <2>5 DEF DroppedNames, Of
<1>3. ASSUME NEW y \in creates PROVE y \in CreatesIndexes(D, t)
  <2>1. PICK c \in C : c.table = t /\ c.op = "createIndex" /\ y = c.index
    BY DEF CreatedIndexes, Of
  <2>2. PICK e : c = CreateIndex(e)
    BY <2>1
  <2>3. y = e /\ y.table = t
    BY <2>1, <2>2 DEF CreateIndex
  <2>4. CreatesIndex(y) \in D
    BY <2>1, <2>2, <2>3, ChangesAreWritten
  <2>5. CreatesIndex(y).op = "createIndex" /\ CreatesIndex(y).table = t /\ CreatesIndex(y).index = y
    BY <2>3 DEF CreatesIndex
  <2>6. QED BY <2>4, <2>5 DEF CreatesIndexes
<1>4. \A x \in xs : Shrunk(x, kept).name = x.name
  <2>1. \A x \in xs : x \in Index
    BY PartsOfTable
  <2>2. QED BY <2>1 DEF Shrunk, Index
<1>5. IndexesServed(xs, ys, kept, drops, creates)
  OBVIOUS
<1> HIDE DEF drops, creates, xs, kept, ys
<1>6. IndexesServed(xs, ys, kept, DropsIndexes(D), CreatesIndexes(D, t))
  BY <1>1, <1>2, <1>3, <1>4, <1>5 DEF IndexesServed
<1>7. QED BY <1>6 DEF IndexesAwait, xs, ys, kept

\* A plan that is made outside the limits is for all there is to do.
LEMMA PlanIsPending ==
  ASSUME NEW d, IsDatabase(d), AllOwn(d), NEW tables, NEW s, DiffOutside(d, tables, s),
         ~Limited(d, s), NEW todo \in Planned(s, tables)
  PROVE  Pending(d, s, ToSet(todo)) /\ Ordered(todo, Twice)
<1>1. PICK C : PlannedFor(d, tables, s, FALSE, C) /\ PlanOf(todo, C, d, s)
  BY PlanWritten
<1> DEFINE D == ToSet(todo)
<1>2. /\ \A c \in C : ToSet(SQL(c)) \subseteq D
      /\ \A x \in D : \E c \in C : Serves(x, s) /\ (x.op = "dropIndex" => DropsOf(x, c, d))
  BY <1>1 DEF PlanOf, WrittenFor
<1>3. Ordered(todo, Twice)
  BY <1>1 DEF PlanOf
<1>4. IsSchema(s)
  BY DEF DiffOutside
<1> HIDE DEF D
<1>5. DropsIndexes(D) \subseteq AllIndexNames(d)
  BY <1>2 DEF DropsIndexes, DropsOf, AllIndexNames
<1>6. DOMAIN s = {} => \A t \in DOMAIN d : DropTable(t) \in D
  BY <1>1, <1>2, ChangesAreWritten DEF PlannedFor
<1>7. ASSUME NEW t \in DOMAIN s \ DOMAIN d
      PROVE  CreatesTable(t, s[t]) \in D /\ \A y \in Declared(t, s[t]) : CreatesIndex(y) \in D
  <2>1. AbsentPlan(t, s[t], C)
    BY <1>1 DEF PlannedFor
  <2>2. QED BY <1>2, <2>1, ChangesAreWritten DEF AbsentPlan
<1>8. ASSUME NEW t \in DOMAIN s \intersect DOMAIN d PROVE Awaits(t, d[t], s[t], D)
  <2> DEFINE fields == s[t]
             old    == tables[t]
             tbl    == d[t]
             E      == Of(C, t)
  <2>1. PresentPlan(t, tbl, old, fields, FALSE, E)
    BY <1>1 DEF PlannedFor
  <2>2. /\ IsTable(tbl) /\ DistinctColumns(tbl) /\ fields \in Seq(Field)
        /\ ~RenamedOrReset(tbl, fields) /\ ~KeyChanged(tbl, fields)
    BY <1>4 DEF AllOwn, WellFormed, IsDatabase, IsSchema, Limited
  <2>3. /\ \A c \in E : ToSet(SQL(c)) \subseteq D /\ c.table = t /\ c \in C
        /\ \A c \in C : c.table = t => c \in E
    BY <1>2 DEF Of
  <2>4. \A c \in E : IsPresentChange(c, t, tbl, old, fields, FALSE)
    BY <2>1, <2>3 DEF PresentPlan
  <2>5. ASSUME NEW o, NEW f, ModifyColumn(o, f) \in E PROVE f \in ToSet(fields)
    <3> DEFINE c == ModifyColumn(o, f)
    <3>1. c.op = "modifyColumn" /\ c.new = f
      BY DEF ModifyColumn
    <3>2. IsPresentChange(c, t, tbl, old, fields, FALSE)
      BY <2>4, <2>5
    <3> HIDE DEF c
    <3>3. QED
      BY <3>1, <3>2 DEF IsPresentChange, IsColumnChange, AddColumn, DropColumn, ModifyColumn,
                        DropIndex, CreateIndex
  <2>6. ASSUME NEW c \in C, c.table = t
        PROVE  /\ c.op = "dropIndex" => \E e : c = DropIndex(e)
               /\ c.op = "createIndex" => \E y : c = CreateIndex(y)
    BY <2>3, <2>4, <2>6 DEF IsPresentChange, IsColumnChange, AddColumn, DropColumn, ModifyColumn,
                      DropIndex, CreateIndex
  <2>7. /\ \A col \in ToSet(tbl.columns) : ColumnServed(col, tbl, fields, E)
        /\ \A f \in ToSet(fields) : FieldServed(f, tbl, fields, E)
        /\ IndexesServed(tbl.indexes, Declared(t, fields), ColumnsOf(fields),
                         DroppedNames(E, t), CreatedIndexes(E, t))
    BY <2>1 DEF PresentPlan
  <2>8. IndexesAwait(t, tbl, fields, D)
    BY <1>2, <2>2, <2>6, <2>7, IndexesWritten
  <2> HIDE DEF fields, old, tbl, E
  <2>9. ColumnsAwait(t, tbl, fields, D)
    BY <2>2, <2>3, <2>5, <2>7, ColumnsWritten
  <2>10. tbl.pk = PkColumns(fields)
    BY <2>2 DEF KeyChanged
  <2>11. Awaits(t, tbl, fields, D)
    BY <2>8, <2>9, <2>10 DEF Awaits
  <2>12. QED BY <2>11 DEF tbl, fields
<1>9. \A t \in DOMAIN s : ~Repeated(s[t])
  BY DEF DiffOutside, Ambiguous
<1>10. Pending(d, s, D)
  BY <1>2, <1>5, <1>6, <1>7, <1>8, <1>9 DEF Pending
<1>11. QED BY <1>3, <1>10 DEF D

\* A statement that alters the columns of a table, and what is left of the plan after it.
ColumnStep(t, tbl, fields, D, x, R) ==
  /\ IsTable(tbl) /\ DistinctColumns(tbl) /\ fields \in Seq(Field) /\ ~Repeated(fields)
  /\ \A f \in ToSet(fields) : f.table = t
  /\ ColumnsAwait(t, tbl, fields, D) /\ Done(D, x, R)

LEMMA OneFieldPerColumn ==
  ASSUME NEW fields \in Seq(Field), ~Repeated(fields)
  PROVE  \A f, g \in ToSet(fields) : f.column = g.column => f = g
<1>1. \A m, n \in DOMAIN fields : fields[m].column = fields[n].column => m = n
  BY DEF Repeated, IsInjective
<1>2. \A f \in ToSet(fields) : \E n \in DOMAIN fields : f = fields[n]
  BY DEF ToSet
<1>3. QED BY <1>1, <1>2

LEMMA StepParts ==
  ASSUME NEW t, NEW tbl, NEW fields, NEW D, NEW x, NEW R, ColumnStep(t, tbl, fields, D, x, R)
  PROVE  /\ \A f, g \in ToSet(fields) : f.column = g.column => f = g
         /\ \A f \in ToSet(fields) : f \in Field /\ f.def \in Defs /\ f.column \in ColumnsOf(fields)
                                     /\ f.table = t /\ f.column \in Columns
         /\ ColumnNames(tbl) = {col.name : col \in ToSet(tbl.columns)}
         /\ \A a, b \in ToSet(tbl.columns) : a.name = b.name => a = b
         /\ \A z \in D : z = x \/ z \in R
<1>1. fields \in Seq(Field) /\ ~Repeated(fields) /\ IsTable(tbl) /\ DistinctColumns(tbl)
  BY DEF ColumnStep
<1>2. \A f, g \in ToSet(fields) : f.column = g.column => f = g
  BY <1>1, OneFieldPerColumn
<1>3. /\ ColumnNames(tbl) = {col.name : col \in ToSet(tbl.columns)}
      /\ \A a, b \in ToSet(tbl.columns) : a.name = b.name => a = b
  BY <1>1, PartsOfTable, DistinctIs
<1>4. \A f \in ToSet(fields) : f \in Field /\ f.def \in Defs /\ f.column \in ColumnsOf(fields)
                               /\ f.table = t /\ f.column \in Columns
  <2>1. \A f \in ToSet(fields) : f \in Field /\ f.column \in ColumnsOf(fields)
    BY <1>1, Elements DEF ToSet, ColumnsOf
  <2>2. QED BY <2>1 DEF Field, ColumnStep
<1>5. QED BY <1>2, <1>3, <1>4 DEF ColumnStep, Done

LEMMA AddColumnServes ==
  ASSUME NEW t, NEW tbl, NEW fields, NEW D, NEW x, NEW R, ColumnStep(t, tbl, fields, D, x, R),
         NEW f \in ToSet(fields), x = AddsColumn(f), NEW live, NEW new \in AlterTable(tbl, x, live)
  PROVE  ColumnsAwait(t, new, fields, R)
<1>1. /\ \A g \in ToSet(fields) : g.column = f.column => g = f
      /\ f.def \in Defs /\ f.column \in ColumnsOf(fields) /\ f.column \in Columns
      /\ \A z \in D : z = x \/ z \in R
      /\ ColumnNames(tbl) = {col.name : col \in ToSet(tbl.columns)}
  BY StepParts
<1>2. x.op = "addColumn" /\ x.column = f.column /\ x.def = [f.def EXCEPT !.nullable = TRUE]
  BY DEF AddsColumn
<1>3. x.def \in Defs /\ x.def.type = f.def.type /\ x.def.nullable = TRUE /\ x.def.extra = f.def.extra
  <2>1. f.def \in Defs
    BY <1>1
  <2> DEFINE d == f.def
             e == [d EXCEPT !.nullable = TRUE]
  <2> HIDE DEF d
  <2>2. e \in Defs
    BY <2>1, DefinitionType DEF d
  <2>3. e.type = d.type /\ e.nullable = TRUE /\ e.extra = d.extra
    BY <2>1, DefinitionParts DEF d
  <2>4. QED BY <1>2, <2>2, <2>3 DEF d
<1>4. IsTable(tbl) /\ ColumnsAwait(t, tbl, fields, D)
  BY DEF ColumnStep
<1>5. PICK col : /\ ToSet(new.columns) = ToSet(tbl.columns) \union {col}
                 /\ col.name = f.column /\ col.def = x.def /\ f.column \notin ColumnNames(tbl)
  BY <1>1, <1>2, <1>3, <1>4, AddColumnMakes
<1>6. IsTable(new)
  BY <1>1, <1>2, <1>3, <1>4, AddColumnDoes DEF Keeps
<1>7. ColumnNames(new) = ColumnNames(tbl) \union {f.column}
  BY <1>1, <1>5, <1>6, PartsOfTable
<1>8. \A g : AlterColumn(g) \in D => AlterColumn(g) \in R
  BY <1>1, <1>2 DEF AlterColumn
<1>9. \A g : SetsOptions(g) \in D => SetsOptions(g) \in R
  BY <1>1, <1>2 DEF SetsOptions
<1>10. \A c : DropsColumn(t, c) \in D => DropsColumn(t, c) \in R
  BY <1>1, <1>2 DEF DropsColumn
<1>11. \A g : g.column # f.column /\ AddsColumn(g) \in D => AddsColumn(g) \in R
  BY <1>1, <1>2 DEF AddsColumn
<1>12. ASSUME NEW a \in ToSet(new.columns), a.name \notin ColumnsOf(fields)
       PROVE  DropsColumn(t, a.name) \in R
  BY <1>1, <1>4, <1>5, <1>10, <1>12 DEF ColumnsAwait
<1>13. ASSUME NEW g \in ToSet(fields) PROVE FieldAwaits(new, g, R)
  <2>1. FieldAwaits(tbl, g, D)
    BY <1>4 DEF ColumnsAwait
  <2>2. ASSUME g.column \notin ColumnNames(new)
        PROVE  AddsColumn(g) \in R /\ (g.def.nullable \/ AlterColumn(g) \in R)
    BY <1>7, <1>8, <1>11, <2>1, <2>2 DEF FieldAwaits
  <2>3. ASSUME NEW a \in ToSet(new.columns), a.name = g.column PROVE DefAwaits(a.def, g, R)
    <3>1. CASE a \in ToSet(tbl.columns)
      BY <1>8, <1>9, <2>1, <2>3, <3>1 DEF FieldAwaits, DefAwaits
    <3>2. CASE a = col
      <4>1. g = f
        BY <1>1, <1>5, <2>3, <3>2
      <4>2. f.def.nullable \/ AlterColumn(f) \in R
        BY <1>5, <1>8, <2>1, <4>1 DEF FieldAwaits
      <4>3. f.def.nullable \in BOOLEAN
        BY <1>1, DefinitionType
      <4>4. f.def.nullable = TRUE \/ AlterColumn(f) \in R
        BY <4>2, <4>3, Zenon
      <4>5. QED BY <1>3, <1>5, <3>2, <4>1, <4>4 DEF DefAwaits
    <3>3. QED BY <1>5, <3>1, <3>2
  <2>4. QED BY <2>2, <2>3 DEF FieldAwaits
<1>14. QED BY <1>12, <1>13 DEF ColumnsAwait

LEMMA DropColumnServes ==
  ASSUME NEW t, NEW tbl, NEW fields, NEW D, NEW x, NEW R, ColumnStep(t, tbl, fields, D, x, R),
         NEW c, x = DropsColumn(t, c), c \notin ColumnsOf(fields),
         NEW live, NEW new \in AlterTable(tbl, x, live)
  PROVE  ColumnsAwait(t, new, fields, R)
<1>1. /\ \A g \in ToSet(fields) : g.column \in ColumnsOf(fields)
      /\ \A z \in D : z = x \/ z \in R
      /\ ColumnNames(tbl) = {col.name : col \in ToSet(tbl.columns)}
  BY StepParts
<1>2. x.op = "dropColumn" /\ x.column = c
  BY DEF DropsColumn
<1>3. IsTable(tbl) /\ ColumnsAwait(t, tbl, fields, D)
  BY DEF ColumnStep
<1>4. ToSet(new.columns) = {col \in ToSet(tbl.columns) : col.name # c}
  BY <1>2, <1>3, DropColumnMakes
<1>5. IsTable(new)
  BY <1>2, <1>3, DropColumnDoes DEF Keeps
<1>6. ColumnNames(new) = ColumnNames(tbl) \ {c}
  BY <1>1, <1>4, <1>5, PartsOfTable
<1>7. \A g : AlterColumn(g) \in D => AlterColumn(g) \in R
  BY <1>1, <1>2 DEF AlterColumn
<1>8. \A g : SetsOptions(g) \in D => SetsOptions(g) \in R
  BY <1>1, <1>2 DEF SetsOptions
<1>9. \A b : b # c /\ DropsColumn(t, b) \in D => DropsColumn(t, b) \in R
  BY <1>1, <1>2 DEF DropsColumn
<1>10. \A g : AddsColumn(g) \in D => AddsColumn(g) \in R
  BY <1>1, <1>2 DEF AddsColumn
<1>11. ASSUME NEW a \in ToSet(new.columns), a.name \notin ColumnsOf(fields)
       PROVE  DropsColumn(t, a.name) \in R
  BY <1>3, <1>4, <1>9, <1>11 DEF ColumnsAwait
<1>12. ASSUME NEW g \in ToSet(fields) PROVE FieldAwaits(new, g, R)
  BY <1>1, <1>3, <1>4, <1>6, <1>7, <1>8, <1>10 DEF ColumnsAwait, FieldAwaits, DefAwaits
<1>13. QED BY <1>11, <1>12 DEF ColumnsAwait

\* A column that is redefined for its field: what the other fields await they still await.
LEMMA RedefinedServes ==
  ASSUME NEW t, NEW tbl, NEW fields, NEW D, NEW x, NEW R, ColumnStep(t, tbl, fields, D, x, R),
         NEW f \in ToSet(fields), x = AlterColumn(f) \/ x = SetsOptions(f),
         NEW col \in ToSet(tbl.columns), col.name = f.column,
         NEW def \in Defs, DefAwaits(col.def, f, D) => DefAwaits(def, f, R),
         NEW new, new = Redefined(tbl, f.column, def)
  PROVE  ColumnsAwait(t, new, fields, R)
<1>1. /\ \A g \in ToSet(fields) : g.column = f.column => g = f
      /\ \A z \in D : z = x \/ z \in R
      /\ ColumnNames(tbl) = {k.name : k \in ToSet(tbl.columns)}
      /\ \A a, b \in ToSet(tbl.columns) : a.name = b.name => a = b
      /\ f.column \in ColumnsOf(fields)
  BY StepParts
<1>2. x.op \in {"alterColumn", "setOptions"} /\ x.column = f.column
  BY DEF AlterColumn, SetsOptions
<1>3. IsTable(tbl) /\ ColumnsAwait(t, tbl, fields, D)
  BY DEF ColumnStep
<1>4. /\ \A a \in ToSet(new.columns) : \E b \in ToSet(tbl.columns) : Redefines(a, b, f.column, def)
      /\ \A b \in ToSet(tbl.columns) : \E a \in ToSet(new.columns) : Redefines(a, b, f.column, def)
  BY <1>3, RedefinedMakes
<1>5. IsTable(new)
  BY <1>3, RedefinedDoes DEF Keeps
<1>6. ColumnNames(new) = ColumnNames(tbl)
  <2>1. ColumnNames(new) = {k.name : k \in ToSet(new.columns)}
    BY <1>5, PartsOfTable
  <2>2. QED BY <1>1, <1>4, <2>1 DEF Redefines
<1>7. \A g : g.column # f.column /\ AlterColumn(g) \in D => AlterColumn(g) \in R
  BY <1>1, <1>2 DEF AlterColumn
<1>8. \A g : g.column # f.column /\ SetsOptions(g) \in D => SetsOptions(g) \in R
  BY <1>1, <1>2 DEF SetsOptions
<1>9. \A b : DropsColumn(t, b) \in D => DropsColumn(t, b) \in R
  BY <1>1, <1>2 DEF DropsColumn
<1>10. \A g : AddsColumn(g) \in D => AddsColumn(g) \in R
  BY <1>1, <1>2 DEF AddsColumn
<1>11. ASSUME NEW a \in ToSet(new.columns), a.name \notin ColumnsOf(fields)
       PROVE  DropsColumn(t, a.name) \in R
  <2>1. PICK b \in ToSet(tbl.columns) : a.name = b.name
    BY <1>4 DEF Redefines
  <2>2. DropsColumn(t, b.name) \in D
    BY <1>3, <1>11, <2>1 DEF ColumnsAwait
  <2>3. QED BY <1>9, <2>1, <2>2
<1>12. f.column \in ColumnNames(tbl)
  BY <1>1
<1>13. ASSUME NEW g \in ToSet(fields) PROVE FieldAwaits(new, g, R)
  <2>1. FieldAwaits(tbl, g, D)
    BY <1>3 DEF ColumnsAwait
  <2>2. ASSUME g.column \notin ColumnNames(new)
        PROVE  AddsColumn(g) \in R /\ (g.def.nullable \/ AlterColumn(g) \in R)
    BY <1>6, <1>7, <1>10, <1>12, <2>1, <2>2 DEF FieldAwaits
  <2>3. ASSUME NEW a \in ToSet(new.columns), a.name = g.column PROVE DefAwaits(a.def, g, R)
    <3>1. PICK b \in ToSet(tbl.columns) : Redefines(a, b, f.column, def)
      BY <1>4
    <3>2. b.name = g.column /\ DefAwaits(b.def, g, D)
      BY <2>1, <2>3, <3>1 DEF FieldAwaits, Redefines
    <3>3. CASE b.name = f.column
      <4>1. g = f /\ b = col /\ a.def = def
        BY <1>1, <3>1, <3>2, <3>3 DEF Redefines
      <4>2. QED BY <3>2, <4>1
    <3>4. CASE b.name # f.column
      <4>1. a.def = b.def /\ g.column # f.column
        BY <3>1, <3>2, <3>4 DEF Redefines
      <4>2. QED BY <1>7, <1>8, <3>2, <4>1 DEF DefAwaits
    <3>5. QED BY <3>3, <3>4
  <2>4. QED BY <2>2, <2>3 DEF FieldAwaits
<1>14. QED BY <1>11, <1>13 DEF ColumnsAwait

LEMMA AlterColumnServes ==
  ASSUME NEW t, NEW tbl, NEW fields, NEW D, NEW x, NEW R, ColumnStep(t, tbl, fields, D, x, R),
         NEW f \in ToSet(fields), x = AlterColumn(f), NEW live, NEW new \in AlterTable(tbl, x, live)
  PROVE  ColumnsAwait(t, new, fields, R)
<1>1. f.def \in Defs /\ \A z \in D : z = x \/ z \in R
  BY StepParts
<1>2. IsTable(tbl)
  BY DEF ColumnStep
<1>3. x.column = f.column /\ x.op = "alterColumn"
  BY DEF AlterColumn
<1>4. PICK col \in ToSet(tbl.columns), def \in Defs :
        /\ col.name = f.column /\ new = Redefined(tbl, f.column, def)
        /\ def.type = f.def.type /\ def.nullable = f.def.nullable /\ def.extra = col.def.extra
  BY <1>1, <1>2, <1>3, AlterColumnMakes
<1>5. \A g : SetsOptions(g) \in D => SetsOptions(g) \in R
  BY <1>1, <1>3 DEF SetsOptions
<1>6. DefAwaits(col.def, f, D) => DefAwaits(def, f, R)
  BY <1>4, <1>5 DEF DefAwaits
<1>7. QED BY <1>4, <1>6, RedefinedServes

LEMMA SetOptionsServes ==
  ASSUME NEW t, NEW tbl, NEW fields, NEW D, NEW x, NEW R, ColumnStep(t, tbl, fields, D, x, R),
         NEW f \in ToSet(fields), x = SetsOptions(f), NEW live, NEW new \in AlterTable(tbl, x, live)
  PROVE  ColumnsAwait(t, new, fields, R)
<1>1. f.def \in Defs /\ \A z \in D : z = x \/ z \in R
  BY StepParts
<1>2. IsTable(tbl)
  BY DEF ColumnStep
<1>3. x.column = f.column /\ x.op = "setOptions" /\ x.extra = f.def.extra
  BY DEF SetsOptions
<1>4. PICK col \in ToSet(tbl.columns), def \in Defs :
        /\ col.name = f.column /\ new = Redefined(tbl, f.column, def)
        /\ def.type = col.def.type /\ def.nullable = col.def.nullable /\ def.extra = f.def.extra
  BY <1>1, <1>2, <1>3, SetOptionsMakes
<1>5. \A g : AlterColumn(g) \in D => AlterColumn(g) \in R
  BY <1>1, <1>3 DEF AlterColumn
<1>6. DefAwaits(col.def, f, D) => DefAwaits(def, f, R)
  BY <1>4, <1>5 DEF DefAwaits
<1>7. QED BY <1>4, <1>6, RedefinedServes

\* The statement of a plan, carried out on the tables, and what is left of the plan.
Step(d, s, D, x, R, live, new) ==
  /\ IsDatabase(d) /\ AllOwn(d) /\ IsSchema(s)
  /\ Pending(d, s, D) /\ Done(D, x, R)
  /\ new \in Result(d, x, live)
  /\ x.op = "dropIndex" => x.name \notin DropsIndexes(R)

\* The table a statement is for.
LEMMA ServedTable ==
  ASSUME NEW x, NEW s, IsSchema(s), Serves(x, s), x.op \notin {"dropTable", "dropIndex"}
  PROVE  x.table \in DOMAIN s /\ ServesTable(x, x.table, s[x.table])
<1>1. x \notin DropStatements
  BY DEF DropStatements
<1>2. PICK t \in DOMAIN s : ServesTable(x, t, s[t])
  BY <1>1 DEF Serves
<1>3. \A f \in ToSet(s[t]) : f.table = t
  BY SchemaFields
<1>4. \A y \in Declared(t, s[t]) : y.table = t
  BY DEF Declared
<1>5. x.table = t
  BY <1>2, <1>3, <1>4 DEF ServesTable, CreatesTable, AddsColumn, AlterColumn, SetsOptions, DropsColumn,
                          CreatesIndex
<1>6. QED BY <1>2, <1>5

\* A statement that creates and drops no index of a table leaves what it awaits of them.
LEMMA SameIndexes ==
  ASSUME NEW D, NEW x, NEW R, Done(D, x, R)
  PROVE  /\ x.op # "dropIndex" => DropsIndexes(R) = DropsIndexes(D)
         /\ \A t : x.op # "createIndex" \/ x.table # t => CreatesIndexes(R, t) = CreatesIndexes(D, t)
         /\ \A t, tbl, fields :
              x.op # "dropIndex" /\ (x.op # "createIndex" \/ x.table # t) =>
                IndexesAwait(t, tbl, fields, R) = IndexesAwait(t, tbl, fields, D)
<1>1. R \subseteq D /\ \A z \in D : z = x \/ z \in R
  BY DEF Done
<1>2. x.op # "dropIndex" => {z \in R : z.op = "dropIndex"} = {z \in D : z.op = "dropIndex"}
  BY <1>1
<1>3. \A t : x.op # "createIndex" \/ x.table # t =>
        {z \in R : z.op = "createIndex" /\ z.table = t} = {z \in D : z.op = "createIndex" /\ z.table = t}
  BY <1>1
<1>4. /\ x.op # "dropIndex" => DropsIndexes(R) = DropsIndexes(D)
      /\ \A t : x.op # "createIndex" \/ x.table # t => CreatesIndexes(R, t) = CreatesIndexes(D, t)
  BY <1>2, <1>3 DEF DropsIndexes, CreatesIndexes
<1>5. QED BY <1>4, Zenon DEF IndexesAwait

\* What the columns of a table await a statement that does not alter them leaves to be done.
LEMMA SameColumns ==
  ASSUME NEW t, NEW tbl, NEW fields, \A f \in ToSet(fields) : f.table = t,
         NEW D, NEW x, NEW R, Done(D, x, R), ColumnsAwait(t, tbl, fields, D),
         x.table # t \/ x.op \in {"createIndex", "dropIndex"}
  PROVE  ColumnsAwait(t, tbl, fields, R)
<1>1. \A z \in D : z = x \/ z \in R
  BY DEF Done
<1>2. \A f \in ToSet(fields) : AlterColumn(f) \in D => AlterColumn(f) \in R
  BY <1>1 DEF AlterColumn
<1>3. \A f \in ToSet(fields) : SetsOptions(f) \in D => SetsOptions(f) \in R
  BY <1>1 DEF SetsOptions
<1>4. \A f \in ToSet(fields) : AddsColumn(f) \in D => AddsColumn(f) \in R
  BY <1>1 DEF AddsColumn
<1>5. \A c : DropsColumn(t, c) \in D => DropsColumn(t, c) \in R
  BY <1>1 DEF DropsColumn
<1>6. ASSUME NEW f \in ToSet(fields) PROVE FieldAwaits(tbl, f, R)
  <2>1. FieldAwaits(tbl, f, D)
    BY DEF ColumnsAwait
  <2>2. QED BY <1>2, <1>3, <1>4, <2>1 DEF FieldAwaits, DefAwaits
<1>7. QED BY <1>5, <1>6 DEF ColumnsAwait

\* A table that the statement is not for.
LEMMA OthersAwait ==
  ASSUME NEW t, NEW tbl, NEW fields, \A f \in ToSet(fields) : f.table = t,
         NEW D, NEW x, NEW R, Done(D, x, R), Awaits(t, tbl, fields, D),
         x.table # t, x.op # "dropIndex"
  PROVE  Awaits(t, tbl, fields, R)
<1>1. ColumnsAwait(t, tbl, fields, R)
  BY SameColumns DEF Awaits
<1>2. IndexesAwait(t, tbl, fields, R)
  BY SameIndexes DEF Awaits
<1>3. QED BY <1>1, <1>2 DEF Awaits

\* A table that is still to be created.
LEMMA AbsentAwaits ==
  ASSUME NEW t, NEW fields, NEW D, NEW x, NEW R, Done(D, x, R), x.table # t \/ x.op = "dropIndex",
         CreatesTable(t, fields) \in D, \A y \in Declared(t, fields) : CreatesIndex(y) \in D
  PROVE  CreatesTable(t, fields) \in R /\ \A y \in Declared(t, fields) : CreatesIndex(y) \in R
<1>1. \A y \in Declared(t, fields) : CreatesIndex(y).table = t /\ CreatesIndex(y).op = "createIndex"
  BY DEF Declared, CreatesIndex
<1>2. CreatesTable(t, fields).table = t /\ CreatesTable(t, fields).op = "createTable"
  BY DEF CreatesTable
<1>3. QED BY <1>1, <1>2 DEF Done

LEMMA DropTableStep ==
  ASSUME NEW d, NEW s, NEW D, NEW x, NEW R, NEW live, NEW new, Step(d, s, D, x, R, live, new),
         x.op = "dropTable"
  PROVE  Pending(new, s, R)
<1>1. /\ Pending(d, s, D) /\ Done(D, x, R) /\ new \in Result(d, x, live)
      /\ \A z \in R : Serves(z, s)
  BY DEF Step, Pending, Done
<1>2. DOMAIN s = {}
  BY <1>1 DEF Pending, Done, Serves, DropStatements, ServesTable, CreatesTable, AddsColumn, AlterColumn,
              SetsOptions, DropsColumn, CreatesIndex
<1>3. /\ x.table \in DOMAIN d /\ d[x.table].indexes = {}
      /\ new = [t \in DOMAIN d \ {x.table} |-> d[t]]
  BY <1>1 DEF Result, OnlyIf, Restrict
<1>4. DropsIndexes(R) = DropsIndexes(D)
  BY <1>1, SameIndexes
<1>5. AllIndexNames(d) \subseteq AllIndexNames(new)
  BY <1>3 DEF AllIndexNames, IndexNamesOf
<1>6. ASSUME NEW t \in DOMAIN new PROVE DropTable(t) \in R
  <2>1. DropTable(t) \in D /\ DropTable(t).table # x.table
    BY <1>1, <1>2, <1>3 DEF Pending, DropTable
  <2>2. QED BY <1>1, <2>1 DEF Done
<1>7. DropsIndexes(D) \subseteq AllIndexNames(d)
  BY <1>1 DEF Pending
<1>8. QED BY <1>1, <1>2, <1>4, <1>5, <1>6, <1>7 DEF Pending

LEMMA CreateTableStep ==
  ASSUME NEW d, NEW s, NEW D, NEW x, NEW R, NEW live, NEW new, Step(d, s, D, x, R, live, new),
         x.op = "createTable"
  PROVE  Pending(new, s, R)
<1> DEFINE t == x.table
           fields == s[t]
           tbl == [columns |-> x.columns, pk |-> x.pk, indexes |-> {}]
<1>1. /\ Pending(d, s, D) /\ Done(D, x, R) /\ new \in Result(d, x, live) /\ IsSchema(s)
      /\ \A z \in R : Serves(z, s)
  BY DEF Step, Pending, Done
<1>2. t \in DOMAIN s /\ x = CreatesTable(t, fields)
  <2>1. x.table \in DOMAIN s /\ ServesTable(x, x.table, s[x.table])
    BY <1>1, ServedTable DEF Pending, Done
  <2>2. QED
    BY <2>1 DEF ServesTable, AddsColumn, AlterColumn, SetsOptions, DropsColumn, CreatesIndex
<1>3. t \notin DOMAIN d /\ new = WithTable(d, t, tbl)
  BY <1>1 DEF Result, OnlyIf
<1>4. /\ tbl.pk = PkColumns(fields) /\ tbl.indexes = {}
      /\ tbl.columns = [n \in DOMAIN fields |->
                          [name |-> fields[n].column, def |-> fields[n].def, data |-> fields[n].column]]
  BY <1>2 DEF CreatesTable
<1> HIDE DEF tbl, fields, t
<1>5. DOMAIN new = DOMAIN d \union {t} /\ new[t] = tbl /\ \A u \in DOMAIN d : u # t /\ new[u] = d[u]
  BY <1>3 DEF WithTable
<1>6. /\ \A f \in ToSet(fields) : f.table = t
      /\ fields \in Seq(Field) /\ ~Repeated(fields)
  BY <1>1, <1>2, SchemaFields DEF fields, Pending, IsSchema
<1>7. /\ \A col \in ToSet(tbl.columns) : \E f \in ToSet(fields) : col.name = f.column /\ col.def = f.def
      /\ \A f \in ToSet(fields) : \E n \in DOMAIN tbl.columns : tbl.columns[n].name = f.column
  BY <1>4 DEF ToSet
<1>8. ColumnsAwait(t, tbl, fields, R)
  <2>1. \A f, g \in ToSet(fields) : f.column = g.column => f = g
    BY <1>6, OneFieldPerColumn
  <2>2. ASSUME NEW f \in ToSet(fields) PROVE FieldAwaits(tbl, f, R)
    <3>1. f.column \in ColumnNames(tbl)
      BY <1>7 DEF ColumnNames
    <3>2. \A col \in ToSet(tbl.columns) : col.name = f.column => col.def = f.def
      BY <1>7, <2>1
    <3>3. QED BY <3>1, <3>2 DEF FieldAwaits, DefAwaits
  <2>3. \A col \in ToSet(tbl.columns) : col.name \in ColumnsOf(fields)
    BY <1>7 DEF ColumnsOf, ToSet
  <2>4. QED BY <2>2, <2>3 DEF ColumnsAwait
<1>9. IndexesAwait(t, tbl, fields, R)
  <2>1. ASSUME NEW y \in Declared(t, fields) PROVE y \in CreatesIndexes(R, t)
    <3>1. CreatesIndex(y) \in D
      BY <1>1, <1>2, <1>3 DEF Pending, fields
    <3>2. CreatesIndex(y).op = "createIndex" /\ CreatesIndex(y).table = t /\ CreatesIndex(y).index = y
      BY DEF CreatesIndex, Declared
    <3>3. CreatesIndex(y) \in R
      BY <1>1, <3>1, <3>2 DEF Done
    <3>4. QED BY <3>2, <3>3 DEF CreatesIndexes
  <2>2. QED BY <1>4, <2>1 DEF IndexesAwait, IndexesServed
<1>10. Awaits(t, tbl, fields, R)
  BY <1>4, <1>8, <1>9 DEF Awaits
<1>11. ASSUME NEW u \in DOMAIN s \intersect DOMAIN new PROVE Awaits(u, new[u], s[u], R)
  <2>1. CASE u = t
    BY <1>5, <1>10, <2>1 DEF fields
  <2>2. CASE u # t
    <3>1. Awaits(u, d[u], s[u], D) /\ new[u] = d[u]
      BY <1>1, <1>5, <2>2 DEF Pending
    <3>2. \A f \in ToSet(s[u]) : f.table = u
      BY <1>1, SchemaFields
    <3>3. Awaits(u, d[u], s[u], R)
      BY <1>1, <2>2, <3>1, <3>2, OthersAwait DEF t
    <3>4. QED BY <3>1, <3>3
  <2>3. QED BY <2>1, <2>2
<1>12. ASSUME NEW u \in DOMAIN s \ DOMAIN new
       PROVE  CreatesTable(u, s[u]) \in R /\ \A y \in Declared(u, s[u]) : CreatesIndex(y) \in R
  <2>1. u # t /\ CreatesTable(u, s[u]) \in D /\ \A y \in Declared(u, s[u]) : CreatesIndex(y) \in D
    BY <1>1, <1>5 DEF Pending
  <2>2. QED BY <1>1, <2>1, AbsentAwaits DEF t
<1>13. DropsIndexes(R) \subseteq AllIndexNames(new)
  <2>1. DropsIndexes(R) \subseteq AllIndexNames(d)
    BY <1>1, SameIndexes DEF Pending
  <2>2. AllIndexNames(d) \subseteq AllIndexNames(new)
    BY <1>5 DEF AllIndexNames
  <2>3. QED BY <2>1, <2>2
<1>14. (\A u \in DOMAIN s : ~Repeated(s[u])) /\ DOMAIN s # {}
  BY <1>1, <1>2 DEF Pending
<1>15. QED BY <1>1, <1>11, <1>12, <1>13, <1>14 DEF Pending

\* A statement for a table that leaves the other tables as they are.
LEMMA TableStep ==
  ASSUME NEW d, NEW s, NEW D, NEW x, NEW R, NEW live, NEW new, Step(d, s, D, x, R, live, new),
         x.op # "dropIndex", NEW t, t = x.table, t \in DOMAIN d \intersect DOMAIN s,
         NEW tbl, new = [d EXCEPT ![t] = tbl], Awaits(t, tbl, s[t], R),
         d[t].indexes \subseteq tbl.indexes
  PROVE  Pending(new, s, R)
<1>1. /\ Pending(d, s, D) /\ Done(D, x, R) /\ IsSchema(s) /\ IsDatabase(d)
      /\ \A z \in R : Serves(z, s)
  BY DEF Step, Pending, Done
<1>2. DOMAIN new = DOMAIN d /\ new[t] = tbl /\ \A u \in DOMAIN d : u # t => new[u] = d[u]
  BY <1>1 DEF IsDatabase
<1>3. ASSUME NEW u \in DOMAIN s \intersect DOMAIN new PROVE Awaits(u, new[u], s[u], R)
  <2>1. CASE u = t
    BY <1>2, <2>1
  <2>2. CASE u # t
    <3>1. Awaits(u, d[u], s[u], D) /\ new[u] = d[u]
      BY <1>1, <1>2, <2>2 DEF Pending
    <3>2. \A f \in ToSet(s[u]) : f.table = u
      BY <1>1, SchemaFields
    <3>3. Awaits(u, d[u], s[u], R)
      BY <1>1, <2>2, <3>1, <3>2, OthersAwait
    <3>4. QED BY <3>1, <3>3
  <2>3. QED BY <2>1, <2>2
<1>4. ASSUME NEW u \in DOMAIN s \ DOMAIN new
      PROVE  CreatesTable(u, s[u]) \in R /\ \A y \in Declared(u, s[u]) : CreatesIndex(y) \in R
  <2>1. u # t /\ CreatesTable(u, s[u]) \in D /\ \A y \in Declared(u, s[u]) : CreatesIndex(y) \in D
    BY <1>1, <1>2 DEF Pending
  <2>2. QED BY <1>1, <2>1, AbsentAwaits
<1>5. DropsIndexes(R) \subseteq AllIndexNames(new)
  <2>1. DropsIndexes(R) \subseteq AllIndexNames(d)
    BY <1>1, SameIndexes DEF Pending
  <2>2. ASSUME NEW u \in DOMAIN d PROVE IndexNamesOf(d[u]) \subseteq IndexNamesOf(new[u])
    BY <1>2 DEF IndexNamesOf
  <2>3. QED BY <1>2, <2>1, <2>2 DEF AllIndexNames
<1>6. (\A u \in DOMAIN s : ~Repeated(s[u])) /\ DOMAIN s # {}
  BY <1>1 DEF Pending
<1>7. QED BY <1>1, <1>3, <1>4, <1>5, <1>6 DEF Pending

LEMMA CreateIndexStep ==
  ASSUME NEW d, NEW s, NEW D, NEW x, NEW R, NEW live, NEW new, Step(d, s, D, x, R, live, new),
         x.op = "createIndex"
  PROVE  Pending(new, s, R)
<1> DEFINE t == x.table
           fields == s[t]
           y == x.index
           old == d[t]
           tbl == [old EXCEPT !.indexes = @ \union {y}]
<1>1. /\ Pending(d, s, D) /\ Done(D, x, R) /\ new \in Result(d, x, live) /\ IsSchema(s)
      /\ IsDatabase(d)
  BY DEF Step
<1>2. t \in DOMAIN s /\ y \in Declared(t, fields)
  <2>1. x.table \in DOMAIN s /\ ServesTable(x, x.table, s[x.table])
    BY <1>1, ServedTable DEF Pending, Done
  <2>2. \E z \in Declared(t, fields) : x = CreatesIndex(z)
    BY <2>1 DEF ServesTable, AddsColumn, AlterColumn, SetsOptions, DropsColumn, CreatesTable
  <2>3. QED BY <2>1, <2>2 DEF CreatesIndex
<1>3. t \in DOMAIN d /\ new = [d EXCEPT ![t] = tbl] /\ y.name \notin AllIndexNames(d)
  BY <1>1 DEF Result, OnlyIf
<1>4. IsTable(old) /\ t \in Tables /\ fields \in Seq(Field) /\ \A f \in ToSet(fields) : f.table = t
  BY <1>1, <1>2, <1>3, SchemaFields DEF IsDatabase
<1>5. /\ tbl.indexes = old.indexes \union {y}
      /\ tbl.columns = old.columns /\ tbl.pk = old.pk
  BY <1>4, PartsOfTable
<1>6. Awaits(t, old, fields, D)
  BY <1>1, <1>2, <1>3 DEF Pending
<1>7. y.name \notin DropsIndexes(D)
  BY <1>1, <1>3 DEF Pending
<1>8. y \in Index /\ ToSet(y.columns) \subseteq ColumnsOf(fields)
  <2>1. IsDeclared(y, t, fields)
    BY <1>2, <1>4, DeclaredIndexes
  <2>2. QED BY <2>1 DEF IsDeclared, ColumnsOf
<1>9. CreatesIndexes(D, t) \subseteq CreatesIndexes(R, t) \union {y}
  BY <1>1 DEF CreatesIndexes, Done
<1>10. DropsIndexes(R) = DropsIndexes(D)
  BY <1>1, SameIndexes
<1>11. x.table = t /\ x.op = "createIndex"
  OBVIOUS
<1> HIDE DEF t, fields, y, old, tbl
<1>12. ColumnsAwait(t, tbl, fields, R)
  <2>1. ColumnsAwait(t, old, fields, R)
    BY <1>1, <1>4, <1>6, <1>11, SameColumns DEF Awaits
  <2>2. QED BY <1>5, <2>1 DEF ColumnsAwait, FieldAwaits, ColumnNames
<1>13. IndexesAwait(t, tbl, fields, R)
  <2> DEFINE xs == old.indexes
             ys == Declared(t, fields)
             kept == ColumnsOf(fields)
             drops == DropsIndexes(D)
             creates == CreatesIndexes(D, t)
             left == CreatesIndexes(R, t)
  <2>1. IndexesServed(xs, ys, kept, drops, creates)
    BY <1>6 DEF Awaits, IndexesAwait
  <2>2. y \in ys /\ ToSet(y.columns) \subseteq kept /\ y.name \notin drops /\ creates \subseteq left \union {y}
    BY <1>2, <1>7, <1>8, <1>9
  <2> HIDE DEF xs, ys, kept, drops, creates, left
  <2>3. IndexesServed(xs \union {y}, ys, kept, drops, left)
    BY <1>8, <2>1, <2>2, ServedCreate
  <2>4. QED BY <1>5, <1>10, <2>3 DEF IndexesAwait, xs, ys, kept, drops, left
<1>14. Awaits(t, tbl, fields, R)
  BY <1>5, <1>6, <1>12, <1>13 DEF Awaits
<1>15. old.indexes \subseteq tbl.indexes
  BY <1>5
<1>16. QED BY <1>2, <1>3, <1>11, <1>14, <1>15, TableStep DEF fields, old

LEMMA ColumnsStep ==
  ASSUME NEW d, NEW s, NEW D, NEW x, NEW R, NEW live, NEW new, Step(d, s, D, x, R, live, new),
         x.op \notin {"createTable", "dropTable", "createIndex", "dropIndex"}
  PROVE  Pending(new, s, R)
<1> DEFINE t == x.table
           fields == s[t]
           old == d[t]
<1>1. /\ Pending(d, s, D) /\ Done(D, x, R) /\ new \in Result(d, x, live) /\ IsSchema(s)
      /\ IsDatabase(d) /\ AllOwn(d)
  BY DEF Step
<1>2. t \in DOMAIN s /\ ServesTable(x, t, fields)
  BY <1>1, ServedTable DEF Pending, Done
<1>3. t \in DOMAIN d /\ new \in {[d EXCEPT ![t] = tbl] : tbl \in AlterTable(old, x, live)}
  BY <1>1 DEF Result
<1>4. PICK tbl \in AlterTable(old, x, live) : new = [d EXCEPT ![t] = tbl]
  BY <1>3
<1>5. /\ IsTable(old) /\ DistinctColumns(old) /\ fields \in Seq(Field) /\ ~Repeated(fields)
      /\ \A f \in ToSet(fields) : f.table = t
      /\ \A f \in ToSet(fields) : f.column \in Columns /\ f.def \in Defs
  <2>1. fields \in Seq(Field) /\ \A f \in ToSet(fields) : f \in Field /\ f.table = t
    BY <1>1, <1>2, SchemaFields
  <2>2. QED BY <1>1, <1>2, <1>3, <2>1 DEF IsDatabase, AllOwn, WellFormed, Pending, Field
<1>6. Awaits(t, old, fields, D)
  BY <1>1, <1>2, <1>3 DEF Pending
<1>7. ColumnStep(t, old, fields, D, x, R)
  BY <1>1, <1>5, <1>6 DEF ColumnStep, Awaits
<1>8. x.table = t
  OBVIOUS
<1> HIDE DEF t, fields, old
<1>9. ASSUME \E f \in ToSet(fields) : x = AddsColumn(f)
      PROVE  ColumnsAwait(t, tbl, fields, R) /\ OtherColumns(old, tbl)
  <2>1. PICK f \in ToSet(fields) : x = AddsColumn(f)
    BY <1>9
  <2>2. ColumnsAwait(t, tbl, fields, R)
    BY <1>7, <2>1, AddColumnServes
  <2>3. OtherColumns(old, tbl)
    <3>1. f.def \in Defs /\ x.op = "addColumn" /\ x.column \in Columns
          /\ x.def = [f.def EXCEPT !.nullable = TRUE]
      BY <1>5, <2>1 DEF AddsColumn
    <3>2. x.def \in Defs
      BY <3>1, DefinitionType
    <3>3. QED BY <1>5, <3>1, <3>2, AddColumnMakes
  <2>4. QED BY <2>2, <2>3
<1>10. ASSUME \E f \in ToSet(fields) : x = AlterColumn(f)
       PROVE  ColumnsAwait(t, tbl, fields, R) /\ OtherColumns(old, tbl)
  <2>1. PICK f \in ToSet(fields) : x = AlterColumn(f)
    BY <1>10
  <2>2. ColumnsAwait(t, tbl, fields, R)
    BY <1>7, <2>1, AlterColumnServes
  <2>3. OtherColumns(old, tbl)
    BY <1>5, <2>1, AlterColumnMakes, RedefinedMakes
  <2>4. QED BY <2>2, <2>3
<1>11. ASSUME \E f \in ToSet(fields) : x = SetsOptions(f)
       PROVE  ColumnsAwait(t, tbl, fields, R) /\ OtherColumns(old, tbl)
  <2>1. PICK f \in ToSet(fields) : x = SetsOptions(f)
    BY <1>11
  <2>2. ColumnsAwait(t, tbl, fields, R)
    BY <1>7, <2>1, SetOptionsServes
  <2>3. OtherColumns(old, tbl)
    <3>1. x.op = "setOptions" /\ f.def \in Defs /\ x.extra = f.def.extra
      BY <1>5, <2>1 DEF SetsOptions
    <3>2. QED BY <1>5, <3>1, SetOptionsMakes, RedefinedMakes
  <2>4. QED BY <2>2, <2>3
<1>12. ASSUME \E c : x = DropsColumn(t, c) /\ c \notin ColumnsOf(fields)
       PROVE  ColumnsAwait(t, tbl, fields, R) /\ OtherColumns(old, tbl)
  <2>1. PICK c : x = DropsColumn(t, c) /\ c \notin ColumnsOf(fields)
    BY <1>12
  <2>2. ColumnsAwait(t, tbl, fields, R)
    BY <1>7, <2>1, DropColumnServes
  <2>3. OtherColumns(old, tbl)
    <3>1. x.op = "dropColumn"
      BY <2>1 DEF DropsColumn
    <3>2. QED BY <1>5, <3>1, DropColumnMakes
  <2>4. QED BY <2>2, <2>3
<1>13. ColumnsAwait(t, tbl, fields, R) /\ OtherColumns(old, tbl)
  <2>1. \/ \E f \in ToSet(fields) : x \in {AddsColumn(f), AlterColumn(f), SetsOptions(f)}
        \/ \E c : x = DropsColumn(t, c) /\ c \notin ColumnsOf(fields)
    BY <1>2 DEF ServesTable, CreatesTable, CreatesIndex
  <2>2. QED BY <1>9, <1>10, <1>11, <1>12, <2>1
<1>14. tbl.pk = old.pk /\ tbl.indexes = old.indexes
  BY <1>13 DEF OtherColumns
<1>15. IndexesAwait(t, tbl, fields, R)
  <2>1. IndexesAwait(t, old, fields, R)
    BY <1>1, <1>6, SameIndexes DEF Awaits
  <2>2. QED BY <1>14, <2>1 DEF IndexesAwait
<1>16. Awaits(t, tbl, fields, R)
  BY <1>6, <1>13, <1>14, <1>15 DEF Awaits
<1>17. QED BY <1>2, <1>3, <1>4, <1>8, <1>14, <1>16, TableStep DEF fields, old

LEMMA DropIndexStep ==
  ASSUME NEW d, NEW s, NEW D, NEW x, NEW R, NEW live, NEW new, Step(d, s, D, x, R, live, new),
         x.op = "dropIndex"
  PROVE  Pending(new, s, R)
<1> DEFINE tbl(u) == [d[u] EXCEPT !.indexes = {z \in @ : z.name # x.name}]
<1>1. /\ Pending(d, s, D) /\ Done(D, x, R) /\ new \in Result(d, x, live) /\ IsSchema(s)
      /\ IsDatabase(d) /\ x.name \notin DropsIndexes(R)
      /\ \A z \in R : Serves(z, s)
  BY DEF Step, Pending, Done
<1>2. new = [u \in DOMAIN d |-> tbl(u)]
  BY <1>1 DEF Result, OnlyIf
<1>3. ASSUME NEW u \in DOMAIN d
      PROVE  /\ new[u].columns = d[u].columns /\ new[u].pk = d[u].pk
             /\ new[u].indexes = {z \in d[u].indexes : z.name # x.name}
  <2>1. IsTable(d[u])
    BY <1>1 DEF IsDatabase
  <2>2. /\ tbl(u).columns = d[u].columns /\ tbl(u).pk = d[u].pk
        /\ tbl(u).indexes = {z \in d[u].indexes : z.name # x.name}
    BY <2>1, PartsOfTable
  <2>3. QED BY <1>2, <2>2
<1>4. DOMAIN new = DOMAIN d
  BY <1>2
<1> HIDE DEF tbl
<1>5. /\ x.name \in DropsIndexes(D) /\ DropsIndexes(R) \subseteq DropsIndexes(D)
      /\ DropsIndexes(D) \subseteq DropsIndexes(R) \union {x.name}
  BY <1>1 DEF DropsIndexes, Done
<1>6. ASSUME NEW u \in DOMAIN s \intersect DOMAIN new PROVE Awaits(u, new[u], s[u], R)
  <2> DEFINE fields == s[u]
             xs == d[u].indexes
             ys == Declared(u, fields)
             kept == ColumnsOf(fields)
             drops == DropsIndexes(D)
             left == DropsIndexes(R)
             creates == CreatesIndexes(D, u)
             name == x.name
  <2>1. Awaits(u, d[u], fields, D)
    BY <1>1, <1>4 DEF Pending
  <2>2. \A f \in ToSet(fields) : f.table = u
    BY <1>1, SchemaFields
  <2>3. CreatesIndexes(R, u) = creates
    BY <1>1, SameIndexes
  <2>4. IndexesServed(xs, ys, kept, drops, creates)
    BY <2>1 DEF Awaits, IndexesAwait
  <2>5. ColumnsAwait(u, d[u], fields, R)
    BY <1>1, <2>1, <2>2, SameColumns DEF Awaits
  <2>6. name \in drops /\ left \subseteq drops /\ drops \subseteq left \union {name}
    BY <1>5
  <2>7. new[u].indexes = {z \in xs : z.name # name} /\ new[u].columns = d[u].columns /\ new[u].pk = d[u].pk
    BY <1>3, <1>4
  <2> HIDE DEF xs, ys, kept, drops, left, creates, name, fields
  <2>8. IndexesServed({z \in xs : z.name # name}, ys, kept, left, creates)
    BY <2>4, <2>6, ServedDrop
  <2>9. IndexesAwait(u, new[u], fields, R)
    BY <2>3, <2>7, <2>8 DEF IndexesAwait, ys, kept, left
  <2>10. ColumnsAwait(u, new[u], fields, R)
    BY <2>5, <2>7 DEF ColumnsAwait, FieldAwaits, ColumnNames
  <2>11. Awaits(u, new[u], fields, R)
    BY <2>1, <2>7, <2>9, <2>10 DEF Awaits
  <2>12. QED BY <2>11 DEF fields
<1>7. ASSUME NEW u \in DOMAIN s \ DOMAIN new
      PROVE  CreatesTable(u, s[u]) \in R /\ \A y \in Declared(u, s[u]) : CreatesIndex(y) \in R
  <2>1. CreatesTable(u, s[u]) \in D /\ \A y \in Declared(u, s[u]) : CreatesIndex(y) \in D
    BY <1>1, <1>4 DEF Pending
  <2>2. QED BY <1>1, <2>1, AbsentAwaits
<1>8. DropsIndexes(R) \subseteq AllIndexNames(new)
  <2>1. ASSUME NEW y \in DropsIndexes(R) PROVE y \in AllIndexNames(new)
    <3>1. y \in AllIndexNames(d) /\ y # x.name
      BY <1>1, <1>5 DEF Pending
    <3>2. PICK u \in DOMAIN d : y \in IndexNamesOf(d[u])
      BY <3>1 DEF AllIndexNames
    <3>3. PICK z \in d[u].indexes : y = z.name
      BY <3>2 DEF IndexNamesOf
    <3>4. z \in new[u].indexes
      BY <1>3, <3>1, <3>3
    <3>5. QED BY <1>4, <3>3, <3>4 DEF AllIndexNames, IndexNamesOf
  <2>2. QED BY <2>1
<1>9. \A u \in DOMAIN s : ~Repeated(s[u])
  BY <1>1 DEF Pending
<1>10. DOMAIN s = {} => \A u \in DOMAIN new : DropTable(u) \in R
  <2>1. \A u : DropTable(u).op # x.op
    BY DEF DropTable
  <2>2. QED BY <1>1, <1>4, <2>1 DEF Pending, Done
<1>11. QED BY <1>1, <1>6, <1>7, <1>8, <1>9, <1>10 DEF Pending

\* A statement of the plan, carried out: what is left of the plan is for what is left to do.
LEMMA StatementServes ==
  ASSUME NEW d, NEW s, NEW D, NEW x, NEW R, NEW live, NEW new, Step(d, s, D, x, R, live, new)
  PROVE  Pending(new, s, R)
BY DropTableStep, CreateTableStep, CreateIndexStep, DropIndexStep, ColumnsStep

\* Nothing is left to be done: the tables are what the source declares.
LEMMA NothingPending ==
  ASSUME NEW d, IsDatabase(d), AllOwn(d), NEW s, IsSchema(s), Pending(d, s, {})
  PROVE  Matches(d, s)
<1>1. ASSUME NEW t \in DOMAIN s
      PROVE  /\ t \in DOMAIN d
             /\ {<<c.name, c.def>> : c \in ToSet(d[t].columns)}
                  = {<<c.name, c.def>> : c \in ToSet(Built(t, s[t]).columns)}
             /\ d[t].pk = Built(t, s[t]).pk /\ d[t].indexes = Built(t, s[t]).indexes
  <2> DEFINE tbl == d[t]
             fields == s[t]
  <2>1. t \in DOMAIN d /\ Awaits(t, tbl, fields, {})
    BY DEF Pending
  <2>2. /\ t \in Tables /\ IsTable(tbl) /\ WellFormed(t, tbl) /\ fields \in Seq(Field)
        /\ \A f \in ToSet(fields) : f \in Field
    BY <2>1, SchemaFields DEF IsDatabase, AllOwn
  <2> HIDE DEF tbl, fields
  <2>3. /\ ColumnNames(tbl) = {col.name : col \in ToSet(tbl.columns)}
        /\ \A col \in ToSet(tbl.columns) : col.def \in Defs
    <3>1. \A col \in ToSet(tbl.columns) : col \in Column
      BY <2>2, PartsOfTable, Elements
    <3>2. QED BY <2>2, <3>1, PartsOfTable DEF Column
  <2>4. ASSUME NEW f \in ToSet(fields)
        PROVE  /\ f.column \in ColumnNames(tbl)
               /\ \A col \in ToSet(tbl.columns) : col.name = f.column => col.def = f.def
    <3>1. FieldAwaits(tbl, f, {}) /\ f.def \in Defs
      BY <2>1, <2>2 DEF Awaits, ColumnsAwait, Field
    <3>2. ASSUME NEW col \in ToSet(tbl.columns), col.name = f.column PROVE col.def = f.def
      <4>1. /\ col.def.type = f.def.type /\ col.def.nullable = f.def.nullable
            /\ col.def.extra = f.def.extra
        BY <3>1, <3>2 DEF FieldAwaits, DefAwaits
      <4>2. QED BY <2>3, <3>1, <4>1, DefinitionParts
    <3>3. QED BY <3>1, <3>2 DEF FieldAwaits
  <2>5. \A f \in ToSet(fields) : HasField(tbl, f)
    BY <2>3, <2>4 DEF HasField, IsField
  <2>6. \A col \in ToSet(tbl.columns) : IsDeclaredColumn(col, fields)
    <3>1. ASSUME NEW col \in ToSet(tbl.columns) PROVE \E f \in ToSet(fields) : f.column = col.name
      <4>1. col.name \in ColumnsOf(fields)
        BY <2>1 DEF Awaits, ColumnsAwait
      <4>2. QED BY <4>1 DEF ColumnsOf, ToSet
    <3>2. QED BY <2>4, <3>1 DEF IsDeclaredColumn, IsField
  <2>7. DropsIndexes({}) = {} /\ CreatesIndexes({}, t) = {}
    BY DEF DropsIndexes, CreatesIndexes
  <2>8. tbl.pk = PkColumns(fields)
        /\ IndexesServed(tbl.indexes, Declared(t, fields), ColumnsOf(fields), {}, {})
    BY <2>1, <2>7 DEF Awaits, IndexesAwait
  <2>9. /\ {<<c.name, c.def>> : c \in ToSet(tbl.columns)}
              = {<<c.name, c.def>> : c \in ToSet(Built(t, fields).columns)}
        /\ tbl.pk = Built(t, fields).pk
        /\ tbl.indexes = Built(t, fields).indexes
    BY <2>2, <2>5, <2>6, <2>8, TableMatches
  <2>10. QED BY <2>1, <2>9 DEF tbl, fields
<1>2. DOMAIN s = {} => DOMAIN d = {}
  BY DEF Pending
<1>3. QED BY <1>1, <1>2 DEF Matches

-----------------------------------------------------------------------------
(* The plan of a run is for what is left to do.                              *)

OwnInv ==
  /\ Inv
  /\ AllOwn(db)
  /\ pc \in {"exec", "ok"} /\ ~Limited(base, File) =>
       Pending(db, File, ToSet(plan)) /\ Ordered(plan, Twice)
  /\ pc = "ok" => plan = <<>>

LEMMA OwnInit == Init => OwnInv
<1> SUFFICES ASSUME Init PROVE OwnInv
  OBVIOUS
<1>1. PICK h \in Histories : db = [t \in DOMAIN h[1] |-> Built(t, h[1][t])]
  BY DEF Init
<1>2. Holdable(h[1]) /\ OwnNames(h[1])
  BY HistoriesAssumption
<1>3. DOMAIN db = DOMAIN h[1] /\ \A t \in DOMAIN db : db[t] = Built(t, h[1][t])
  BY <1>1
<1>4. AllOwn(db)
  BY <1>2, <1>3 DEF AllOwn, Holdable, OwnNames
<1>5. QED BY <1>4, InitInv DEF OwnInv, Init

\* The source and what was read are schemas.
LEMMA Schemas ==
  ASSUME Inv
  PROVE  /\ IsSchema(File)
         /\ \A tables : Reading(tables, File, before) => IsSchema(tables)
<1>1. IsSource(File)
  BY HistoryTail DEF Inv, File
<1>2. QED BY <1>1 DEF IsSource, Reading

\* The next statement of the plan, executed.
LEMMA ExecutedOwns ==
  ASSUME OwnInv, plan # <<>>, NEW new \in Result(db, Head(plan), rows)
  PROVE  /\ AllOwn(new)
         /\ Pending(db, File, ToSet(plan)) /\ Ordered(plan, Twice) =>
              Pending(new, File, ToSet(Tail(plan))) /\ Ordered(Tail(plan), Twice)
<1> DEFINE x == Head(plan)
           D == ToSet(plan)
           R == ToSet(Tail(plan))
<1>1. Inv /\ IsDatabase(db) /\ AllOwn(db) /\ IsSchema(File)
  BY Schemas DEF OwnInv, Inv
<1>2. PICK tables : Reading(tables, File, before) /\ plan \in Seq(Statements(File, tables))
  BY <1>1 DEF Inv
<1>3. IsSchema(tables)
  BY <1>1, <1>2, Schemas
<1>4. x \in Statements(File, tables)
  BY <1>2, HeadAndTail
<1>5. IsStatement(x, File, tables)
  BY <1>1, <1>3, <1>4, SQLType DEF Statements
<1>6. AllOwn(new)
  BY <1>1, <1>5, StatementOwns
<1>7. ASSUME Pending(db, File, D), Ordered(plan, Twice)
      PROVE  Pending(new, File, R) /\ Ordered(Tail(plan), Twice)
  <2>1. Done(D, x, R) /\ Ordered(Tail(plan), Twice) /\ \A y \in R : <<x, y>> \notin Twice
    BY <1>2, <1>7, HeadAndRest
  <2>2. \A z \in D : Serves(z, File)
    BY <1>7 DEF Pending
  <2> HIDE DEF x, D, R
  <2>3. \A z \in D : z.op = "dropIndex" => z \in DropStatements
    BY <2>2 DEF Serves, ServesTable, CreatesTable, AddsColumn, AlterColumn, SetsOptions, DropsColumn,
                CreatesIndex
  <2>4. ASSUME x.op = "dropIndex" PROVE x.name \notin DropsIndexes(R)
    BY <2>1, <2>3, <2>4 DEF Twice, DropsIndexes, Done
  <2>5. Step(db, File, D, x, R, rows, new)
    BY <1>1, <1>7, <2>1, <2>4 DEF Step, x
  <2>6. Pending(new, File, R)
    BY <2>5, StatementServes
  <2>7. QED BY <2>1, <2>6
<1>8. QED BY <1>6, <1>7

\* The plan a run makes.
LEMMA PlansPending ==
  ASSUME OwnInv, NEW tables \in Reads(db), NEW todo \in Planned(File, tables), ~Limited(db, File)
  PROVE  Pending(db, File, ToSet(todo)) /\ Ordered(todo, Twice)
<1>1. IsDatabase(db) /\ AllOwn(db) /\ IsSchema(File)
  BY Schemas DEF OwnInv, Inv
<1>2. Reading(tables, File, before)
  BY ReadsReading DEF OwnInv, Inv
<1>3. IsSchema(tables)
  BY <1>2, Schemas DEF OwnInv
<1>4. DiffOutside(db, tables, File)
  BY <1>1, <1>3, ReadOutside
<1>5. QED BY <1>1, <1>4, PlanIsPending

LEMMA OwnNext == ASSUME OwnInv, [Next]_vars PROVE OwnInv'
<1>1. Inv'
  BY NextInv DEF OwnInv
<1>2. CASE UNCHANGED vars
  BY <1>1, <1>2 DEF OwnInv, File, vars
<1>3. CASE Edit
  <2>1. db' = Marked(db) /\ pc = "idle" /\ pc' = pc
    BY <1>3 DEF Edit
  <2>2. IsDatabase(db) /\ AllOwn(db)
    BY DEF OwnInv, Inv
  <2>3. \A t \in DOMAIN Marked(db) : WellFormed(t, Marked(db)[t])
    BY <2>2, MarkedWellFormed DEF AllOwn
  <2>4. DOMAIN Marked(db) = DOMAIN db /\ \A t \in DOMAIN db : Marked(db)[t].indexes = db[t].indexes
    BY <2>2, PartsOfTable DEF Marked, IsDatabase
  <2>5. AllOwn(Marked(db))
    BY <2>2, <2>3, <2>4 DEF AllOwn, IndexNamesOf
  <2>6. QED BY <1>1, <2>1, <2>5 DEF OwnInv
<1>4. CASE Plan
  <2>1. /\ db' = db /\ base' = db /\ pc' = "exec" /\ versions' = versions
        /\ \E tables \in Reads(db) : plan' \in Planned(File, tables)
    BY <1>4 DEF Plan
  <2>2. PICK tables \in Reads(db) : plan' \in Planned(File, tables)
    BY <2>1
  <2> DEFINE todo == plan'
  <2>3. todo \in Planned(File, tables)
    BY <2>2
  <2> HIDE DEF todo
  <2>4. ~Limited(db, File) => Pending(db, File, ToSet(todo)) /\ Ordered(todo, Twice)
    BY <2>3, PlansPending
  <2>5. File' = File
    BY <2>1 DEF File
  <2>6. AllOwn(db')
    BY <2>1 DEF OwnInv
  <2>7. ~Limited(base', File') => Pending(db', File', ToSet(plan')) /\ Ordered(plan', Twice)
    BY <2>1, <2>4, <2>5 DEF todo
  <2>8. QED BY <1>1, <2>1, <2>6, <2>7 DEF OwnInv
<1>5. CASE Exec
  <2>1. /\ pc = "exec" /\ plan # <<>> /\ db' \in Result(db, Head(plan), rows) /\ plan' = Tail(plan)
        /\ UNCHANGED <<versions, pc, base>>
    BY <1>5 DEF Exec
  <2>2. File' = File
    BY <2>1 DEF File
  <2> DEFINE new == db'
  <2>3. new \in Result(db, Head(plan), rows)
    BY <2>1
  <2> HIDE DEF new
  <2>4. /\ AllOwn(new)
        /\ Pending(db, File, ToSet(plan)) /\ Ordered(plan, Twice) =>
             Pending(new, File, ToSet(Tail(plan))) /\ Ordered(Tail(plan), Twice)
    BY <2>1, <2>3, ExecutedOwns
  <2>5. ~Limited(base, File) => Pending(db, File, ToSet(plan)) /\ Ordered(plan, Twice)
    BY <2>1 DEF OwnInv
  <2>6. ~Limited(base', File') => Pending(db', File', ToSet(plan')) /\ Ordered(plan', Twice)
    BY <2>1, <2>2, <2>4, <2>5 DEF new
  <2>7. QED BY <1>1, <2>1, <2>4, <2>6 DEF OwnInv, new
<1>6. CASE Interrupted
  <2>1. pc' = "failed" /\ plan # <<>> /\ db' \in Result(db, Head(plan), rows) \union {db}
    BY <1>6 DEF Interrupted
  <2>2. AllOwn(db')
    <3>1. CASE db' = db
      BY <3>1 DEF OwnInv
    <3>2. CASE db' \in Result(db, Head(plan), rows)
      BY <2>1, <3>2, ExecutedOwns
    <3>3. QED BY <2>1, <3>1, <3>2
  <2>3. QED BY <1>1, <2>1, <2>2 DEF OwnInv
<1>7. CASE Refused
  BY <1>1, <1>7 DEF Refused, OwnInv
<1>8. CASE Commit
  <2>1. pc = "exec" /\ plan = <<>> /\ UNCHANGED <<db, versions, base, plan>>
    BY <1>8 DEF Commit
  <2>2. QED BY <1>1, <2>1 DEF OwnInv, File
<1>9. CASE Exit
  BY <1>1, <1>9 DEF Exit, OwnInv
<1>10. QED
  BY <1>2, <1>3, <1>4, <1>5, <1>6, <1>7, <1>8, <1>9 DEF Next, Run

\* A run returns nil only when the database has become what the source declares, outside
\* the limits of Diff and of the dialect, whatever statements were refused or interrupted in
\* earlier runs: a column takes one or two statements, and an index is dropped and created
\* again by its name alone.
THEOREM SuccessIsMatch == Spec => []SuccessMeansMatch
<1>1. Init => OwnInv
  BY OwnInit
<1>2. OwnInv /\ [Next]_vars => OwnInv'
  BY OwnNext
<1>3. OwnInv => SuccessMeansMatch
  <2> SUFFICES ASSUME OwnInv, pc = "ok", ~Limited(base, File) PROVE Matches(db, File)
    BY DEF SuccessMeansMatch
  <2>1. Pending(db, File, ToSet(plan)) /\ plan = <<>>
    BY DEF OwnInv
  <2>2. ToSet(<<>>) = {}
    BY DEF ToSet
  <2>3. IsDatabase(db) /\ AllOwn(db) /\ IsSchema(File)
    BY Schemas DEF OwnInv, Inv
  <2>4. QED BY <2>1, <2>2, <2>3, NothingPending
<1>4. QED BY <1>1, <1>2, <1>3, PTL DEF Spec
=============================================================================
