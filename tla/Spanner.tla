------------------------------ MODULE Spanner -------------------------------
(***************************************************************************)
(* A Cloud Spanner database as migu uses it (src/dialect/spanner.go): the     *)
(* statements the dialect writes for a change, which may be none or two, what *)
(* the server makes of each, and the rows of the introspection query.  The    *)
(* server is not part of the repository; its behaviour is modelled from the   *)
(* SQL the dialect sends.                                                    *)
(***************************************************************************)
EXTENDS Database

CONSTANTS
  NoExtra,      \* no option of the column
  Convertible   \* pairs of types between which ALTER COLUMN changes a column

\* IsDifferent compares the type, the nullability and the option of a column; nothing
\* else of a field reaches Cloud Spanner.  A column may have any three of them.
ASSUME DefsAssumption ==
  Defs = [type : {d.type : d \in Defs}, nullable : BOOLEAN, extra : {d.extra : d \in Defs}]

-----------------------------------------------------------------------------
(* The statements of a change.                                             *)

CreateTableSQL(c) ==
  <<[op |-> "createTable", table |-> c.table, pk |-> c.pk,
     columns |-> [n \in DOMAIN c.fields |->
                    [name |-> c.fields[n].column, def |-> c.fields[n].def,
                     data |-> c.fields[n].column]]]>>

AlterColumn(f) ==
  [op |-> "alterColumn", table |-> f.table, column |-> f.column,
   type |-> f.def.type, nullable |-> f.def.nullable]

\* A column is added as one that may be NULL, and made NOT NULL by a second statement.
AddColumnSQL(c) ==
  <<[op |-> "addColumn", table |-> c.table, column |-> c.new.column,
     def |-> [c.new.def EXCEPT !.nullable = TRUE]]>>
    \o (IF c.new.def.nullable THEN <<>> ELSE <<AlterColumn(c.new)>>)

DropColumnSQL(c) ==
  <<[op |-> "dropColumn", table |-> c.table, column |-> c.old.column]>>

\* Mutant: only the nullability is looked at.
ModifyColumnSQLNullOnly(c) ==
  IF c.old.def.nullable # c.new.def.nullable THEN <<AlterColumn(c.new)>> ELSE <<>>

\* Nothing is written for a new name, nor for an option that changes its value.
ModifyColumnSQL(c) ==
  LET o == c.old.def
      n == c.new.def
  IN  (IF o.nullable # n.nullable \/ o.type # n.type THEN <<AlterColumn(c.new)>> ELSE <<>>)
        \o (IF (o.extra = NoExtra) # (n.extra = NoExtra)
              THEN <<[op |-> "setOptions", table |-> c.table, column |-> c.new.column,
                      extra |-> n.extra]>>
              ELSE <<>>)

\* An index has a name of its own in the whole database.
CreateIndexSQL(c) == <<[op |-> "createIndex", table |-> c.table, index |-> c.index]>>
DropIndexSQL(c) == <<[op |-> "dropIndex", table |-> c.table, name |-> c.index.name]>>

SQL(c) ==
  CASE c.op = "createTable" -> CreateTableSQL(c)
    [] c.op = "addColumn" -> AddColumnSQL(c)
    [] c.op = "dropColumn" -> DropColumnSQL(c)
    [] c.op = "modifyColumn" -> ModifyColumnSQL(c)
    [] c.op = "createIndex" -> CreateIndexSQL(c)
    [] c.op = "dropIndex" -> DropIndexSQL(c)
    [] c.op = "dropTable" -> <<c>>

-----------------------------------------------------------------------------
(* What the server makes of a statement; rows says whether tables hold any.   *)

Refers(tbl, c) == c \in tbl.pk \/ \E x \in tbl.indexes : c \in ToSet(x.columns)

ColumnNamed(tbl, c) == CHOOSE col \in ToSet(tbl.columns) : col.name = c

Redefined(tbl, c, def) ==
  [tbl EXCEPT !.columns = [n \in DOMAIN @ |->
     IF @[n].name = c THEN [@[n] EXCEPT !.def = def] ELSE @[n]]]

\* A key column keeps its type and its nullability, a column with a NULL does not
\* become NOT NULL.
Altered(tbl, s, rows) ==
  LET col == ColumnNamed(tbl, s.column)
  IN  OnlyIf(/\ s.column \notin tbl.pk
             /\ col.def.type = s.type \/ <<col.def.type, s.type>> \in Convertible
             /\ s.nullable \/ ~col.def.nullable \/ ~rows \/ col.data # NewColumn,
             Redefined(tbl, s.column, [col.def EXCEPT !.type = s.type, !.nullable = s.nullable]))

AlterTable(tbl, s, rows) ==
  CASE s.op = "addColumn" ->
         OnlyIf(s.column \notin ColumnNames(tbl),
                [tbl EXCEPT !.columns =
                   Append(@, [name |-> s.column, def |-> s.def, data |-> NewColumn])])
    [] s.op # "addColumn" /\ s.column \notin ColumnNames(tbl) -> {}
    [] s.op = "dropColumn" /\ s.column \in ColumnNames(tbl) ->
         OnlyIf(~Refers(tbl, s.column) /\ Len(tbl.columns) > 1,
                [tbl EXCEPT !.columns = WithoutColumn(@, s.column)])
    [] s.op = "alterColumn" /\ s.column \in ColumnNames(tbl) -> Altered(tbl, s, rows)
    [] s.op = "setOptions" /\ s.column \in ColumnNames(tbl) ->
         {Redefined(tbl, s.column, [ColumnNamed(tbl, s.column).def EXCEPT !.extra = s.extra])}

AllIndexNames(db) == UNION {IndexNamesOf(db[t]) : t \in DOMAIN db}

\* No two tables a source declares have an index of one name.
OwnNames(s) ==
  \A t, u \in DOMAIN s :
    t # u => IndexNamesOf(Built(t, s[t])) \intersect IndexNamesOf(Built(u, s[u])) = {}

\* The database after the statement, or no database when it is rejected.
Result(db, s, rows) ==
  CASE s.op = "createTable" ->
         OnlyIf(s.table \notin DOMAIN db /\ DistinctColumns(s),
                WithTable(db, s.table, [columns |-> s.columns, pk |-> s.pk, indexes |-> {}]))
    [] s.op # "createTable" /\ s.table \notin DOMAIN db -> {}
    [] s.op = "dropTable" /\ s.table \in DOMAIN db ->
         OnlyIf(db[s.table].indexes = {}, Restrict(db, DOMAIN db \ {s.table}))
    [] s.op = "createIndex" /\ s.table \in DOMAIN db ->
         OnlyIf(/\ s.index.name \notin AllIndexNames(db) \union {PrimaryName}
                /\ s.index.columns # <<>>
                /\ ToSet(s.index.columns) \subseteq ColumnNames(db[s.table]),
                [db EXCEPT ![s.table].indexes = @ \union {s.index}])
    [] s.op = "dropIndex" /\ s.table \in DOMAIN db ->
         OnlyIf(s.name \in AllIndexNames(db),
                [t \in DOMAIN db |-> [db[t] EXCEPT !.indexes = {x \in @ : x.name # s.name}]])
    [] OTHER -> {[db EXCEPT ![s.table] = tbl] : tbl \in AlterTable(db[s.table], s, rows)}

-----------------------------------------------------------------------------
(* Introspection.                                                          *)

\* A column is a row for each index it is part of, the key included, and one row when
\* there is none; nothing orders the rows of one column.
ColumnRows(t, tbl, col) ==
  LET rows == IndexRows(tbl, col.name)
  IN  IF rows = {} THEN {<<FieldOf(t, col, FALSE, {})>>}
      ELSE {[n \in DOMAIN r |-> FieldOf(t, col, r[n].name = PrimaryName, {r[n]})] :
              r \in SetToSeqs(rows)}

\* The functions that choose a member of each set of a family.
Selections(family) ==
  {g \in [DOMAIN family -> UNION Range(family)] : \A k \in DOMAIN family : g[k] \in family[k]}

\* The answers the query may give: for each table the fields of the old columns, a column
\* of several rows several times.
Reads(db) ==
  Selections([t \in DOMAIN db |->
    {FlattenSeq(rows) : rows \in
       Selections([n \in DOMAIN db[t].columns |-> ColumnRows(t, db[t], db[t].columns[n])])}])

\* What Diff may plan.  The dialect is no PrimaryKeyModifier.
Planned(source, tables) ==
  {FlattenSeq([n \in DOMAIN d |-> SQL(d[n])]) : d \in Diff(source, tables, FALSE)}
=============================================================================
