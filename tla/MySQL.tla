------------------------------- MODULE MySQL --------------------------------
(***************************************************************************)
(* A MySQL or MariaDB database as migu uses it (src/dialect/mysql.go): what  *)
(* each statement the dialect writes does to the tables, when the server     *)
(* rejects it, and what the two introspection queries answer.  The server is *)
(* not part of the repository; its behaviour is modelled from the SQL the    *)
(* dialect sends and from what Diff relies on.                               *)
(***************************************************************************)
EXTENDS Database

-----------------------------------------------------------------------------
(* One statement: what it does, if the server accepts it.                   *)

ColumnSQL(f, data) == [name |-> f.column, def |-> f.def, data |-> data]

CreateTableSQL(c) ==
  [columns |-> [n \in DOMAIN c.fields |-> ColumnSQL(c.fields[n], NewColumn)],
   pk |-> c.pk, indexes |-> {}]

AddColumnSQL(tbl, c) ==
  OnlyIf(c.new.column \notin ColumnNames(tbl),
         [tbl EXCEPT !.columns = Append(@, ColumnSQL(c.new, NewColumn))])

\* The column leaves every index and the key it is part of; an index left
\* without a column is gone.  A table keeps at least one column.
DropColumnSQL(tbl, c) ==
  LET gone   == c.old.column
      shrunk == {[x EXCEPT !.columns = Without(@, gone)] : x \in tbl.indexes}
  IN  OnlyIf(gone \in ColumnNames(tbl) /\ Len(tbl.columns) > 1,
             [columns |-> WithoutColumn(tbl.columns, gone),
              pk |-> tbl.pk \ {gone},
              indexes |-> {x \in shrunk : x.columns # <<>>}])

\* CHANGE renames the column wherever it is used and keeps its data.
ModifyColumnSQL(tbl, c) ==
  LET from == c.old.column
      to   == c.new.column
      Renamed(k) == IF k = from THEN to ELSE k
  IN  OnlyIf(from \in ColumnNames(tbl) /\ to \notin ColumnNames(tbl) \ {from},
             [columns |-> [n \in DOMAIN tbl.columns |->
                             IF tbl.columns[n].name = from
                               THEN ColumnSQL(c.new, tbl.columns[n].data)
                               ELSE tbl.columns[n]],
              pk |-> {Renamed(k) : k \in tbl.pk},
              indexes |-> {[x EXCEPT !.columns = [n \in DOMAIN @ |-> Renamed(@[n])]] :
                             x \in tbl.indexes}])

\* DROP PRIMARY KEY is written when the table was read with a key, and needs
\* one; ADD PRIMARY KEY is always written, and needs a column.
ModifyPrimaryKeySQL(tbl, c) ==
  OnlyIf(/\ c.oldPk # {} <=> tbl.pk # {}
         /\ c.newPk # {}
         /\ c.newPk \subseteq ColumnNames(tbl)
         /\ ~c.repeated,
         [tbl EXCEPT !.pk = c.newPk])

\* DROP INDEX `PRIMARY` is a way to drop the key; no index is created under that
\* name.
DropIndexSQL(tbl, c) ==
  IF c.index.name = PrimaryName
    THEN OnlyIf(tbl.pk # {}, [tbl EXCEPT !.pk = {}])
    ELSE OnlyIf(c.index.name \in IndexNamesOf(tbl),
                [tbl EXCEPT !.indexes = {x \in @ : x.name # c.index.name}])

CreateIndexSQL(tbl, c) ==
  OnlyIf(/\ c.index.name \notin IndexNamesOf(tbl) \union {PrimaryName}
         /\ c.index.columns # <<>>
         /\ ToSet(c.index.columns) \subseteq ColumnNames(tbl),
         [tbl EXCEPT !.indexes = @ \union {c.index}])

AlterTable(tbl, c) ==
  CASE c.op = "addColumn" -> AddColumnSQL(tbl, c)
    [] c.op = "dropColumn" -> DropColumnSQL(tbl, c)
    [] c.op = "modifyColumn" -> ModifyColumnSQL(tbl, c)
    [] c.op = "modifyPrimaryKey" -> ModifyPrimaryKeySQL(tbl, c)
    [] c.op = "dropIndex" -> DropIndexSQL(tbl, c)
    [] c.op = "createIndex" -> CreateIndexSQL(tbl, c)

\* The database after the statement, or no database when it is rejected.
Result(db, c) ==
  CASE c.op = "createTable" ->
         OnlyIf(c.table \notin DOMAIN db /\ ~Repeated(c.fields),
                WithTable(db, c.table, CreateTableSQL(c)))
    [] c.op # "createTable" /\ c.table \notin DOMAIN db -> {}
    [] c.op = "dropTable" /\ c.table \in DOMAIN db ->
         {Restrict(db, DOMAIN db \ {c.table})}
    [] OTHER -> {[db EXCEPT ![c.table] = tbl] : tbl \in AlterTable(db[c.table], c)}

-----------------------------------------------------------------------------
(* Introspection.                                                          *)

\* getIndexMap keeps one row of each column: the last of a query without ORDER
\* BY.
IndexMaps(db) ==
  LET keys == {k \in (DOMAIN db) \X Columns : IndexRows(db[k[1]], k[2]) # {}}
      rows == UNION {IndexRows(db[k[1]], k[2]) : k \in keys}
  IN  {m \in [keys -> rows] : \A k \in keys : m[k] \in IndexRows(db[k[1]], k[2])}

\* A row of information_schema.COLUMNS joined with the index map.
ReadField(t, tbl, col, indexMap) ==
  LET key == <<t, col.name>>
      row == IF key \in DOMAIN indexMap THEN {indexMap[key]} ELSE {}
  IN  FieldOf(t, col, col.name \in tbl.pk /\ \E r \in row : r.name = PrimaryName, row)

\* The tables as Diff sees them, from the columns of now and an index map that
\* may be older.
ReadTables(db, indexMap) ==
  [t \in DOMAIN db |->
     [n \in DOMAIN db[t].columns |-> ReadField(t, db[t], db[t].columns[n], indexMap)]]
=============================================================================
