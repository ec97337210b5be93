------------------------------ MODULE Database ------------------------------
(***************************************************************************)
(* What the models of the two databases share: tables with their columns,    *)
(* keys and indexes, the fields migu reads them back as, and the tables a    *)
(* source declares.                                                          *)
(***************************************************************************)
EXTENDS DiffFunction

CONSTANTS
  Camel,       \* stringutil.ToUpperCamelCase on the names of the columns
  Snake,       \* stringutil.ToSnakeCase on the names of the fields
  AsColumn,    \* the index name that is spelled like a column
  PrimaryName, \* the name of the index of a primary key
  NewColumn    \* marks a column without data of an earlier one

\* A struct field that is read begins with an upper-case letter, and snake case has none.
ASSUME CaseAssumption ==
  /\ Camel \in [Columns -> GoNames]
  /\ Snake \in [GoNames -> Columns \ GoNames]
ASSUME IndexNameAssumption ==
  /\ AsColumn \in [Columns -> IndexNames]
  /\ PrimaryName \in IndexNames
ASSUME NewColumnAssumption == NewColumn \notin Columns

\* A table: its columns in their order, each with its definition and the column
\* whose data it holds; the columns of its primary key; its other indexes.
Column == [name : Columns, def : Defs, data : Columns \union {NewColumn}]
TableState == [columns : Seq(Column), pk : SUBSET Columns, indexes : SUBSET Index]

ColumnNames(tbl) == {tbl.columns[n].name : n \in DOMAIN tbl.columns}

\* The key and the indexes of a table are on columns it has.
IsTable(tbl) ==
  /\ tbl \in TableState
  /\ tbl.pk \subseteq ColumnNames(tbl)
  /\ \A x \in tbl.indexes : ToSet(x.columns) \subseteq ColumnNames(tbl)
IsDatabase(d) ==
  /\ DOMAIN d \subseteq Tables
  /\ d \in [DOMAIN d -> TableState]
  /\ \A t \in DOMAIN d : IsTable(d[t])

IndexNamesOf(tbl) == {x.name : x \in tbl.indexes}

\* Two fields of a struct have one column.
Repeated(fields) == ~IsInjective([n \in DOMAIN fields |-> fields[n].column])

\* What a server sees to: no two columns and no two indexes of a table have one name, the
\* name of the key is not one of them, and an index has columns.
DistinctColumns(tbl) == IsInjective([n \in DOMAIN tbl.columns |-> tbl.columns[n].name])
WellFormed(t, tbl) ==
  /\ DistinctColumns(tbl)
  /\ \A x \in tbl.indexes :
       /\ x.table = t /\ x.name # PrimaryName /\ x.columns # <<>>
       /\ \A y \in tbl.indexes : x.name = y.name => x = y

\* The tables and one more.
WithTable(d, t, tbl) == [u \in DOMAIN d \union {t} |-> IF u = t THEN tbl ELSE d[u]]

\* The tables when what was added to them has its data, which is marked as a column's own.
Marked(d) ==
  [t \in DOMAIN d |->
     [d[t] EXCEPT !.columns =
        [n \in DOMAIN @ |-> [name |-> @[n].name, def |-> @[n].def, data |-> @[n].name]]]]

\* The members of a sequence that are kept; the columns, or the names, but one.
Only(seq, kept) ==
  FlattenSeq([n \in DOMAIN seq |-> IF seq[n] \in kept THEN <<seq[n]>> ELSE <<>>])
WithoutColumn(columns, gone) == Only(columns, {col \in ToSet(columns) : col.name # gone})
Without(names, gone) == Only(names, ToSet(names) \ {gone})

\* The outcome of a statement: the new state, or none when it is rejected.
OnlyIf(accepted, result) == IF accepted THEN {result} ELSE {}

-----------------------------------------------------------------------------
(* Introspection.                                                          *)

\* The rows information_schema has for a column, one for each index it is part of,
\* the primary key included.
IndexRows(tbl, c) ==
  {[name |-> x.name, unique |-> x.unique] :
     x \in {y \in tbl.indexes : c \in ToSet(y.columns)}}
  \union {[name |-> PrimaryName, unique |-> TRUE] : k \in tbl.pk \intersect {c}}

\* Mutant: the column of a field without a tag is its Go name.
FieldOfGoName(t, col, isPk, row) ==
  [table |-> t, name |-> Camel[col.name], column |-> Camel[col.name], def |-> col.def,
   pk |-> isPk, rawIndexes |-> <<>>, rawUniques |-> <<>>]

\* Mutant: a unique index is read as a plain one.
FieldOfPlain(t, col, isPk, row) ==
  [table |-> t, name |-> Camel[col.name], column |-> Snake[Camel[col.name]],
   def |-> col.def, pk |-> isPk,
   rawIndexes |-> [n \in 1..Cardinality(row) |-> (CHOOSE r \in row : TRUE).name],
   rawUniques |-> <<>>]

\* A column, with the index row it was read with if any, is turned into the text of a
\* struct field by fieldAST and parsed again by newField.  The field gets the Go
\* name of the column and no column tag; an index spelled like its column gets a
\* tag without a name.
FieldOf(t, col, isPk, row) ==
  LET Tag(r) == IF r.name = AsColumn[col.name] THEN Unnamed ELSE r.name
      Tags(unique) == SetToSeq({Tag(r) : r \in {q \in row : q.unique = unique}})
  IN  [table |-> t, name |-> Camel[col.name], column |-> Snake[Camel[col.name]],
       def |-> col.def, pk |-> isPk,
       rawIndexes |-> IF isPk THEN <<>> ELSE Tags(FALSE),
       rawUniques |-> IF isPk THEN <<>> ELSE Tags(TRUE)]

-----------------------------------------------------------------------------
(* What a source declares.                                                 *)

\* A source: no two fields of a struct have one name a column may be read under.
IsSource(s) ==
  /\ IsSchema(s)
  /\ \A t \in DOMAIN s : \A m, n \in DOMAIN s[t] :
       (s[t][m].name = s[t][n].name /\ s[t][m].name \in Range(Camel)) => m = n

\* The versions a source has one after the other.
IsHistory(h) == h \in Seq(ToSet(h)) /\ h # <<>> /\ \A s \in ToSet(h) : IsSource(s)

\* The columns of the fields that name index x, under one of the two tags, in their order.
Naming(fields, x, unique) ==
  FlattenSeq([n \in DOMAIN fields |->
    IF InStrings(Names(fields[n], unique), x) THEN <<fields[n].column>> ELSE <<>>])

Declared(t, fields) ==
  {x \in {[table |-> t, name |-> y, unique |-> u, columns |-> Naming(fields, y, u)] :
            y \in IndexNames, u \in BOOLEAN} :
     x.columns # <<>>}

\* The table a declaration stands for, each column holding its own data.
Built(t, fields) ==
  [columns |-> [n \in DOMAIN fields |->
                  [name |-> fields[n].column, def |-> fields[n].def,
                   data |-> fields[n].column]],
   pk |-> PkColumns(fields),
   indexes |-> Declared(t, fields)]

\* A database may hold what a source declares.
Holdable(s) == \A t \in DOMAIN s : WellFormed(t, Built(t, s[t]))

\* The tables are what the source declares: its columns, keys and indexes; no
\* table when it declares none.
Matches(tables, s) ==
  /\ \A t \in DOMAIN s :
       /\ t \in DOMAIN tables
       /\ LET tbl   == tables[t]
              built == Built(t, s[t])
          IN  /\ {<<c.name, c.def>> : c \in ToSet(tbl.columns)}
                   = {<<c.name, c.def>> : c \in ToSet(built.columns)}
              /\ tbl.pk = built.pk
              /\ tbl.indexes = built.indexes
  /\ DOMAIN s = {} => DOMAIN tables = {}

-----------------------------------------------------------------------------
(* The declarations Diff does not carry out, or not in one run, on either      *)
(* database.  Each is a limit of the code, described in README.md; the         *)
(* properties of the syncs say what holds outside them.                        *)

\* Two fields have one column, a field names an index twice, or an index is to be plain and
\* unique: makeIndexes gathers by name.
Ambiguous(t, fields) ==
  \/ Repeated(fields)
  \/ \E n \in DOMAIN fields, u \in BOOLEAN : ~IsInjective(Names(fields[n], u))
  \/ \E x, y \in Declared(t, fields) : x.name = y.name /\ x.unique # y.unique

\* An index spelled like a column of it is read back as one with the default name.
ReadAsDefault(t, tbl) ==
  \E x \in tbl.indexes : \E c \in ToSet(x.columns) :
    x.name = AsColumn[c] /\ x.name # DefaultIndex[<<t, c>>]

\* An index is to be spelled like a column of it.  A run that ends half way leaves it beside
\* the index the default name stands for, and the next takes it for that one.
SpelledLikeColumn(s) == \E t \in DOMAIN s : ReadAsDefault(t, Built(t, s[t]))

\* A field is named after the column of another field, which it takes over as soon as
\* that column exists.
Crossed(fields) ==
  \E m, n \in DOMAIN fields :
    /\ fields[n].name = Camel[fields[m].column]
    /\ fields[n].column # fields[m].column

\* A field named after an old column while its own column is another old one, or while
\* another field has that column: the Go name decides wrongly.
Alias(tbl, fields) ==
  \/ Crossed(fields)
  \/ \E c \in ColumnNames(tbl), n \in DOMAIN fields :
       /\ fields[n].name = Camel[c]
       /\ fields[n].column \in ColumnNames(tbl) \ {c}

\* A column, of the table or declared, that is read back under another name.
Respelled(tbl, fields) ==
  \E c \in ColumnNames(tbl) \union ColumnsOf(fields) : Snake[Camel[c]] # c

\* A renamed column is part of an index: the index follows the column, and
\* makeIndexes compares the new column with no index at all.
RenamedIndexed(tbl, fields) ==
  \E c \in ColumnNames(tbl) \ ColumnsOf(fields), n \in DOMAIN fields :
    /\ fields[n].name = Camel[c]
    /\ \E x \in tbl.indexes : c \in ToSet(x.columns)

\* An index keeps its name, its kind and a column, and changes otherwise:
\* makeIndexes only sees the columns that gain or lose it.
Reshaped(t, tbl, fields) ==
  \E x \in tbl.indexes, y \in Declared(t, fields) :
    /\ x.name = y.name
    /\ x.unique = y.unique
    /\ ToSet(x.columns) \intersect ToSet(y.columns) # {}
    /\ Only(x.columns, ColumnsOf(fields)) # y.columns

\* A column of several indexes, the key included, is read with one of them.
Shared(tbl) == \E c \in ColumnNames(tbl) : Cardinality(IndexRows(tbl, c)) > 1

\* An index goes from a column that a table of an earlier name loses.
Leaked(tables, s) ==
  \E t, u \in DOMAIN s \intersect DOMAIN tables :
    /\ Rank[u] < Rank[t]
    /\ \E x \in tables[t].indexes :
         (ToSet(x.columns) \intersect ColumnsOf(s[t]))
           \intersect (ColumnNames(tables[u]) \ ColumnsOf(s[u])) # {}
=============================================================================
