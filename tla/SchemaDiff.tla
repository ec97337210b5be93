----------------------------- MODULE SchemaDiff -----------------------------
(***************************************************************************)
(* The data of migu.Diff (src/migu.go): fields of a Go struct and fields    *)
(* read back from the database, the rules that match the two, and the       *)
(* changes Diff emits.  Everything here is a constant-level operator; the   *)
(* loop that applies them is DiffLoop, the whole function is DiffFunction.  *)
(*                                                                          *)
(* Data is abstracted to what the comparison tells apart.  A column         *)
(* definition (type, NULL, DEFAULT, AUTO_INCREMENT, EXTRA, COMMENT) is one  *)
(* opaque value: IsDifferent compares it attribute by attribute, and any    *)
(* difference has the same effect.                                          *)
(***************************************************************************)
EXTENDS Naturals, Sequences, FiniteSets

CONSTANTS
  Tables,        \* names of tables
  Columns,       \* names of columns
  GoNames,       \* names of struct fields
  Defs,          \* column definitions: everything IsDifferent compares but the name
  IndexNames,    \* names of indexes
  Unnamed,       \* the tag `index` or `unique` without a name (RawIndexes holds "")
  DefaultIndex,  \* the name such a tag stands for: <table>_<column>
  Rank           \* position of a table in sort.Strings(names)

\* Identifiers of a database have a greatest length.
ASSUME TablesAssumption == Tables # {} /\ IsFiniteSet(Tables)
ASSUME IndexNamesAssumption == IsFiniteSet(IndexNames)
ASSUME DefaultIndexAssumption ==
  DefaultIndex \in [Tables \X Columns -> IndexNames]
ASSUME UnnamedAssumption == Unnamed \notin IndexNames
ASSUME RankAssumption ==
  /\ Rank \in [Tables -> Nat]
  /\ \A t, u \in Tables : Rank[t] = Rank[u] => t = u

RawIndexNames == IndexNames \union {Unnamed}

\* A field: of a struct (newField on a parsed source) or of a table of the
\* database (newField on what fieldAST made of a column).
Field == [table : Tables, name : GoNames, column : Columns, def : Defs,
          pk : BOOLEAN, rawIndexes : Seq(RawIndexNames),
          rawUniques : Seq(RawIndexNames)]

Index == [table : Tables, name : IndexNames, unique : BOOLEAN,
          columns : Seq(Columns)]

\* A source declares, or a database holds, some of the tables; each is the
\* list of its fields.
IsSchema(s) ==
  /\ DOMAIN s \subseteq Tables
  /\ s \in [DOMAIN s -> Seq(Field)]
  /\ \A t \in DOMAIN s : \A n \in DOMAIN s[t] : s[t][n].table = t

-----------------------------------------------------------------------------
(* Matching the fields of a struct with the columns of a table.            *)

\* The positions that wrote key k into the map: each field is stored under
\* its column name and under its Go name.
Keyed(fields, k) ==
  {n \in DOMAIN fields : fields[n].column = k \/ fields[n].name = k}

ByColumn(fields, c) == {n \in DOMAIN fields : fields[n].column = c}

\* A later field overwrites an earlier one in a Go map.
LastOf(S) == CHOOSE n \in S : \A m \in S : m <= n

\* Mutant: the Go name decides before the column name.
OldFieldByNameFirst(old, f) ==
  LET byColumn == Keyed(old, f.column)
      byName   == Keyed(old, f.name)
  IN  IF byName # {} THEN {old[LastOf(byName)]}
      ELSE IF byColumn # {} THEN {old[LastOf(byColumn)]}
      ELSE {}

\* The old field a new one is compared with: the one under its column name,
\* else the one under its Go name; at most one.
OldField(old, f) ==
  LET byColumn == Keyed(old, f.column)
      byName   == Keyed(old, f.name)
  IN  IF byColumn # {} THEN {old[LastOf(byColumn)]}
      ELSE IF byName # {} THEN {old[LastOf(byName)]}
      ELSE {}

IsDifferent(o, f) == o.column # f.column \/ o.def # f.def

\* No column of the database is what the field declares.
Unmatched(old, f) ==
  \A m \in DOMAIN old : old[m].column = f.column => IsDifferent(old[m], f)

\* Mutant: only the Go name keeps an old column.
IsDroppedByName(new, o) == Keyed(new, o.name) = {}

\* An old column goes when neither its name nor its Go name is a key of the
\* new table.
IsDropped(new, o) == Keyed(new, o.column) = {} /\ Keyed(new, o.name) = {}

ColumnsOf(fields) == {fields[n].column : n \in DOMAIN fields}

KeyFields(fields) == {n \in DOMAIN fields : fields[n].pk}
PkColumns(fields) == {fields[n].column : n \in KeyFields(fields)}

\* The key names a column twice.
RepeatsKey(fields) ==
  \E m, n \in KeyFields(fields) : m # n /\ fields[m].column = fields[n].column

\* Mutant: a key of as many columns is the same key.
PkCountChanged(old, new) == Cardinality(KeyFields(old)) # Cardinality(KeyFields(new))

\* The key fields differ in number, or one of the new is of no old key column.
\* Their order does not count, nor how often a column is named.
PkChanged(old, new) ==
  \/ Cardinality(KeyFields(old)) # Cardinality(KeyFields(new))
  \/ \E n \in KeyFields(new) : new[n].column \notin PkColumns(old)

-----------------------------------------------------------------------------
(* Indexes.                                                                *)

Named(f, raw) ==
  [n \in DOMAIN raw |->
     IF raw[n] = Unnamed THEN DefaultIndex[<<f.table, f.column>>] ELSE raw[n]]

Indexes(f) == Named(f, f.rawIndexes)
UniqueIndexes(f) == Named(f, f.rawUniques)

InStrings(names, x) == \E n \in DOMAIN names : names[n] = x

Names(f, unique) == IF unique THEN UniqueIndexes(f) ELSE Indexes(f)

\* Some field of the list has the column and, with the given kind, the index.
HasIndex(fields, c, x, unique) ==
  \E n \in DOMAIN fields : fields[n].column = c /\ InStrings(Names(fields[n], unique), x)

\* No field of the list has the column, or one that has it lacks the index.
LacksIndex(fields, c, x, unique) ==
  \/ c \notin ColumnsOf(fields)
  \/ \E n \in DOMAIN fields : fields[n].column = c /\ ~InStrings(Names(fields[n], unique), x)

\* A visit of makeIndexes: one name of one field, and the list of the other
\* side in which it is looked up.
Visits(names, others, add, unique, column) ==
  [n \in DOMAIN names |->
     [add |-> add, unique |-> unique, name |-> names[n], column |-> column,
      kept |-> InStrings(others, names[n])]]

\* Mutant: a column that exists gets no new index.
IndexVisitsOfNewOnly(old, f) ==
  LET fresh == ByColumn(old, f.column) = {}
  IN  IF fresh THEN Visits(Indexes(f), <<>>, TRUE, FALSE, f.column)
                      \o Visits(UniqueIndexes(f), <<>>, TRUE, TRUE, f.column)
      ELSE <<>>

\* The four loops over one new field, in the order of the code.  A field
\* whose column is new is compared with an empty field, which has no index.
IndexVisits(old, f) ==
  LET byColumn == ByColumn(old, f.column)
      o        == old[LastOf(byColumn)]
      oldIdx   == IF byColumn = {} THEN <<>> ELSE Indexes(o)
      oldUniq  == IF byColumn = {} THEN <<>> ELSE UniqueIndexes(o)
  IN  Visits(oldIdx, Indexes(f), FALSE, FALSE, f.column)
        \o Visits(oldUniq, UniqueIndexes(f), FALSE, TRUE, f.column)
        \o Visits(Indexes(f), oldIdx, TRUE, FALSE, f.column)
        \o Visits(UniqueIndexes(f), oldUniq, TRUE, TRUE, f.column)

\* Mutant: every field has an index of its own.
AddToIndexesApart(indexes, t, v) ==
  Append(indexes, [table |-> t, name |-> v.name, unique |-> v.unique,
                   columns |-> <<v.column>>])

\* dropIndexMap and dropIndexNames (addIndexMap and addIndexNames) as one list
\* in the order of first appearance: the first visit of a name fixes its
\* kind, a later one appends its column.
AddToIndexes(indexes, t, v) ==
  IF \E n \in DOMAIN indexes : indexes[n].name = v.name
    THEN [n \in DOMAIN indexes |->
            IF indexes[n].name = v.name
              THEN [indexes[n] EXCEPT !.columns = Append(@, v.column)]
              ELSE indexes[n]]
    ELSE Append(indexes, [table |-> t, name |-> v.name, unique |-> v.unique,
                          columns |-> <<v.column>>])

-----------------------------------------------------------------------------
(* The changes Diff emits; a dialect turns each into its SQL.              *)

CreateTable(t, fields) ==
  [op |-> "createTable", table |-> t, fields |-> fields, pk |-> PkColumns(fields)]
AddColumn(f)          == [op |-> "addColumn", table |-> f.table, new |-> f]
DropColumn(o)         == [op |-> "dropColumn", table |-> o.table, old |-> o]
ModifyColumn(o, f)    == [op |-> "modifyColumn", table |-> f.table, old |-> o, new |-> f]
ModifyPrimaryKey(t, old, new) ==
  [op |-> "modifyPrimaryKey", table |-> t, oldPk |-> PkColumns(old), newPk |-> PkColumns(new),
   repeated |-> RepeatsKey(new)]
DropIndex(x)          == [op |-> "dropIndex", table |-> x.table, index |-> x]
CreateIndex(x)        == [op |-> "createIndex", table |-> x.table, index |-> x]
DropTable(t)          == [op |-> "dropTable", table |-> t]

Change ==
  [op : {"createTable"}, table : Tables, fields : Seq(Field), pk : SUBSET Columns]
    \union [op : {"addColumn"}, table : Tables, new : Field]
    \union [op : {"dropColumn"}, table : Tables, old : Field]
    \union [op : {"modifyColumn"}, table : Tables, old : Field, new : Field]
    \union [op : {"modifyPrimaryKey"}, table : Tables,
            oldPk : SUBSET Columns, newPk : SUBSET Columns, repeated : BOOLEAN]
    \union [op : {"dropIndex", "createIndex"}, table : Tables, index : Index]
    \union [op : {"dropTable"}, table : Tables]

\* Mutant: a column that differs is dropped and added anew.
AlterNewReplaces(old, f) ==
  LET match == OldField(old, f)
  IN  IF match = {} THEN <<AddColumn(f)>>
      ELSE LET o == CHOOSE o \in match : TRUE
           IN  IF IsDifferent(o, f) THEN <<DropColumn(o), AddColumn(f)>> ELSE <<>>

\* What one new field adds to the list of changes: nothing, ADD or CHANGE.
AlterNew(old, f) ==
  LET match == OldField(old, f)
  IN  IF match = {} THEN <<AddColumn(f)>>
      ELSE LET o == CHOOSE o \in match : TRUE
           IN  IF IsDifferent(o, f) THEN <<ModifyColumn(o, f)>> ELSE <<>>

\* What one old field adds: nothing or DROP.
AlterOld(new, o) == IF IsDropped(new, o) THEN <<DropColumn(o)>> ELSE <<>>
=============================================================================
