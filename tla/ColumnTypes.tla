----------------------------- MODULE ColumnTypes ------------------------------
(***************************************************************************)
(* Types of columns and types of fields (src/dialect): the tables that relate *)
(* them, and the conversions from one to the other.                          *)
(*                                                                          *)
(* The text of a type is the sequence of its parts: the words, and the marks   *)
(* the code looks for: <<"varchar", "(", "36", ")">>, <<"int", " ",           *)
(* "unsigned">>, <<"*", "string">>, <<"[]", "byte">>.                         *)
(***************************************************************************)
EXTENDS Naturals, SequencesExt

\* strings.ToUpper on the words that occur in types; every other part is left as it is.
UpperPairs ==
  { <<"varchar", "VARCHAR">>, <<"text", "TEXT">>, <<"mediumtext", "MEDIUMTEXT">>,
    <<"longtext", "LONGTEXT">>, <<"tinytext", "TINYTEXT">>, <<"char", "CHAR">>,
    <<"varbinary", "VARBINARY">>, <<"binary", "BINARY">>, <<"blob", "BLOB">>, <<"int", "INT">>,
    <<"mediumint", "MEDIUMINT">>, <<"tinyint", "TINYINT">>, <<"smallint", "SMALLINT">>,
    <<"bigint", "BIGINT">>, <<"unsigned", "UNSIGNED">>, <<"zerofill", "ZEROFILL">>,
    <<"double", "DOUBLE">>, <<"float", "FLOAT">>, <<"decimal", "DECIMAL">>, <<"json", "JSON">>,
    <<"datetime", "DATETIME">>, <<"timestamp", "TIMESTAMP">>, <<"date", "DATE">>,
    <<"year", "YEAR">>, <<"bit", "BIT">>, <<"enum", "ENUM">>, <<"set", "SET">>,
    <<"integer", "INTEGER">>, <<"a", "A">>, <<"b", "B">>, <<"uuid", "UUID">> }
Upper == [w \in {p[1] : p \in UpperPairs} |-> (CHOOSE p \in UpperPairs : p[1] = w)[2]]

ToUpper(s) == [n \in DOMAIN s |-> IF s[n] \in DOMAIN Upper THEN Upper[s[n]] ELSE s[n]]

Position(s, part) == SelectInSeq(s, LAMBDA p : p = part)

\* An entry of a type table.
ColumnType(types, goTypes, nullable, unsigned) ==
  [types |-> types, goTypes |-> goTypes, nullable |-> nullable, unsigned |-> unsigned]

mysqlColumnTypes ==
  << ColumnType(<< <<"VARCHAR">>, <<"TEXT">>, <<"MEDIUMTEXT">>, <<"LONGTEXT">>, <<"CHAR">> >>,
                << <<"string">> >>, << <<"*", "string">>, <<"sql.NullString">> >>, <<>>),
     ColumnType(<< <<"VARBINARY">>, <<"BINARY">> >>,
                << <<"[]", "byte">> >>, << <<"[]", "byte">> >>, <<>>),
     ColumnType(<< <<"INT">>, <<"MEDIUMINT">> >>,
                << <<"int">>, <<"int32">> >>, <<>>, << <<"uint">>, <<"uint32">> >>),
     ColumnType(<< <<"TINYINT">> >>, << <<"int8">> >>, <<>>, << <<"uint8">> >>),
     ColumnType(<< <<"TINYINT", "(", "1", ")">> >>,
                << <<"bool">> >>, << <<"*", "bool">>, <<"sql.NullBool">> >>, <<>>),
     ColumnType(<< <<"SMALLINT">> >>, << <<"int16">> >>, <<>>, << <<"uint16">> >>),
     ColumnType(<< <<"BIGINT">> >>, << <<"int64">> >>,
                << <<"*", "int64">>, <<"sql.NullInt64">> >>, << <<"uint64">> >>),
     ColumnType(<< <<"DOUBLE">>, <<"FLOAT">>, <<"DECIMAL">> >>, << <<"float64">>, <<"float32">> >>,
                << <<"*", "float64">>, <<"sql.NullFloat64">> >>, <<>>),
     ColumnType(<< <<"DATETIME">> >>, << <<"time.Time">> >>,
                << <<"*", "time.Time">>, <<"mysql.NullTime">>, <<"gorp.NullTime">> >>, <<>>) >>

spannerColumnTypes ==
  << ColumnType(<< <<"STRING", "(", "MAX", ")">> >>,
                << <<"string">> >>, << <<"*", "string">>, <<"spanner.NullString">> >>, <<>>),
     ColumnType(<< <<"BYTES", "(", "MAX", ")">> >>,
                << <<"[]", "byte">> >>, << <<"[]", "byte">> >>, <<>>),
     ColumnType(<< <<"BOOL">> >>,
                << <<"bool">> >>, << <<"*", "bool">>, <<"spanner.NullBool">> >>, <<>>),
     ColumnType(<< <<"INT64">> >>,
                << <<"int64">>, <<"int">>, <<"int8">>, <<"int16">>, <<"int32">>, <<"uint8">>,
                   <<"uint16">>, <<"uint32">>, <<"uint64">> >>,
                << <<"*", "int64">>, <<"spanner.NullInt64">> >>, <<>>),
     ColumnType(<< <<"FLOAT64">> >>, << <<"float64">>, <<"float32">> >>,
                << <<"*", "float64">>, <<"spanner.NullFloat64">> >>, <<>>),
     ColumnType(<< <<"TIMESTAMP">> >>, << <<"time.Time">> >>,
                << <<"*", "time.Time">>, <<"spanner.NullTime">> >>, <<>>),
     ColumnType(<< <<"DATE">> >>, << <<"civil.Date">> >>,
                << <<"*", "civil.Date">>, <<"spanner.NullDate">> >>, <<>>),
     ColumnType(<< <<"NUMERIC">> >>, << <<"big.Rat">> >>,
                << <<"*", "big.Rat">>, <<"spanner.NullNumeric">> >>, <<>>) >>

-----------------------------------------------------------------------------
(* From the type of a column to the type of a field.                        *)

NotFound == <<>>

\* Mutant: an unsigned column gets the signed type.
findGoTypeSigned(c, name, nullable, unsigned) ==
  IF name \notin ToSet(c.types) THEN NotFound
  ELSE IF nullable /\ c.nullable # <<>> THEN c.nullable[1]
  ELSE IF nullable THEN <<"*">> \o c.goTypes[1]
  ELSE c.goTypes[1]

\* Mutant: an entry without types for NULL gives its plain type.
findGoTypePlain(c, name, nullable, unsigned) ==
  IF name \notin ToSet(c.types) \/ (unsigned /\ c.unsigned = <<>>) THEN NotFound
  ELSE IF unsigned THEN c.unsigned[1]
  ELSE IF nullable /\ c.nullable # <<>> THEN c.nullable[1]
  ELSE c.goTypes[1]

\* Mutant: a name of another entry is not told from one of this one.
findGoTypeNoCandidate(c, name, nullable, unsigned) ==
  IF name \notin ToSet(c.types) THEN IF nullable THEN <<"*">> ELSE NotFound
  ELSE IF unsigned /\ c.unsigned # <<>> THEN c.unsigned[1]
  ELSE IF nullable /\ c.nullable # <<>> THEN c.nullable[1]
  ELSE IF nullable THEN <<"*">> \o c.goTypes[1]
  ELSE c.goTypes[1]

\* An unsigned column has the same type whether it may be NULL or not.
findGoType(c, name, nullable, unsigned) ==
  IF name \notin ToSet(c.types) \/ (unsigned /\ c.unsigned = <<>>) THEN NotFound
  ELSE IF unsigned THEN c.unsigned[1]
  ELSE IF nullable /\ c.nullable # <<>> THEN c.nullable[1]
  ELSE IF nullable THEN <<"*">> \o c.goTypes[1]
  ELSE c.goTypes[1]

\* The type of the first entry of a table that knows the name.
Lookup(table, name, nullable, unsigned) ==
  LET found == SelectSeq([n \in DOMAIN table |-> findGoType(table[n], name, nullable, unsigned)],
                         LAMBDA t : t # NotFound)
  IN  IF found = <<>> THEN NotFound ELSE found[1]

\* Mutant: the parentheses stay.
trimParensInside(s) ==
  LET end   == Position(s, ")")
      start == IF end = 0 THEN 0 ELSE SelectLastInSubSeq(s, 1, end, LAMBDA p : p = "(")
  IN  IF start = 0 THEN s ELSE SubSeq(s, 1, start) \o SubSeq(s, end, Len(s))

\* What stands between the first ")" and the last "(" before it goes.
trimParens(s) ==
  LET end   == Position(s, ")")
      start == IF end = 0 THEN 0 ELSE SelectLastInSubSeq(s, 1, end, LAMBDA p : p = "(")
  IN  IF start = 0 THEN s ELSE SubSeq(s, 1, start - 1) \o SubSeq(s, end + 1, Len(s))

-----------------------------------------------------------------------------
(* From the type of a field, or the text of a `type` tag, to the type of a    *)
(* column.                                                                  *)

allGoTypes(c) == ToSet(c.goTypes \o c.nullable \o c.unsigned)

\* columnTypeMap: the last entry that names the type, the custom ones being last.
EntriesOf(table, custom, name) == SelectSeq(table \o custom, LAMBDA c : name \in allGoTypes(c))

\* nullableTypeMap: the types that hold a NULL without being a pointer or a slice.
IsNullable(table, custom, name) ==
  \E c \in ToSet(table \o custom) : name \in ToSet(c.nullable) /\ name[1] \notin {"*", "[]"}

DefaultSizes ==
  <<"BIT">> :> <<"1">> @@ <<"DECIMAL">> :> <<"10", ",", "0">> @@ <<"VARCHAR">> :> <<"255">>
    @@ <<"VARBINARY">> :> <<"255">> @@ <<"CHAR">> :> <<"1">> @@ <<"BINARY">> :> <<"1">>
    @@ <<"YEAR">> :> <<"4">>

defaultColumnType(name) ==
  LET upper == ToUpper(name)
  IN  IF upper \in DOMAIN DefaultSizes THEN upper \o <<"(">> \o DefaultSizes[upper] \o <<")">>
      ELSE upper

\* Mutant: the type of an unsigned field is not looked up.
MySQLColumnTypeByName(custom, name) ==
  LET entries == EntriesOf(mysqlColumnTypes, custom, name)
  IN  ToUpper(defaultColumnType(
        IF entries = <<>> \/ name \in ToSet(Last(entries).unsigned) THEN name
        ELSE Last(entries).types[1]))

MySQLColumnType(custom, name) ==
  LET entries  == EntriesOf(mysqlColumnTypes, custom, name)
      unsigned == entries # <<>> /\ name \in ToSet(Last(entries).unsigned)
      type     == IF entries = <<>> THEN name ELSE Last(entries).types[1]
  IN  ToUpper(defaultColumnType(type)) \o IF unsigned THEN <<" ", "UNSIGNED">> ELSE <<>>

RECURSIVE SpannerColumnType(_, _)
SpannerColumnType(custom, name) ==
  LET entries == EntriesOf(spannerColumnTypes, custom, name)
  IN  IF name[1] = "*" THEN SpannerColumnType(custom, Tail(name))
      ELSE IF entries # <<>> THEN Last(entries).types[1]
      ELSE IF name[1] = "[]" THEN <<"ARRAY<">> \o SpannerColumnType(custom, Tail(name)) \o <<">">>
      ELSE ToUpper(name)
=============================================================================
