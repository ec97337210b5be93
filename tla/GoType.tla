-------------------------------- MODULE GoType --------------------------------
(***************************************************************************)
(* GoType of the two dialects: the type of the field a column is dumped as,   *)
(* and the type of the old field Diff compares with.  The functions call      *)
(* themselves on a shorter name; one step here is one call.  The module has the *)
(* calls; Dump.tla has the one who calls.                                    *)
(***************************************************************************)
EXTENDS ColumnTypes

VARIABLES
  column,    \* the column, NoColumn between two calls
  typeName,   \* the argument of the call
  mayBeNull,  \* its other argument
  slices,    \* the "[]" put before what the call answers
  answer     \* what GoType returned, NotFound before

callVars == <<column, typeName, mayBeNull, slices, answer>>

Anything == <<"interface{}">>

Integers == { <<"tinyint">>, <<"smallint">>, <<"mediumint">>, <<"int">>, <<"bigint">> }

\* What a field can be: a type of the tables, or a pointer to one.
FieldTypes ==
  LET known == UNION {allGoTypes(c) : c \in ToSet(mysqlColumnTypes \o spannerColumnTypes)}
  IN  known \union {<<"*">> \o t : t \in known} \union {Anything}

\* The answer is a type of the tables, a pointer to one, or a slice of one: whatever Go
\* compiles, and newField reads.
TypeOK ==
  /\ mayBeNull \in BOOLEAN
  /\ slices \in Seq({"[]"})
  /\ typeName \in Seq(STRING)
  /\ \/ answer = NotFound
     \/ answer \in {slices \o t : t \in FieldTypes}

\* The ColumnType of a row: MySQL integers lose their display width, but for tinyint(1).
SchemaColumnType(c) ==
  IF /\ c.dialect = "mysql"
     /\ <<c.type[1]>> \in Integers
     /\ c.type # <<"tinyint", "(", "1", ")">>
    THEN trimParens(c.type) ELSE c.type

NoColumn == [none |-> TRUE]

Idle == column = NoColumn /\ typeName = <<>> /\ mayBeNull = FALSE /\ slices = <<>> /\ answer = NotFound

GoTypeOf(c) ==
  /\ column' = c /\ typeName' = SchemaColumnType(c) /\ mayBeNull' = c.nullable
  /\ slices' = <<>> /\ answer' = NotFound

Answer(type) == answer' = slices \o type /\ UNCHANGED <<column, typeName, mayBeNull, slices>>

\* The name is cut at its first blank.
Word(upper) ==
  IF Position(upper, " ") = 0 THEN upper ELSE SubSeq(upper, 1, Position(upper, " ") - 1)
Unsigned(upper) ==
  /\ Position(upper, " ") # 0
  /\ SubSeq(upper, Position(upper, " ") + 1, Len(upper)) = <<"UNSIGNED">>

MySQLCall ==
  /\ column.dialect = "mysql" /\ answer = NotFound
  /\ LET upper == ToUpper(typeName)
         word  == Word(upper)
         found == Lookup(mysqlColumnTypes, word, mayBeNull, Unsigned(upper))
     IN  \/ found # NotFound /\ Answer(found)
         \/ /\ found = NotFound /\ "(" \in ToSet(word)
            /\ typeName' = trimParens(word)
            /\ UNCHANGED <<column, mayBeNull, slices, answer>>
         \/ found = NotFound /\ "(" \notin ToSet(word) /\ Answer(Anything)

\* The elements of an array are asked for as if they could not be NULL.
SpannerCall ==
  /\ column.dialect = "spanner" /\ answer = NotFound
  /\ LET upper == ToUpper(typeName)
         array == upper[1] = "ARRAY<"
         found == IF array THEN NotFound ELSE Lookup(spannerColumnTypes, upper, mayBeNull, FALSE)
     IN  \/ /\ array
            /\ typeName' = SubSeq(upper, 2, SelectLastInSeq(upper, LAMBDA p : p = ">") - 1)
            /\ mayBeNull' = FALSE
            /\ slices' = Append(slices, "[]")
            /\ UNCHANGED <<column, answer>>
         \/ found # NotFound /\ Answer(found)
         \/ /\ ~array /\ found = NotFound /\ "(" \in ToSet(upper)
            /\ typeName' = SubSeq(upper, 1, Position(upper, "(") - 1) \o <<"(", "MAX", ")">>
            /\ UNCHANGED <<column, mayBeNull, slices, answer>>
         \/ ~array /\ found = NotFound /\ "(" \notin ToSet(upper) /\ Answer(Anything)

Call == column # NoColumn /\ (MySQLCall \/ SpannerCall)

Return ==
  /\ column' = NoColumn /\ typeName' = <<>> /\ mayBeNull' = FALSE /\ slices' = <<>> /\ answer' = NotFound

-----------------------------------------------------------------------------
(* Properties.                                                             *)

\* GoType returns: for every column of the database, the recursion of
\* mysql.go:204 and spanner.go:203 ends.
Answers == column # NoColumn ~> answer # NotFound

\* Mutant: an array imports nothing for its elements.
ImportPackageOfFirst(c) ==
  CASE c.type[1] \in {"datetime", "TIMESTAMP"} -> "time"
    [] c.type[1] = "DATE" -> "cloud.google.com/go/civil"
    [] c.type[1] = "NUMERIC" -> "math/big"
    [] OTHER -> "none"

\* The package a dump imports for a column.
ImportPackage(c) ==
  LET Has(word) == word \in ToSet(c.type)
  IN CASE c.dialect = "mysql" -> IF c.type[1] = "datetime" THEN "time" ELSE "none"
       [] c.dialect = "spanner" /\ Has("TIMESTAMP") -> "time"
       [] c.dialect = "spanner" /\ Has("DATE") -> "cloud.google.com/go/civil"
       [] c.dialect = "spanner" /\ Has("NUMERIC") -> "math/big"
       [] OTHER -> "none"

PackageOf(word) ==
  CASE word = "time.Time" -> "time" [] word = "civil.Date" -> "cloud.google.com/go/civil"
    [] word = "big.Rat" -> "math/big" [] OTHER -> "none"

\* A dump imports the package of the type it gives a column, and no other: Go refuses an
\* import that is missing, and one that is not used.
DumpedTypeIsImported ==
  answer # NotFound => PackageOf(Last(answer)) = ImportPackage(column)

\* The limit: an unsigned column has the same type with NULL and without.
UnsignedNull(c) == c.nullable /\ "unsigned" \in ToSet(c.type)

\* The field of a column that may be NULL can hold one: it is a pointer, a slice, a
\* type that holds NULL, or an interface.
HoldsNull ==
  answer # NotFound /\ column.nullable /\ ~UnsignedNull(column) =>
    \/ answer = Anything
    \/ answer[1] \in {"*", "[]"}
    \/ \E table \in {mysqlColumnTypes, spannerColumnTypes} : IsNullable(table, <<>>, answer)

\* The bits of the integer types; int and uint have 32 at least.
Bits(word) ==
  CASE word \in {"tinyint", "int8", "uint8"} -> 8
    [] word \in {"smallint", "int16", "uint16"} -> 16
    [] word = "mediumint" -> 24
    [] word \in {"int", "uint", "int32", "uint32"} -> 32
    [] word \in {"bigint", "int64", "uint64", "sql.NullInt64"} -> 64

\* The limit: zerofill makes a column unsigned, and hides that from GoType.
Zerofill(c) == "zerofill" \in ToSet(c.type)

\* The field of an integer column holds every value of it: it has the bits, and the sign.
HoldsIntegers ==
  answer # NotFound /\ column.dialect = "mysql" /\ <<column.type[1]>> \in Integers
    /\ column.type # <<"tinyint", "(", "1", ")">> /\ ~Zerofill(column) =>
    /\ Bits(Last(answer)) >= Bits(column.type[1])
    /\ "unsigned" \in ToSet(column.type) <=> Last(answer) \in {"uint", "uint8", "uint16", "uint32", "uint64"}

\* A field declared with the type a column is dumped as, and no `type` tag, stands for a
\* column that is dumped as the same type.
DumpedTypeIsStable ==
  answer \notin {NotFound, Anything} /\ slices = <<>> =>
    LET bare  == IF answer[1] = "*" THEN Tail(answer) ELSE answer
        again == IF column.dialect = "mysql" THEN ToUpper(MySQLColumnType(<<>>, bare))
                 ELSE SpannerColumnType(<<>>, bare)
        table == IF column.dialect = "mysql" THEN mysqlColumnTypes ELSE spannerColumnTypes
        Of(t) == Lookup(table, Word(t), column.nullable, Unsigned(t))
    IN  answer \in {Of(again), Of(trimParens(again))}
=============================================================================
