-------------------------------- MODULE Column --------------------------------
(***************************************************************************)
(* The life of one column of a MySQL or MariaDB table: the declaration is      *)
(* edited, sync reads the column back, compares, and writes it again where it  *)
(* differs.  What SchemaDiff holds as one opaque definition is spelled out:    *)
(* the type, NULL, DEFAULT, AUTO_INCREMENT, the extra clause and the comment,  *)
(* through columnSQL, the server, the methods of mysqlColumnSchema and the     *)
(* tag of the old field.  The server is modelled from the SQL the dialect      *)
(* sends and the answers its methods are written for.                          *)
(***************************************************************************)
EXTENDS ColumnTypes, StructTag

CONSTANTS
  Versions,      \* of the server: [name, number]
  Declarations,  \* of the field: [goType, tag, comment]
  CustomTypes,   \* the entries of --column-type-file
  Found,         \* columns the first sync may find, beside none
  Number         \* what the size in the parentheses of a type says, in parts of a text

VARIABLES
  version,   \* the server's
  declared,  \* the declaration of the field
  column,    \* the column: {} or {one}
  last       \* what was done last

vars == <<version, declared, column, last>>

\* A column: its type and default as the server keeps them.
Literal(text) == [kind |-> "literal", text |-> text]
Now == [kind |-> "now", text |-> <<>>]
NoDefault == [kind |-> "none", text |-> <<>>]

-----------------------------------------------------------------------------
(* A field as IsDifferent compares it.                                      *)

NewField(goType, tag, comment) ==
  LET options == Parse(tag)
      bare    == IF goType[1] = "*" THEN Tail(goType) ELSE goType
  IN  IF options = Failed THEN Failed
      ELSE [type |-> MySQLColumnType(CustomTypes, IF options.type = <<>> THEN bare ELSE options.type),
            nullable |-> \/ options.nullable
                         \/ goType[1] = "*"
                         \/ IsNullable(mysqlColumnTypes, CustomTypes, bare),
            default |-> options.default, auto |-> options.auto, extra |-> options.extra,
            comment |-> comment]

New == NewField(declared.goType, declared.tag, declared.comment)

-----------------------------------------------------------------------------
(* Writing: columnSQL.                                                      *)

TextTypes == {"VARCHAR", "CHAR", "TEXT", "MIDIUMTEXT", "LONGTEXT"}
isTextType(type) == type[1] \in TextTypes

Doubled(text) == FlattenSeq([n \in DOMAIN text |-> IF text[n] = "'" THEN <<"'", "'">> ELSE <<text[n]>>])
QuoteString(text) == <<"'">> \o Doubled(text) \o <<"'">>

\* Mutant: a default of a text type is written without quotes.
columnSQLBare(f) == f

\* The definition; an empty default is none.
columnSQL(f) ==
  [f EXCEPT !.default = IF @ # <<>> /\ isTextType(f.type) THEN QuoteString(@) ELSE @]

-----------------------------------------------------------------------------
(* The server.                                                             *)

AtLeast(v, major, minor, patch) ==
  LET n == v.number
  IN  \/ n[1] > major
      \/ n[1] = major /\ n[2] > minor
      \/ n[1] = major /\ n[2] = minor /\ n[3] >= patch

MariaDB(v) == v.name = "MariaDB"
ShowsWidths(v) == MariaDB(v) \/ ~AtLeast(v, 8, 0, 19)
QuotesDefaults(v) == MariaDB(v) /\ AtLeast(v, 10, 2, 7)
SpellsCalls(v) == MariaDB(v) /\ AtLeast(v, 10, 2, 3)
MarksGenerated(v) == v.name = "MySQL" /\ AtLeast(v, 8, 0, 0)
TextDefaults(v) == MariaDB(v) /\ AtLeast(v, 10, 2, 1)

Lower(w) == IF \E p \in UpperPairs : p[2] = w THEN (CHOOSE p \in UpperPairs : p[2] = w)[1] ELSE w

\* The type of a column, as information_schema spells it.  The values of an enum are kept
\* as they were written.
StoredType(v, type) ==
  LET word  == IF type[1] = "INTEGER" THEN "int" ELSE Lower(type[1])
      whole == word \in {"tinyint", "smallint", "mediumint", "int", "bigint"}
      plain == IF whole THEN trimParens(Tail(type)) ELSE Tail(type)
      width == IF type = <<"TINYINT", "(", "1", ")">> THEN <<"(", "1", ")">>
               ELSE IF ~whole \/ ~ShowsWidths(v) THEN <<>>
               ELSE IF "(" \in ToSet(type) THEN SubSeq(type, 2, Position(type, ")"))
               ELSE <<"(", "10", ")">>
  IN  <<word>> \o width \o [n \in DOMAIN plain |-> IF plain[n] = "UNSIGNED" THEN "unsigned" ELSE plain[n]]

Numeric(type) ==
  type[1] \in {"TINYINT", "SMALLINT", "INT", "INTEGER", "BIGINT", "DOUBLE", "FLOAT", "DECIMAL"}
LongText(type) == type[1] \in {"TEXT", "MEDIUMTEXT", "LONGTEXT"}

\* Two quotes stand for one, from the left (strings.Replace).
RECURSIVE Unescaped(_)
Unescaped(text) ==
  IF text = <<>> THEN <<>>
  ELSE <<text[1]>> \o Unescaped(SubSeq(text, IF IsPrefix(<<"'", "'">>, text) THEN 3 ELSE 2, Len(text)))

\* The text of a string literal from behind its opening quote: none when it does not end
\* where the clause ends.  A backslash makes a character of the next part, a quote too; no
\* part begins with a letter that would mean a control character then.
RECURSIVE Literals(_)
Literals(text) ==
  CASE text = <<>> -> {}
    [] text = <<"'">> -> {<<>>}
    [] IsPrefix(<<"'", "'">>, text) -> {<<"'">> \o rest : rest \in Literals(SubSeq(text, 3, Len(text)))}
    [] text[1] = "backslash" /\ Len(text) > 1 ->
         {<<text[2]>> \o rest : rest \in Literals(SubSeq(text, 3, Len(text)))}
    [] text[1] \notin {"'", "backslash"} -> {<<text[1]>> \o rest : rest \in Literals(Tail(text))}
    [] OTHER -> {}

\* A text that a CHAR(n) or VARCHAR(n) has no room for.
TooLong(type, text) ==
  type[1] \in {"CHAR", "VARCHAR"} /\ Len(text) > Number[type[3]]

\* The default a DEFAULT clause sets, if the server takes it for a column of that type.
Defaults(v, sql) ==
  LET d == sql.default
  IN CASE d = <<>> -> {NoDefault}
       [] d = <<"NULL">> -> IF sql.nullable THEN {NoDefault} ELSE {}
       [] d \in {<<"current_timestamp">>, <<"CURRENT_TIMESTAMP">>} ->
            IF sql.type = <<"DATETIME">> THEN {Now} ELSE {}
       [] d \in {<<"true">>, <<"1">>} ->
            IF Numeric(sql.type) THEN {Literal(<<"1">>)} ELSE {}
       [] d[1] = "'" ->
            IF Numeric(sql.type) \/ (LongText(sql.type) /\ ~TextDefaults(v)) THEN {}
            ELSE {Literal(text) : text \in {t \in Literals(Tail(d)) : ~TooLong(sql.type, t)}}
       [] OTHER -> {}

\* The clause that updates a datetime; another the server accepts and shows nowhere.
OnUpdate == <<"on update", "current_timestamp">>
Hidden == <<"collate">>
Extras(sql) ==
  IF sql.extra \in {<<>>, Hidden} THEN {FALSE}
  ELSE IF sql.extra \in {OnUpdate, <<"ON UPDATE", "CURRENT_TIMESTAMP">>}
            /\ sql.type = <<"DATETIME">> THEN {TRUE}
  ELSE {}

\* The column a definition makes, or none when the server refuses it.
Stored(v, sql) ==
  {[type |-> StoredType(v, sql.type), nullable |-> sql.nullable, default |-> d,
    auto |-> sql.auto, onUpdate |-> u, comment |-> sql.comment] :
     d \in Defaults(v, sql), u \in Extras(sql)}

-----------------------------------------------------------------------------
(* Reading back: the row of information_schema, and the methods on it.          *)

\* COLUMN_DEFAULT; NULL is no text.
ColumnDefault(v, c) ==
  CASE c.default.kind = "none" -> IF QuotesDefaults(v) /\ c.nullable THEN <<"NULL">> ELSE NoText
    [] c.default.kind = "now" -> IF SpellsCalls(v) THEN <<"current_timestamp", "()">>
                                 ELSE <<"CURRENT_TIMESTAMP">>
    [] OTHER -> IF QuotesDefaults(v) /\ c.default.text # <<"1">> THEN QuoteString(c.default.text)
                ELSE c.default.text

\* The version the code takes for one that quotes: the numbers are compared one by one.
Unquotes(v) ==
  MariaDB(v) /\ v.number[1] >= 10 /\ v.number[2] >= 2 /\ v.number[3] >= 7

\* Mutant: a doubled quote stays doubled.
UnquoteOnly(text) ==
  LET head == IF text # <<>> /\ text[1] = "'" THEN Tail(text) ELSE text
  IN  IF head # <<>> /\ Last(head) = "'" THEN Front(head) ELSE head

Unquote(text) ==
  LET head == IF text # <<>> /\ text[1] = "'" THEN Tail(text) ELSE text
      both == IF head # <<>> /\ Last(head) = "'" THEN Front(head) ELSE head
  IN  Unescaped(both)

TrimCall(text) == IF text # <<>> /\ Last(text) = "()" THEN Front(text) ELSE text

Default(v, c) ==
  LET read == ColumnDefault(v, c)
      def  == IF read # NoText /\ Unquotes(v) THEN Unquote(read) ELSE read
  IN  IF \/ def \in {NoText, <<"NULL">>}
         \/ c.type = <<"datetime">> /\ def = <<"0000-00-00 00:00:00">>
        THEN NoText ELSE TrimCall(def)

\* EXTRA.
ColumnExtra(v, c) ==
  (IF c.auto THEN <<"auto_increment">> ELSE <<>>)
    \o (IF c.default = Now /\ MarksGenerated(v) THEN <<"DEFAULT_GENERATED">> ELSE <<>>)
    \o (IF ~c.onUpdate THEN <<>>
        ELSE IF SpellsCalls(v) THEN <<"on update", "current_timestamp", "()">>
        ELSE <<"on update", "CURRENT_TIMESTAMP">>)

UpperClause(text) ==
  [n \in DOMAIN text |-> CASE text[n] = "on update" -> "ON UPDATE"
                           [] text[n] = "current_timestamp" -> "CURRENT_TIMESTAMP"
                           [] OTHER -> text[n]]

IsAutoIncrement(v, c) == ColumnExtra(v, c) = <<"auto_increment">>
\* Mutant: the clause of a column that may be NULL is not read.
ExtraOfNotNull(v, c) ==
  IF ColumnExtra(v, c) = <<>> \/ IsAutoIncrement(v, c) \/ c.nullable THEN NoText
  ELSE UpperClause(TrimCall(ColumnExtra(v, c)))

Extra(v, c) ==
  IF ColumnExtra(v, c) = <<>> \/ IsAutoIncrement(v, c) THEN NoText
  ELSE UpperClause(TrimCall(ColumnExtra(v, c)))

SchemaType(c) ==
  IF /\ c.type[1] \in {"tinyint", "smallint", "mediumint", "int", "bigint"}
     /\ c.type # <<"tinyint", "(", "1", ")">>
    THEN trimParens(c.type) ELSE c.type

\* The old field: the tag of the column, read back.  The Go type of the column decides
\* nothing: the tag always names the type, and NULL when there may be one.  (A backslash
\* in the default would lose the tag; no default here is stored with one.)
OldFieldOf(v, c) ==
  LET options == ReadBack([type |-> SchemaType(c), default |-> Default(v, c), pk |-> FALSE,
                           auto |-> IsAutoIncrement(v, c), nullable |-> c.nullable,
                           extra |-> Extra(v, c), index |-> {}, name |-> "c"])
  IN  IF options = Failed THEN Failed
      ELSE [type |-> MySQLColumnType(CustomTypes, options.type), nullable |-> options.nullable,
            default |-> options.default, auto |-> options.auto, extra |-> options.extra,
            comment |-> c.comment]

-----------------------------------------------------------------------------
(* The steps.                                                              *)

Init ==
  /\ version \in Versions
  /\ declared \in Declarations
  /\ column \in {{}} \union {{c} : c \in Found}
  /\ last = "edited"

\* The source is edited between two runs.
Edit ==
  /\ declared' \in Declarations
  /\ last' = "edited"
  /\ UNCHANGED <<version, column>>

\* CREATE TABLE or ADD for a new column, CHANGE for one that differs.
Execute ==
  /\ LET results == Stored(version, columnSQL(New))
     IN  \/ column' \in {{c} : c \in results} /\ last' = "written"
         \/ results = {} /\ last' = "refused" /\ UNCHANGED column
  /\ UNCHANGED <<version, declared>>

Create == column = {} /\ New # Failed /\ Execute

Compared(c) == New # Failed /\ OldFieldOf(version, c) # Failed

Change ==
  \E c \in column :
    /\ Compared(c) /\ OldFieldOf(version, c) # New
    /\ Execute

Same ==
  \E c \in column :
    /\ Compared(c) /\ OldFieldOf(version, c) = New
    /\ last' = "same"
    /\ UNCHANGED <<version, declared, column>>

\* newField fails on the tag of the source, or on the one of the column.
Fail ==
  /\ New = Failed \/ \E c \in column : OldFieldOf(version, c) = Failed
  /\ last' = "failed"
  /\ UNCHANGED <<version, declared, column>>

Next == Edit \/ Create \/ Change \/ Same \/ Fail

Spec == Init /\ [][Next]_vars

-----------------------------------------------------------------------------
(* The limits: declarations that are never found again as they were written,   *)
(* and columns that are taken for others.  README.md describes each.            *)

\* The type is a synonym, or an integer with a display width.
Respelled(f) ==
  \/ f.type[1] = "INTEGER"
  \/ /\ f.type[1] \in {"TINYINT", "SMALLINT", "MEDIUMINT", "INT", "BIGINT"}
     /\ "(" \in ToSet(f.type) /\ f.type # <<"TINYINT", "(", "1", ")">>

\* The default is a word of SQL, has its own quotes, a backslash or the spelling of a call, or
\* ends the option it is written in.
SpecialDefault(f) ==
  \/ Breaks(f.default)
  \/ f.default # <<>> /\ Last(f.default) = "()"
  \/ isTextType(f.type) /\ f.default = <<"NULL">>
  \/ ~isTextType(f.type) /\ f.default \notin {<<>>, <<"1">>}

\* A backslash that no other one escapes, at the end or before a quote: QuoteString leaves
\* it as it is, and in the literal it takes the quote for a part of the text.
EscapesQuote(text) ==
  \E n \in DOMAIN text :
    LET run == {m \in 1..n : \A k \in m..n : text[k] = "backslash"}
    IN  Cardinality(run) % 2 = 1 /\ (n = Len(text) \/ text[n + 1] = "'")

\* The numbers of the version, taken one by one, say that defaults are not quoted.
Misread(v, f) == QuotesDefaults(v) /\ ~Unquotes(v) /\ f.default # <<>>

\* The clause is not in the spelling Extra gives it, or not shown at all.
SpecialExtra(f) == f.extra # <<>> /\ (f.extra # UpperClause(f.extra) \/ f.extra = Hidden)

\* A column whose default is read as none, or as another.
HiddenDefault(v, c) ==
  \/ c.default.kind = "literal" /\
       \/ c.default.text \in {<<>>, <<"NULL">>, <<"0000-00-00 00:00:00">>}
       \/ c.default.text # <<>> /\ Last(c.default.text) = "()"
  \/ QuotesDefaults(v) /\ ~Unquotes(v) /\ c.default.kind = "literal"

\* The values of an enum are compared in upper case.
OtherCase(c) == c.type[1] = "enum" /\ Tail(c.type) # ToUpper(Tail(c.type))

\* The type of the column is the name of a Go type, to which an entry of
\* --column-type-file gives another column type.
TakenForGoType(c) == \E entry \in ToSet(CustomTypes) : SchemaType(c) \in allGoTypes(entry)

-----------------------------------------------------------------------------
(* Properties.                                                             *)

\* Sync is idempotent on a column, outside the limits: once it is written, the next run
\* finds it as it is declared ("Migu is an idempotent database schema migration tool",
\* README.md:3).
WrittenIsFound ==
  last = "written" =>
    \/ Respelled(New) \/ SpecialDefault(New) \/ SpecialExtra(New) \/ Misread(version, New)
    \/ \A c \in column : TakenForGoType(c) \/ OldFieldOf(version, c) = New

\* A column that is left alone is the one the declaration would have made, outside the
\* limits and but for the display width of an integer: no difference is missed.
SameIsStored ==
  last = "same" =>
    \A c \in column :
      \/ HiddenDefault(version, c) \/ OtherCase(c) \/ TakenForGoType(c) \/ SpecialDefault(New)
      \/ \E s \in Stored(version, columnSQL(New)) :
           [s EXCEPT !.type = SchemaType(s)] = [c EXCEPT !.type = SchemaType(c)]

\* The server refuses a VARCHAR or CHAR column, but for its extra clause, only when the
\* default is longer than the column or a backslash of it escapes a quote: QuoteString
\* makes a literal of every other text, quotes and words of SQL included.
TextIsRarelyRefused ==
  last = "refused" /\ New.type[1] \in {"VARCHAR", "CHAR"} =>
    Extras(New) = {} \/ TooLong(New.type, New.default) \/ EscapesQuote(New.default)
=============================================================================
