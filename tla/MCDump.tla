-------------------------------- MODULE MCDump --------------------------------
(* Databases and sources for TLC, in slices: the types of a column, its tag, the tables of a
   database; a directory of files, the declarations of a file, the comment of a struct, the
   fields of a struct. *)
EXTENDS Dump

Name2(camel, snake) == [camel |-> camel, snake |-> snake]
MCCamel == [n \in {"User", "post", "user", "user_id", "name", "age", "_x",
              "2fa", "first-name"} |->
  CASE n \in {"User", "user"} -> "User" [] n = "post" -> "Post" [] n = "user_id" -> "UserID"
    [] n = "name" -> "Name" [] n = "age" -> "Age" [] n = "_x" -> "_x"
    [] n = "2fa" -> "2fa" [] n = "first-name" -> "First-name"]
MCSnake == [n \in {"User", "Post", "UserID", "Guest", "Name", "Age", "age", "_x", "_", "2fa",
              "First-name"} |->
  CASE n = "User" -> "user" [] n = "Post" -> "post" [] n = "UserID" -> "user_id"
    [] n = "Guest" -> "guest" [] n = "Name" -> "name" [] n \in {"Age", "age"} -> "age"
    [] n = "_x" -> "x" [] n = "_" -> "_"
    [] n = "2fa" -> "2fa" [] n = "First-name" -> "first-name"]
MCExported == {"User", "Post", "UserID", "Guest", "Name", "Age", "First-name"}
MCIdentifiers == {"User", "Post", "UserID", "Guest", "Name", "Age", "_x"}
MCOpaque == {"interface{}", "map[string]int"}
MCSorted == <<"2fa", "User", "post", "user", "user_id">>

-----------------------------------------------------------------------------
(* Columns.                                                                *)

Sized(word, size) == <<word, "(", size, ")">>
Pair(word, m, n) == <<word, "(", m, ",", n, ")">>
PlainTypes == { <<w>> : w \in {"text", "mediumtext", "longtext", "tinytext", "blob", "double", "float",
                          "datetime", "timestamp", "date", "json"} }
Whole == {"tinyint", "smallint", "mediumint", "int", "bigint"}
Wide == UNION {{<<w>>, Sized(w, "10")} : w \in Whole} \union {Sized("tinyint", "1")}
MySQLTypes ==
  PlainTypes
    \union Wide \union {t \o <<" ", "unsigned">> : t \in Wide}
    \union {t \o <<" ", "unsigned", " ", "zerofill">> : t \in Wide}
    \union {Sized("varchar", "36"), Sized("char", "1"), Sized("varbinary", "255"), Sized("binary", "1"),
            Sized("datetime", "6"), Sized("year", "4"), Sized("bit", "1"), Pair("decimal", "20", "2"),
            Pair("float", "8", "2"), <<"double", " ", "unsigned">>,
            Pair("decimal", "20", "2") \o <<" ", "unsigned">>, Pair("enum", "a", "b"), Pair("set", "a", "b")}
SpannerTypes ==
  { <<w>> : w \in {"BOOL", "INT64", "FLOAT64", "TIMESTAMP", "DATE", "NUMERIC", "JSON"} }
    \union {Sized(w, n) : w \in {"STRING", "BYTES"}, n \in {"MAX", "36"}}
Arrays == {<<"ARRAY<">> \o t \o <<">">> : t \in SpannerTypes}


Column(dialect, name, type, nullable) ==
  [dialect |-> dialect, name |-> name, type |-> type, nullable |-> nullable, default |-> NoText,
   pk |-> FALSE, auto |-> FALSE, extra |-> NoText, index |-> {}, comment |-> "none"]

TypedColumns ==
  {Column("mysql", "name", t, n) : t \in MySQLTypes, n \in BOOLEAN}
    \union {Column("spanner", "name", t, n) : t \in SpannerTypes \union Arrays, n \in BOOLEAN}

TagTypes == { <<"int">>, <<"decimal", "(", "20", ",", "2", ")">>, <<"enum", "(", "a", ")", ",", "b", ")">> }
Texts == { NoText, <<>>, <<"yes">>, <<"x", ":", "y">>, <<"x", ",", "y">>, <<"f", "(", ")">>,
           <<"f", "(">>, <<"x", "quote", "y">>, <<"backslash", "x">>, <<"backquote">> }
Clauses == { NoText, <<"on update">>, <<"f", "(", "x", ",", "y", ")">>, <<"x", ",", "null">>, <<"x", "quote", "y">> }
IndexNames == { <<"name">>, <<"user", "_", "name">>, <<"i">>, <<"i", ",", "j">> }
TaggedColumns ==
  {[Column("mysql", "name", t, n) EXCEPT !.default = d, !.pk = k, !.auto = k, !.extra = e, !.index = x] :
     t \in TagTypes, n \in BOOLEAN, d \in Texts, k \in BOOLEAN, e \in Clauses,
     x \in {{}} \union {{[name |-> i, unique |-> u]} : i \in IndexNames, u \in BOOLEAN}}

-----------------------------------------------------------------------------
(* Databases: of one column, of up to three tables.                          *)

MCOldFile == <<[type |-> TRUE, doc |-> <<<<"//", marker>>>>, meant |-> NoAnnotation, specs |-> <<>>]>>

Text(name) == Column("mysql", name, <<"varchar", "(", "36", ")">>, TRUE)
Big(name) == Column("mysql", name, <<"bigint">>, FALSE)
Date(name) == Column("mysql", name, <<"datetime">>, TRUE)
Rows ==
  { <<Text("name")>>,
    <<[Date("age") EXCEPT !.comment = "line"], Big("user_id")>>,
    <<Big("user_id"), [Text("name") EXCEPT !.comment = "lines"]>>,
    <<Column("mysql", "name", <<"json">>, TRUE)>>,
    <<Big("_x"), Date("age")>>,
    <<Text("name"), Text("first-name")>> }
Dbs(Names) == UNION {[S -> Rows] : S \in SUBSET Names}
MCDatabases ==
  Dbs({"post", "user", "user_id"}) \union Dbs({"User", "user"}) \union Dbs({"2fa", "user"})
    \union {"user" :> <<c>> : c \in TypedColumns \union TaggedColumns}

\* An enum one of whose values has a blank: enum('a b').
EnumDatabases == {"user" :> <<Column("mysql", "name", <<"enum", "(", "a", " ", "b", ")">>, FALSE)>>}
NoSources == {}

-----------------------------------------------------------------------------
(* Sources.                                                                *)

\* Comments, with what they mean.
Mark == <<"//", "+migu">>
Quote(text, mark) == <<mark>> \o text \o <<mark>>
Escaped(text) == FlattenSeq([n \in DOMAIN text |->
  IF text[n] \in {"quote", "backslash"} THEN <<"backslash", text[n]>> ELSE <<text[n]>>])
\* The ways to write a value: bare if it has no blank, in double quotes, in backquotes.
Spellings(text) ==
  {Quote(Escaped(text), "quote")}
    \union (IF text = <<>> \/ " " \in ToSet(text) THEN {} ELSE {text})
    \union (IF "backquote" \in ToSet(text) THEN {} ELSE {Quote(text, "backquote")})
Given(key, text) == IF text = <<>> THEN {<<>>} ELSE {<<" ", key, ":">> \o v : v \in Spellings(text)}
Values == { <<>>, <<"vip">>, <<"a", " ", "b">>, <<"a", ":", "b">>, <<"a", "quote", " ", "b">>,
            <<"a", "backslash">>, <<"a", "backslash", "quote">> }
Written(a) ==
  LET table == Given("table", a.table) option == Given("option", a.option)
      both  == {t \o o : t \in table, o \in option} \union {o \o t : t \in table, o \in option}
  IN  {Mark \o t : t \in both} \union {<<"//", " ", "+migu">> \o t \o <<" ">> : t \in both}
Annotated == [table : {v \in Values : ~HiddenEnd(v)}, option : {v \in Values : ~HiddenEnd(v)}]
Other == {<<"//", "users">>, <<"//", "migu">>, <<"/*", "+migu", "*/">>, <<"//", "+migu", "!">>,
          <<"//", "a", "+migu">>}
Broken == {Mark \o t : t \in {<<" ", "a">>, <<" ", "a", ":", "b">>, <<" ", "table", ":", " ", "b">>,
  <<" ", "table", ":", "quote", "a">>, <<" ", "table", ":", "quote", "a", "quote", "a">>,
  <<" ", "table", ":", "quote", "a", "quote", " ", ":", "a">>}}

Str(name) == [names |-> <<name>>, type |-> <<"string">>, tag |-> <<>>]
Plain == <<Str("Name")>>
Strukt(name, fields) == [name |-> name, struct |-> TRUE, fields |-> fields, meant |-> Unmarked]
Decl(doc, meant, specs) == [type |-> TRUE, doc |-> doc, meant |-> meant, specs |-> specs]
File(decls) == [name |-> <<"a", ".go">>, directory |-> FALSE, parses |-> TRUE, decls |-> decls]
One(decls) == [directory |-> FALSE, files |-> {File(decls)}]
User(fields) == Decl(<<Mark>>, NoAnnotation, <<Strukt("User", fields)>>)

\* The comment of a struct: one line, or three with one that is read.
CommentSources ==
  {One(<<Decl(<<c>>, a, <<Strukt("User", Plain)>>)>>) : <<a, c>> \in
     UNION {{<<b, w>> : w \in Written(b)} : b \in Annotated}}
  \union {One(<<Decl(<<o, c, p>>, NoAnnotation, <<Strukt("User", Plain)>>)>>) :
            o \in Other, p \in Other \union {Mark \o <<" ", "table", ":", "b">>}, c \in {Mark, Mark \o <<" ">>}}
  \union {One(<<Decl(<<o>>, Unmarked, <<Strukt("User", Plain)>>), User(Plain)>>) : o \in Other}
  \union {One(<<Decl(<<o, b>>, Failed, <<Strukt("User", Plain)>>)>>) : o \in Other, b \in Broken}

\* Two declarations of a file: marked, marked with a table, not marked, of several structs,
\* of something that is no struct, no type.
Kinds ==
  { User(Plain), Decl(<<Mark \o <<" ", "table", ":", "vip">>>>, [NoAnnotation EXCEPT !.table = <<"vip">>],
                      <<Strukt("User", Plain)>>),
    Decl(<<Mark>>, NoAnnotation, <<Strukt("Guest", <<Str("Age")>>)>>),
    Decl(<<>>, Unmarked, <<Strukt("Guest", Plain)>>),
    Decl(<<>>, Unmarked, <<Strukt("Guest", <<[Str("Age") EXCEPT !.type = <<"interface{}">>]>>)>>),
    Decl(<<Mark>>, NoAnnotation, <<Strukt("Guest", Plain), Strukt("User", <<Str("Age")>>)>>),
    Decl(<<Mark>>, NoAnnotation, <<[Strukt("Guest", <<>>) EXCEPT !.struct = FALSE]>>),
    Decl(<<Mark>>, NoAnnotation, <<Strukt("Guest", <<>>)>>),
    [Decl(<<Mark>>, NoAnnotation, <<>>) EXCEPT !.type = FALSE] }
DeclSources == {One(<<d, e>>) : d, e \in Kinds} \union {One(<<>>)}

\* Two fields of a struct; only a type with a name can be embedded.
AnyFields ==
  [names : {<<>>, <<"Name">>, <<"age">>, <<"_">>, <<"Name", "Age">>},
   type : {<<"string">>, <<"*", "string">>, <<"*", "[]", "interface{}">>},
   tag : {<<>>, <<"-">>, <<"column", ":", "content">>, <<"bad">>}]
Fields == {f \in AnyFields : Embedded(f) => Last(f.type) \notin MCOpaque}
FieldSources == {One(<<User(<<f, g>>)>>) : f, g \in Fields}

\* A directory: up to three files.
Files ==
  { File(<<User(Plain)>>),
    [File(<<User(<<Str("Age")>>)>>) EXCEPT !.name = <<"b", "_test", ".go">>],
    [File(<<Decl(<<Mark>>, NoAnnotation, <<Strukt("Guest", Plain)>>)>>) EXCEPT !.name = <<"c", ".go">>],
    [File(<<Decl(<<Mark \o <<" ", "a">>>>, Failed, <<Strukt("Guest", Plain)>>)>>) EXCEPT !.name = <<"d", ".go">>],
    [File(<<>>) EXCEPT !.name = <<"e", ".go">>, !.parses = FALSE],
    [File(<<>>) EXCEPT !.name = <<"f", ".txt">>, !.parses = FALSE],
    [File(<<Decl(<<Mark>>, NoAnnotation, <<Strukt("Guest", Plain)>>)>>) EXCEPT !.name = <<"_", "g", ".go">>],
    [File(<<>>) EXCEPT !.name = <<".", "h", ".go">>, !.parses = FALSE],
    [File(<<>>) EXCEPT !.name = <<"i", ".go">>, !.directory = TRUE] }
FileSources ==
  {[directory |-> TRUE, files |-> F] : F \in {G \in SUBSET Files : Cardinality(G) <= 3}}
    \union {[directory |-> FALSE, files |-> {f}] : f \in Files}

MCSources == CommentSources \union DeclSources \union FieldSources \union FileSources
=============================================================================
