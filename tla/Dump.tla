--------------------------------- MODULE Dump ---------------------------------
(***************************************************************************)
(* migu dump DATABASE FILE (src/cmd/migu/dump.go, Fprint in src/migu.go): for  *)
(* each column of each table, in turn, GoType is asked, a field with its tag    *)
(* is made, and the struct is written.  Diff is then given the file, or a       *)
(* source written by hand.  The file gets a package clause in between, which    *)
(* Fprint does not write.                                                    *)
(***************************************************************************)
EXTENDS GoType, SourceFiles

CONSTANTS
  Databases,  \* a database is a function of its tables, each a sequence of columns
  SortedNames,\* the names of tables, in the order of sort.Strings
  Camel,      \* stringutil.ToUpperCamelCase on the names of tables and columns
  Identifiers,\* the names Go takes for identifiers
  OldFile     \* the declarations FILE held before

VARIABLES
  db,      \* the tables, ByHand if there was no dump.  A column is [dialect, name, type,
           \* nullable, default, pk, auto, extra, index, comment]
  step,    \* "create", "query", "import", "field", "marker", "struct", "ok", "error", "read"
  names,   \* the tables still to print
  made,  \* the fields of the first of them
  file,    \* the declarations in FILE
  marked,  \* a marker stands before the struct printed next
  broken   \* writing fails: a disk is full, and may be freed again

dumpVars == <<db, step, names, made, file, marked, broken>>
allVars == <<vars, callVars, dumpVars>>

ByHand == [none |-> TRUE]

-----------------------------------------------------------------------------
(* What is printed.                                                         *)

\* The column as its tag describes it.
Described(c) == [c EXCEPT !.type = SchemaColumnType(c)]

\* Mutant: the field is named like the column.
FieldOfLower(c, type) ==
  [names |-> <<c.name>>, type |-> type, tag |-> Write(Described(c))]

\* Mutant: the tag begins with an option parseStructTag does not know.
FieldOfKeyOption(c, type) ==
  [names |-> <<Camel[c.name]>>, type |-> type, tag |-> <<"primary_key", ",">> \o Write(Described(c))]

\* fieldAST: no `column` option tells the name of the column.
FieldOf(c, type) ==
  [names |-> <<Camel[c.name]>>, type |-> type, tag |-> Write(Described(c))]

\* makeStructAST, without a marker when that was lost: neither the name of the table nor
\* its options are in the annotation.
StructOf(table, list, withMarker) ==
  [type |-> TRUE, meant |-> IF withMarker THEN NoAnnotation ELSE Unmarked,
   doc   |-> IF withMarker THEN <<<<"//", marker>>>> ELSE <<>>,
   specs |-> <<[name |-> Camel[table], struct |-> TRUE, meant |-> Unmarked,
                fields |-> list]>>]

Import == [type |-> FALSE, meant |-> Unmarked, doc |-> <<>>, specs |-> <<>>]

ColumnsIn(d) == UNION {ToSet(d[t]) : t \in DOMAIN d}
Packages(d) == {ImportPackage(c) : c \in ColumnsIn(d)} \ {"none"}

-----------------------------------------------------------------------------

\* A dump begins, or a source is given to Diff that was written by hand.
DumpInit ==
  /\ Idle /\ names = <<>> /\ made = <<>> /\ file = OldFile /\ marked = FALSE /\ broken = FALSE
  /\ status = "collect" /\ todo = {} /\ asts = <<>> /\ pending = {} /\ tables = <<>>
  /\ failure = "none"
  /\ \/ step = "create" /\ db \in Databases /\ source = [directory |-> FALSE, files |-> {}]
     \/ step = "read" /\ db = ByHand /\ source \in Sources

\* What the steps of the dump leave alone.
Dumping == UNCHANGED <<db, vars>>
NoCall == UNCHANGED callVars

Error == step' = "error" /\ UNCHANGED <<names, made, file, marked, broken>>

\* os.Create empties the file before the database is asked.
CreateFile ==
  /\ step = "create" /\ Dumping /\ NoCall
  /\ \/ Error
     \/ step' = "query" /\ file' = <<>> /\ UNCHANGED <<names, made, marked, broken>>

Query ==
  /\ step = "query" /\ Dumping /\ NoCall
  /\ \/ Error
     \/ step' = "import" /\ UNCHANGED <<names, made, file, marked, broken>>

\* The imports, if there are any; then the tables in the order of their names.
PrintImports ==
  /\ step = "import" /\ Dumping /\ NoCall
  /\ \/ broken /\ Packages(db) # {} /\ Error
     \/ /\ broken => Packages(db) = {}
        /\ step' = "field" /\ names' = SelectSeq(SortedNames, LAMBDA n : n \in DOMAIN db)
        /\ file' = file \o (IF Packages(db) = {} THEN <<>> ELSE <<Import>>)
        /\ UNCHANGED <<made, marked, broken>>

AllPrinted ==
  /\ step = "field" /\ names = <<>> /\ Dumping /\ NoCall
  /\ step' = "ok" /\ UNCHANGED <<names, made, file, marked, broken>>

\* fieldAST of the next column: GoType, which may call itself, and the tag.
Columns == db[Head(names)]

AskGoType ==
  /\ step = "field" /\ names # <<>> /\ Len(made) < Len(Columns) /\ column = NoColumn
  /\ GoTypeOf(Columns[Len(made) + 1])
  /\ Dumping /\ UNCHANGED <<step, names, made, file, marked, broken>>

CallGoType ==
  /\ step = "field" /\ Call
  /\ Dumping /\ UNCHANGED <<step, names, made, file, marked, broken>>

MakeField ==
  /\ step = "field" /\ answer # NotFound
  /\ made' = Append(made, FieldOf(column, answer)) /\ Return
  /\ Dumping /\ UNCHANGED <<step, names, file, marked, broken>>

MakeStruct ==
  /\ step = "field" /\ names # <<>> /\ Len(made) = Len(Columns)
  /\ step' = "marker"
  /\ Dumping /\ NoCall /\ UNCHANGED <<names, made, file, marked, broken>>

\* Mutant: a table whose marker cannot be written is left out.
PrintMarkerOrSkip ==
  /\ step = "marker" /\ Dumping /\ NoCall
  /\ IF broken THEN step' = "field" /\ names' = Tail(names) /\ made' = <<>> /\ UNCHANGED marked
     ELSE step' = "struct" /\ marked' = TRUE /\ UNCHANGED <<names, made>>
  /\ UNCHANGED <<file, broken>>

\* An error of this Fprintln is not looked at.
PrintMarker ==
  /\ step = "marker" /\ Dumping /\ NoCall
  /\ step' = "struct" /\ marked' = ~broken
  /\ UNCHANGED <<names, made, file, broken>>

PrintStruct ==
  /\ step = "struct" /\ Dumping /\ NoCall
  /\ \/ broken /\ Error
     \/ /\ ~broken
        /\ step' = "field" /\ names' = Tail(names) /\ made' = <<>>
        /\ file' = Append(file, StructOf(Head(names), made, marked))
        /\ UNCHANGED <<marked, broken>>

\* The world: a write fails from here on, or no longer does.
Break ==
  /\ step \in {"import", "marker", "struct"} /\ Dumping /\ NoCall
  /\ broken' = ~broken /\ UNCHANGED <<step, names, made, file, marked>>

\* A comment of several lines has only the first behind its slashes: Go takes the others
\* for something, or for nothing it knows.
Multiline(d) == \E c \in ColumnsIn(d) : c.comment = "lines"
\* A backquote ends the literal of the tag.
Backquoted(d) == \E c \in ColumnsIn(d) : "backquote" \in ToSet(Write(Described(c)))

\* The source as Go reads it: reflect.StructTag gives of a tag what it can.
AsRead(decl) ==
  [decl EXCEPT !.specs = [n \in DOMAIN @ |-> [@[n] EXCEPT !.fields =
     [k \in DOMAIN @ |-> [@[k] EXCEPT !.tag = Get(@)]]]]]

\* A table or a column has a name whose camel case is no identifier: it begins with a
\* digit, or has a hyphen in it.
NoIdentifier(d) ==
  \E n \in DOMAIN d \union {c.name : c \in ColumnsIn(d)} : Camel[n] \notin Identifiers
Unparsable(d) == Backquoted(d) \/ NoIdentifier(d)

\* The file, a package clause put before it, is given to Diff.
GiveToDiff ==
  /\ step = "ok" /\ step' = "read"
  /\ \E parses \in {~Unparsable(db), ~Unparsable(db) /\ ~Multiline(db)} :
       source' = [directory |-> FALSE,
                  files |-> {[name |-> <<"schema", ".go">>, directory |-> FALSE, parses |-> parses,
                              decls |-> [n \in DOMAIN file |-> AsRead(file[n])]]}]
  /\ NoCall
  /\ UNCHANGED <<status, todo, asts, pending, tables, failure, db, names, made, file, marked, broken>>

Diff == step = "read" /\ Next /\ UNCHANGED <<dumpVars, callVars>>

DumpNext ==
  \/ CreateFile \/ Query \/ PrintImports \/ AllPrinted
  \/ AskGoType \/ CallGoType \/ MakeField \/ MakeStruct
  \/ PrintMarker \/ PrintStruct
  \/ Break \/ GiveToDiff \/ Diff

\* A call that was made goes on: nothing else runs in between.
DumpSpec == DumpInit /\ [][DumpNext]_allVars /\ WF_allVars(CallGoType)

-----------------------------------------------------------------------------
(* Properties.                                                             *)

Dumped == db # ByHand

\* The limits: a name that is not what Snake makes of Camel; a column whose field is not
\* exported; a column with no Go type; a marker that was not written; a tag that cannot
\* carry its texts.
Renamed(d) ==
  \E n \in DOMAIN d \union {c.name : c \in ColumnsIn(d)} : Snake[Camel[n]] # n
Unexported(d) == \E c \in ColumnsIn(d) : Camel[c.name] \notin Exported
OpaqueColumn ==
  \E decl \in ToSet(file) : decl.type /\ \E f \in ToSet(decl.specs[1].fields) : UnknownType(f)
MarkerLost == \E n \in DOMAIN file : file[n].type /\ file[n].doc = <<>>
UnwritableColumn(d) == \E c \in ColumnsIn(d) : Unwritable(Described(c))

\* A dump that returned nil, read again, declares the tables of the database with their
\* columns in order: sync from it has nothing to create and nothing to drop.
ReadBackIsDatabase ==
  Dumped /\ status = "done" /\ ~Renamed(db) /\ ~Unexported(db) /\ ~Multiline(db) /\ ~MarkerLost
    /\ ~UnwritableColumn(db) =>
    /\ DOMAIN tables = {<<t>> : t \in DOMAIN db}
    /\ \A t \in DOMAIN db : tables[<<t>>].columns = [n \in DOMAIN db[t] |-> <<db[t][n].name>>]

\* The options of the n-th column of a table, its indexes under the names Diff gives them.
OptionsIn(name, n) ==
  LET own == tables[name].columns[n]
  IN  [tables[name].options[n] EXCEPT !.indexes = NamedIn(@, name, own),
                                      !.uniques = NamedIn(@, name, own)]

\* Two tables are dumped as structs of one name.
SharesName(t, d) == \E u \in DOMAIN d : u # t /\ Camel[u] = Camel[t]

\* And it says of each of them what the database says: the type, the default, the key, the
\* index, NULL and the extra clause are read back from the tag, option by option.  An index
\* named like its column is not: it is read back under its default name.
ReadsBackAsMeant ==
  Dumped /\ status = "done" /\ ~Multiline(db) =>
    \A t \in DOMAIN db :
      LET name == <<Snake[Camel[t]]>>
          only == t :> db[t]
      IN  name \in DOMAIN tables /\ ~SharesName(t, db) /\ ~Unexported(only) /\ ~UnwritableColumn(only) =>
            /\ DOMAIN tables[name].options = DOMAIN db[t]
            /\ \A n \in DOMAIN db[t] :
                 NamedLikeColumn(db[t][n]) \/ OptionsIn(name, n) = Meant(Described(db[t][n]))

\* Only a column migu has no type for, a comment of several lines, a name that Go does not
\* take for an identifier, or a tag that cannot carry its texts makes a file that Diff
\* refuses.
DumpIsRead ==
  Dumped /\ status = "failed" =>
    OpaqueColumn \/ Multiline(db) \/ NoIdentifier(db) \/ UnwritableColumn(db)

\* When the dump returns nil, every table is in the file, once and in order, whatever
\* failed to be written on the way.
DumpIsWhole ==
  Dumped /\ step \in {"ok", "read"} =>
    LET structs == SelectSeq(file, LAMBDA d : d.type)
        all     == SelectSeq(SortedNames, LAMBDA n : n \in DOMAIN db)
    IN  [n \in DOMAIN structs |-> structs[n].specs[1].name] = [n \in DOMAIN all |-> Camel[all[n]]]
=============================================================================
