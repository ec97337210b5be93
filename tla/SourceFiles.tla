----------------------------- MODULE SourceFiles ------------------------------
(***************************************************************************)
(* What Diff makes of a source before it looks at the database (src/migu.go    *)
(* 58-103): the files of a directory, the structs with an annotation, their    *)
(* fields.  The order in which a directory is listed, and the order in which   *)
(* a map is ranged over, are any.                                            *)
(***************************************************************************)
EXTENDS Annotation

CONSTANTS
  Sources,   \* what Diff may be called with
  Snake,     \* stringutil.ToSnakeCase on the names of structs and fields
  Exported,  \* the names ast.IsExported accepts
  Opaque     \* types that are neither names nor pointers or slices of names

VARIABLES
  source,  \* [directory, files]; standard input and a single file are one file
  status,  \* "collect", "read", "visit", "done" or "failed"
  todo,    \* the files still to parse
  asts,    \* structASTMap: the struct of each table
  pending, \* the tables whose struct is still to be visited
  tables,  \* structMap: the table of each struct that has a column
  failure  \* why Diff gave up

vars == <<source, status, todo, asts, pending, tables, failure>>

\* A file is [name, directory, parses, decls]; a declaration [type, doc, meant, specs];
\* a specification in it [name, struct, fields, meant]; a field [names, type, tag].  What is
\* meant by a comment, in `meant`, is for the properties only.
Embedded(f) == f.names = <<>>
Name(f) == f.names[1]

-----------------------------------------------------------------------------
(* makeStructASTMap.                                                        *)

AddStruct(map, annotation, spec) ==
  LET table == IF annotation.table # <<>> THEN annotation.table ELSE <<Snake[spec.name]>>
  IN  IF spec.struct
        THEN (table :> [option |-> annotation.option, fields |-> spec.fields]) @@ map
        ELSE map

\* The annotation of a declaration that may have one.
AnnotationOf(decl) ==
  IF decl.type /\ decl.doc # <<>> THEN parseAnnotation(decl.doc) ELSE Unmarked

AddDecl(map, decl) ==
  IF AnnotationOf(decl) = Unmarked THEN map
  ELSE FoldLeft(LAMBDA m, spec : AddStruct(m, AnnotationOf(decl), spec), map, decl.specs)

structASTMap(file) == FoldLeft(AddDecl, <<>>, file.decls)

Annotations(file) == {AnnotationOf(file.decls[n]) : n \in DOMAIN file.decls}

-----------------------------------------------------------------------------
(* The fields of a struct.                                                  *)

UnknownType(f) == Last(f.type) \in Opaque
BadTag(f) == ~Embedded(f) /\ Parse(f.tag) = Failed

ColumnOf(f) == IF Parse(f.tag).column # <<>> THEN Parse(f.tag).column ELSE <<Snake[Name(f)]>>

\* Mutant: an ignored field stays.
BecomesColumnIgnored(f) ==
  ~Embedded(f) /\ (Name(f) \in Exported \/ (Name(f) = "_" /\ ColumnOf(f) # <<"_">>))

BecomesColumn(f) ==
  /\ ~Embedded(f) /\ ~Parse(f.tag).ignore
  /\ Name(f) \in Exported \/ (Name(f) = "_" /\ ColumnOf(f) # <<"_">>)

-----------------------------------------------------------------------------

Init ==
  /\ source \in Sources
  /\ status = "collect"
  /\ todo = {} /\ asts = <<>> /\ pending = {} /\ tables = <<>> /\ failure = "none"

\* Mutant: the hidden files of a directory are read too.
IsListedHidden(f) == ~f.directory /\ Last(f.name) = ".go"

IsListed(f) == ~f.directory /\ f.name[1] \notin {".", "_"} /\ Last(f.name) = ".go"

Fail(why) ==
  status' = "failed" /\ failure' = why /\ UNCHANGED <<source, todo, asts, pending, tables>>

\* A directory may refuse to be listed; anything else is taken for a file.
CollectFiles ==
  /\ status = "collect"
  /\ \/ source.directory /\ Fail("directory")
     \/ /\ status' = "read"
        /\ todo' = IF source.directory THEN {f \in source.files : IsListed(f)} ELSE source.files
        /\ UNCHANGED <<source, asts, pending, tables, failure>>

ReadFile ==
  /\ status = "read"
  /\ \E f \in todo :
       \/ ~f.parses /\ Fail("syntax")
       \/ f.parses /\ Failed \in Annotations(f) /\ Fail("annotation")
       \/ /\ f.parses /\ Failed \notin Annotations(f)
          /\ asts' = structASTMap(f) @@ asts
          /\ todo' = todo \ {f}
          /\ UNCHANGED <<source, status, pending, tables, failure>>

AllRead ==
  /\ status = "read" /\ todo = {}
  /\ status' = "visit" /\ pending' = DOMAIN asts
  /\ UNCHANGED <<source, todo, asts, tables, failure>>

\* One struct, field by field: the type first, then the tag.
VisitStruct ==
  /\ status = "visit"
  /\ \E t \in pending :
       LET fields == asts[t].fields
           bad    == {n \in DOMAIN fields : UnknownType(fields[n]) \/ BadTag(fields[n])}
           kept   == SelectSeq(fields, BecomesColumn)
       IN  \/ bad # {} /\ Fail(IF UnknownType(fields[Min(bad)]) THEN "BUG" ELSE "tag")
           \/ /\ bad = {}
              /\ tables' = IF kept = <<>> THEN tables
                           ELSE (t :> [option |-> asts[t].option,
                                       columns |-> [n \in DOMAIN kept |-> ColumnOf(kept[n])],
                                       options |-> [n \in DOMAIN kept |-> Parse(kept[n].tag)]]) @@ tables
              /\ pending' = pending \ {t}
              /\ UNCHANGED <<source, status, todo, asts, failure>>

\* Diff goes on to ask the database for the tables.
AllVisited ==
  /\ status = "visit" /\ pending = {}
  /\ status' = "done" /\ UNCHANGED <<source, todo, asts, pending, tables, failure>>

Next == CollectFiles \/ ReadFile \/ AllRead \/ VisitStruct \/ AllVisited

Spec == Init /\ [][Next]_vars

-----------------------------------------------------------------------------
(* What a source means.                                                     *)

FilesOf(s) ==
  IF s.directory THEN {f \in s.files : ~f.directory /\ f.name[1] \notin {".", "_"} /\ ".go" \in ToSet(f.name)}
  ELSE s.files

\* The structs of a source, and the comment that marks one: its own, or that of the
\* declaration it is in.
Structs(s) ==
  {x \in UNION {[decl : {d}, spec : ToSet(d.specs)] : d \in UNION {ToSet(f.decls) : f \in FilesOf(s)}} :
     x.decl.type /\ x.spec.struct}
MarkOf(x) == IF x.spec.meant # Unmarked THEN x.spec.meant ELSE x.decl.meant
MarkedStructs(s) == {x \in Structs(s) : MarkOf(x) # Unmarked}

TableOf(x) == IF MarkOf(x).table # <<>> THEN MarkOf(x).table ELSE <<Snake[x.spec.name]>>

\* The columns a struct declares: one for each exported name and each `_` with a column,
\* in a field that is not ignored.
ColumnsOf(fields) ==
  UNION {LET o == Parse(f.tag)
         IN  {IF o.column # <<>> THEN o.column ELSE <<Snake[name]>> :
                name \in {n \in ToSet(f.names) : n \in Exported \/ (n = "_" /\ o.column # <<>>)}} :
         f \in {g \in ToSet(fields) : ~Embedded(g) /\ ~Parse(g.tag).ignore}}

\* The limits.  Two structs of one table: the last one read counts.
SameTable(s) == \E x, y \in MarkedStructs(s) : x # y /\ TableOf(x) = TableOf(y)
\* A field list, A, B int: only the first name becomes a column.
FieldList(s) == \E x \in MarkedStructs(s) : \E f \in ToSet(x.spec.fields) : Len(f.names) > 1
\* A struct in a group of declarations with a comment of its own: it is not seen.
Grouped(s) == \E x \in Structs(s) : x.spec.meant # Unmarked

-----------------------------------------------------------------------------
(* Properties.                                                             *)

\* What Diff compares with the database is what the marked structs declare, whatever the
\* order of files and structs: a table for each that has a column, with its option and
\* columns, and nothing else.
ResultIsMeant ==
  status = "done" /\ ~SameTable(source) /\ ~FieldList(source) /\ ~Grouped(source) =>
    /\ DOMAIN tables = {TableOf(x) : x \in {y \in MarkedStructs(source) : ColumnsOf(y.spec.fields) # {}}}
    /\ \A x \in MarkedStructs(source) : TableOf(x) \in DOMAIN tables =>
         /\ tables[TableOf(x)].option = MarkOf(x).option
         /\ ToSet(tables[TableOf(x)].columns) = ColumnsOf(x.spec.fields)

\* Diff gives up for a file it was asked to read and cannot, an annotation that is none, or
\* a field of a marked struct; never for what stands elsewhere in the program's source.
FailsOnlyForMarked ==
  CASE failure = "syntax" -> \E f \in FilesOf(source) : ~f.parses
    [] failure = "annotation" -> \E f \in FilesOf(source) : \E d \in ToSet(f.decls) : d.meant = Failed
    [] failure \in {"BUG", "tag"} ->
         \E x \in MarkedStructs(source) : \E f \in ToSet(x.spec.fields) : UnknownType(f) \/ BadTag(f)
    [] OTHER -> TRUE
=============================================================================
