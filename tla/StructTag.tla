------------------------------ MODULE StructTag ------------------------------
(***************************************************************************)
(* The `migu` tag of a struct field (src/migu.go).  fieldAST writes one for    *)
(* each column of the database, and parseStructTag reads it back: every old    *)
(* field Diff compares with has gone through both.  The tags of a source go    *)
(* through the second only.                                                  *)
(*                                                                          *)
(* A tag is the sequence of its parts: words, and the marks the code looks     *)
(* for: <<"type", ":", "decimal", "(", "20", ",", "2", ")", ",", "null">>.    *)
(***************************************************************************)
EXTENDS Naturals, SequencesExt

CONSTANT Buffer   \* what a bufio.Scanner reads at once (4096 bytes): parts here

ASSUME BufferAssumption == Buffer \in Nat \ {0}

IndexOf(s, part) == SelectInSeq(s, LAMBDA p : p = part)

\* A field with none of its options set.  Type, default and extra are texts; an index
\* without a name has the empty one.
NoOptions ==
  [type |-> <<>>, default |-> <<>>, pk |-> FALSE, auto |-> FALSE, indexes |-> <<>>,
   uniques |-> <<>>, column |-> <<>>, nullable |-> FALSE, extra |-> <<>>, ignore |-> FALSE]

Failed == [error |-> TRUE]

-----------------------------------------------------------------------------
(* Writing: the tag of a column.                                            *)

\* A column as its ColumnSchema describes it: NoText for a default or an extra
\* it does not have; index is a set of at most one [name, unique], name that of the column.
NoText == <<"no text">>

Option(present, option) == IF present THEN <<option>> ELSE <<>>
Join(options) == FlattenSeq([n \in DOMAIN options |->
                    IF n = 1 THEN options[n] ELSE <<",">> \o options[n]])

\* Mutant: a column that may be NULL gets no option for it.
WriteWithoutNull(s) ==
  Join(<< <<"type", ":">> \o s.type >>
         \o Option(s.default # NoText, <<"default", ":">> \o s.default)
         \o Option(s.pk, <<"pk">>)
         \o Option(s.auto, <<"autoincrement">>))

\* An index named like its column is written without its name.
Write(s) ==
  Join(<< <<"type", ":">> \o s.type >>
         \o Option(s.default # NoText, <<"default", ":">> \o s.default)
         \o Option(s.pk, <<"pk">>)
         \o Option(s.auto, <<"autoincrement">>)
         \o FlattenSeq(SetToSeq(
              {<< <<IF x.unique THEN "unique" ELSE "index">>
                  \o (IF x.name = <<s.name>> THEN <<>> ELSE <<":">> \o x.name) >> : x \in s.index}))
         \o Option(s.nullable, <<"null">>)
         \o Option(s.extra # NoText, <<"extra", ":">> \o s.extra))

\* reflect.StructTag.Get: the text ends at its first quote; with a backslash that starts
\* no escape of Go there is no text at all.
Get(text) ==
  LET quote == IndexOf(text, "quote")
      value == IF quote = 0 THEN text ELSE SubSeq(text, 1, quote - 1)
  IN  IF "backslash" \in ToSet(value) THEN <<>> ELSE value

-----------------------------------------------------------------------------
(* Reading: tagOptionSplit under a bufio.Scanner, and the options one by one.   *)

\* The commas that end an option: the last parenthesis before them is none, or a ")".
Ends(data) ==
  {i \in DOMAIN data :
     /\ data[i] = ","
     /\ LET paren == SelectLastInSubSeq(data, 1, i, LAMBDA p : p \in {"(", ")"})
        IN  paren = 0 \/ data[paren] = ")"}

Chunk(text) == SubSeq(text, 1, IF Len(text) < Buffer THEN Len(text) ELSE Buffer)
After(text, n) == SubSeq(text, n + 1, Len(text))

\* The options of a window on the text.  A window without a comma is the last option,
\* whatever the rest holds; the next chunk is read when a comma ends the window.
RECURSIVE Scan(_, _)
Scan(window, rest) ==
  IF window = <<>> /\ rest # <<>> THEN Scan(Chunk(rest), After(rest, Buffer))
  ELSE IF Ends(window) = {} THEN <<window>>
  ELSE LET i == Min(Ends(window))
       IN  <<SubSeq(window, 1, i - 1)>> \o Scan(After(window, i), rest)

Options(text) == IF text = <<>> THEN <<>> ELSE Scan(Chunk(text), After(text, Buffer))

HasValue(option) == ":" \in ToSet(option)
Value(option) == IF HasValue(option) THEN After(option, IndexOf(option, ":"))
                 ELSE <<>>
Key(option) == IF HasValue(option) THEN SubSeq(option, 1, IndexOf(option, ":") - 1)
               ELSE option

\* One option, on a field that is not Failed.
Apply(f, option) ==
  LET v == Value(option)
  IN CASE Key(option) = <<"default">> -> [f EXCEPT !.default = IF HasValue(option) THEN v ELSE @]
       [] Key(option) = <<"pk">> -> [f EXCEPT !.pk = TRUE]
       [] Key(option) = <<"autoincrement">> -> [f EXCEPT !.auto = TRUE]
       [] Key(option) = <<"index">> -> [f EXCEPT !.indexes = Append(@, v)]
       [] Key(option) = <<"unique">> -> [f EXCEPT !.uniques = Append(@, v)]
       [] Key(option) = <<"-">> -> [f EXCEPT !.ignore = TRUE]
       [] Key(option) = <<"column">> /\ HasValue(option) -> [f EXCEPT !.column = v]
       [] Key(option) = <<"type">> /\ HasValue(option) -> [f EXCEPT !.type = v]
       [] Key(option) = <<"null">> -> [f EXCEPT !.nullable = TRUE]
       [] Key(option) = <<"extra">> /\ HasValue(option) -> [f EXCEPT !.extra = v]
       [] OTHER -> Failed

Parse(text) ==
  FoldLeft(LAMBDA f, option : IF f = Failed THEN Failed ELSE Apply(f, option),
           NoOptions, Options(text))

\* The tag of a column, read back.  A backquote ends the literal it is written in.
ReadBack(s) == IF "backquote" \in ToSet(Write(s)) THEN Failed ELSE Parse(Get(Write(s)))

\* field.Indexes, field.UniqueIndexes: an index without a name has that of the table and
\* the column.
NamedIn(names, table, column) ==
  [n \in DOMAIN names |-> IF names[n] = <<>> THEN table \o <<"_">> \o column ELSE names[n]]

\* What the options of a column say.
Meant(s) ==
  [NoOptions EXCEPT
     !.type = s.type, !.pk = s.pk, !.auto = s.auto, !.nullable = s.nullable,
     !.default = IF s.default = NoText THEN <<>> ELSE s.default,
     !.extra = IF s.extra = NoText THEN <<>> ELSE s.extra,
     !.indexes = SetToSeq({x.name : x \in {y \in s.index : ~y.unique}}),
     !.uniques = SetToSeq({x.name : x \in {y \in s.index : y.unique}})]

-----------------------------------------------------------------------------
(* The limits: what a tag cannot carry.                                      *)

\* A comma that ends an option, a parenthesis that is left open, or a mark of Go.
Breaks(text) ==
  \/ Ends(text) # {}
  \/ LET paren == SelectLastInSeq(text, LAMBDA p : p \in {"(", ")"})
     IN  paren # 0 /\ text[paren] = "("
  \/ ToSet(text) \intersect {"quote", "backslash", "backquote"} # {}

\* An index named like its column is read back as one without a name.
NamedLikeColumn(s) == \E x \in s.index : x.name = <<s.name>>

Unwritable(s) ==
  \/ \E text \in {s.type, s.default, s.extra} \union {x.name : x \in s.index} : Breaks(text)
  \/ Len(Write(s)) > Buffer
=============================================================================
