------------------------------ MODULE Annotation ------------------------------
(***************************************************************************)
(* The annotation of a struct (src/annotation.go): the line of its comment     *)
(* that starts with +migu, and the `table` and `option` it may give.  A        *)
(* comment is the sequence of its parts: <<"//", "+migu", " ", "table", ":",   *)
(* "quote", "guest", "quote">>.                                              *)
(***************************************************************************)
EXTENDS StructTag

marker == "+migu"

NoAnnotation == [table |-> <<>>, option |-> <<>>]
Unmarked == [unmarked |-> TRUE]

Blanks(text, from) == {i \in from..Len(text) : text[i] = " "}
Words(text) == (DOMAIN text) \ Blanks(text, 1)
TrimSpace(text) ==
  IF Words(text) = {} THEN <<>> ELSE SubSeq(text, Min(Words(text)), Max(Words(text)))

-----------------------------------------------------------------------------
(* splitAnnotationTags.                                                     *)

First(S, otherwise) == IF S = {} THEN otherwise ELSE Min(S)

\* Mutant: the first quote ends the value, escaped or not.
ClosingFirst(data, from, quote) == First({i \in from..Len(data) : data[i] = quote}, 0)

\* The quote that ends a value: not one after a backslash, in double quotes.
Closing(data, from, quote) ==
  First({i \in from..Len(data) :
           data[i] = quote /\ (quote = "quote" => data[i - 1] # "backslash")}, 0)

\* Where the first tag of the data ends; 0 if it is no tag.
TagEnd(data) ==
  LET colon == IndexOf(data, ":")
  IN  IF colon = 0 \/ colon = Len(data) \/ colon = First(Words(data), 0) THEN 0
      ELSE IF data[colon + 1] \in {"quote", "backquote"}
        THEN Closing(data, colon + 2, data[colon + 1])
      ELSE IF data[colon + 1] = " " THEN 0
      ELSE First(Blanks(data, colon + 1), Len(data) + 1) - 1

\* strconv.Unquote between double quotes; a lone backslash starts no escape here.
RECURSIVE Unquoted(_)
Unquoted(text) ==
  IF text = <<>> THEN <<>>
  ELSE IF text[1] # "backslash" THEN <<text[1]>> \o Unquoted(Tail(text))
  ELSE IF Len(text) > 1 /\ text[2] \in {"quote", "backslash"}
    THEN <<text[2]>> \o Unquoted(After(text, 2))
  ELSE <<"bad escape">>

parseString(text) ==
  CASE text[1] = "quote" -> Unquoted(SubSeq(text, 2, Len(text) - 1))
    [] text[1] = "backquote" -> SubSeq(text, 2, Len(text) - 1)
    [] OTHER -> text

-----------------------------------------------------------------------------
(* parseAnnotation.                                                         *)

\* One tag.
Assign(a, tag) ==
  LET value == parseString(Value(tag))
  IN  IF "bad escape" \in ToSet(value) THEN Failed
      ELSE CASE Key(tag) = <<"table">> -> [a EXCEPT !.table = value]
             [] Key(tag) = <<"option">> -> [a EXCEPT !.option = value]
             [] OTHER -> Failed

\* The tags of a window on the text, the rest of which is read when it is used up.
RECURSIVE Annotate(_, _, _)
Annotate(a, window, rest) ==
  IF a = Failed \/ (window = <<>> /\ rest = <<>>) THEN a
  ELSE IF window = <<>> THEN Annotate(a, Chunk(rest), After(rest, Buffer))
  ELSE LET end == TagEnd(window)
       IN  IF end = 0 THEN Failed
           ELSE Annotate(Assign(a, TrimSpace(SubSeq(window, 1, end))), After(window, end), rest)

\* What stands behind the marker, for the comments that have one.
Marked(comment) ==
  LET s == IF comment[1] = "//" THEN TrimSpace(Tail(comment)) ELSE <<>>
  IN  IF s # <<>> /\ s[1] = marker /\ (Len(s) = 1 \/ s[2] = " ") THEN {Tail(s)} ELSE {}

\* The first comment of a group with the marker decides.
parseAnnotation(doc) ==
  LET marked == SelectSeq(doc, LAMBDA c : Marked(c) # {})
      text   == CHOOSE t \in Marked(marked[1]) : TRUE
  IN  IF marked = <<>> THEN Unmarked
      ELSE Annotate(NoAnnotation, Chunk(text), After(text, Buffer))

-----------------------------------------------------------------------------

\* The limit: a value that ends with an escaped backslash hides its closing quote.
HiddenEnd(text) == text # <<>> /\ Last(text) = "backslash"
=============================================================================
