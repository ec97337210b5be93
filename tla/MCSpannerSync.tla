--------------------------- MODULE MCSpannerSync ----------------------------
(* Instances of SpannerSync for TLC: two tables, three columns, histories of   *)
(* two or three versions of a source.                                        *)
EXTENDS SpannerSync

MCTables == {"t", "u"}
MCColumns == {"k", "a", "b"}
MCGoNames == {"K", "A", "B"}
D(type, nullable, extra) == [type |-> type, nullable |-> nullable, extra |-> extra]
Types == {"STRING", "BYTES", "INT64", "TIMESTAMP"}
MCDefs == {D(y, n, e) : y \in Types, n \in BOOLEAN, e \in {NoExtra, "true", "false"}}
SliceDefs ==
  {D(y, n, NoExtra) : y \in {"STRING", "BYTES", "INT64"}, n \in BOOLEAN}
    \union {D("TIMESTAMP", n, e) : n \in BOOLEAN, e \in {NoExtra, "true", "false"}}
MCConvertible == {<<"STRING", "BYTES">>, <<"BYTES", "STRING">>}
MCIndexNames == {"x", "k", "a", "b", "t_k", "t_a", "t_b", "u_k", "u_a", "u_b", "PRIMARY_KEY"}
MCDefaultIndex == [p \in MCTables \X MCColumns |-> p[1] \o "_" \o p[2]]
MCRank == [t \in MCTables |-> IF t = "t" THEN 1 ELSE 2]
MCCamel == [c \in MCColumns |-> CASE c = "k" -> "K" [] c = "a" -> "A" [] c = "b" -> "B"]
MCSnake == [n \in MCGoNames |-> CHOOSE c \in MCColumns : MCCamel[c] = n]
MCAsColumn == [c \in MCColumns |-> c]

F(t, n, c, d, p, x, u) ==
  [table |-> t, name |-> n, column |-> c, def |-> d, pk |-> p,
   rawIndexes |-> x, rawUniques |-> u]

Id == D("INT64", FALSE, NoExtra)
Key(t) == F(t, "K", "k", Id, TRUE, <<>>, <<>>)
None == [t \in {} |-> <<>>]
OneTable(lists) == {[t \in {"t"} |-> <<Key("t")>> \o l] : l \in lists}
Two(slice) == {<<s1, s2>> : s1 \in slice, s2 \in slice}

\* A column beside the key that comes, goes and changes in each of its attributes.
DefSlice == OneTable({<<>>} \union {<<F("t", "A", "a", d, FALSE, <<>>, <<>>)>> : d \in SliceDefs})

\* Indexes: plain and unique, named by default or explicitly, of one or two columns.
Tags == {<< <<>>, <<>> >>, << <<Unnamed>>, <<>> >>, << <<"x">>, <<>> >>, << <<>>, <<"x">> >>}
Tagged(n, c) == {F("t", n, c, Id, FALSE, g[1], g[2]) : g \in Tags}
OneKind(l) == ~(\E m, n \in DOMAIN l : l[m].rawIndexes = <<"x">> /\ l[n].rawUniques = <<"x">>)
IndexSlice ==
  OneTable({l \in Tagged("A", "a") \X Tagged("B", "b") : OneKind(l)}
             \union {<<f>> : f \in Tagged("A", "a")})

\* Indexes spelled like a column, or like the default of another column's.
Spelled(n, c, tags) == {F("t", n, c, Id, FALSE, g, <<>>) : g \in tags}
SpelledSlice ==
  OneTable({<<f>> : f \in Spelled("A", "a", {<<>>, <<Unnamed>>, <<"a">>})}
    \union (Spelled("A", "a", {<<>>, <<Unnamed>>, <<"a">>}) \X Spelled("B", "b", {<<>>, <<"t_a">>})))

\* Sources a database cannot hold: two fields of one column, a name for two kinds of index.
Ambiguities ==
  OneTable({<<F("t", "A", "a", Id, FALSE, <<>>, <<>>), F("t", "B", "a", Id, FALSE, x, <<>>)>> :
              x \in {<<>>, <<"x">>}}
    \union {<<F("t", "A", "a", Id, FALSE, <<"x">>, <<>>), F("t", "B", "b", Id, FALSE, <<>>, <<"x">>)>>})

\* Two tables, one or both declared, or none.
Lists(t) == {<<Key(t)>>, <<Key(t), F(t, "A", "a", Id, FALSE, <<Unnamed>>, <<>>)>>}
TwoTables ==
  {None} \union {[u \in {"t"} |-> l] : l \in Lists("t")} \union {[u \in {"u"} |-> l] : l \in Lists("u")}
    \union {[t \in MCTables |-> IF t = "t" THEN l ELSE m] : l \in Lists("t"), m \in Lists("u")}

\* A new column that is asked for in one shape and then in another.
Three == {<<s1, s2, s3>> : s1 \in OneTable({<<>>}), s2 \in DefSlice, s3 \in DefSlice}

MCHistories == Two(DefSlice) \union Two(IndexSlice) \union Two(TwoTables) \union Three
    \union Two(SpelledSlice) \union {<<s1, s2>> : s1 \in SpelledSlice, s2 \in Ambiguities}
=============================================================================
