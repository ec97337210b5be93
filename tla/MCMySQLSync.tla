---------------------------- MODULE MCMySQLSync -----------------------------
(* Instances of MySQLSync for TLC: two tables, three columns, histories of   *)
(* two or three versions of a source within one slice.                       *)
EXTENDS MySQLSync

MCTables == {"t", "u"}
MCColumns == {"a", "b", "c"}
MCGoNames == {"A", "B", "C"}
MCDefs == {"int", "text"}
MCIndexNames == {"x", "a", "b", "c", "t_a", "t_b", "t_c", "u_a", "u_b", "u_c", "PRIMARY"}
MCDefaultIndex == [p \in MCTables \X MCColumns |-> p[1] \o "_" \o p[2]]
MCRank == [t \in MCTables |-> IF t = "t" THEN 1 ELSE 2]
MCCamel == [c \in MCColumns |-> CASE c = "a" -> "A" [] c = "b" -> "B" [] c = "c" -> "C"]
MCSnake == [n \in MCGoNames |-> CHOOSE c \in MCColumns : MCCamel[c] = n]
MCAsColumn == [c \in MCColumns |-> c]

F(t, n, c, d, p, x, u) ==
  [table |-> t, name |-> n, column |-> c, def |-> d, pk |-> p,
   rawIndexes |-> x, rawUniques |-> u]

\* One field, or one of each column, in the order of the columns.
Structs(a, b) == {<<f>> : f \in a \union b} \union (a \X b)
OneTable(lists) == {[t \in {"t"} |-> l] : l \in lists}

Plain(t, n, c) == F(t, n, c, "int", FALSE, <<>>, <<>>)

\* Names and definitions: a field may keep its Go name and change its column.
ColumnFields(c) ==
  {F("t", n, c, d, FALSE, <<>>, <<>>) : n \in {"A", "B"}, d \in MCDefs}
ColumnSlice ==
  OneTable({l \in Structs(ColumnFields("a"), ColumnFields("b")) :
              Len(l) = 2 => l[1].name # l[2].name})

\* Primary keys, and a column that changes its name.
KeyVariants(c) == {F("t", MCCamel[c], c, "int", p, <<>>, <<>>) : p \in BOOLEAN}
                  \union {F("t", "A", c, "int", TRUE, <<>>, <<>>)}
KeySlice ==
  OneTable({l \in Structs(KeyVariants("a"), KeyVariants("b")) :
              Len(l) = 2 => l[1].name # l[2].name})

\* Indexes: plain and unique, named by default or explicitly, of one or two
\* columns, and on a column of the key.
Tags == {<< <<>>, <<>> >>, << <<Unnamed>>, <<>> >>, << <<"x">>, <<>> >>, << <<>>, <<"x">> >>}
IndexFields(c) == {F("t", MCCamel[c], c, "int", FALSE, g[1], g[2]) : g \in Tags}
OneKind(l) == ~(\E m, n \in DOMAIN l : l[m].rawIndexes = <<"x">> /\ l[n].rawUniques = <<"x">>)
IndexSlice == OneTable({l \in Structs(IndexFields("a"), IndexFields("b")) : OneKind(l)})

\* All of them together: a renamed column with an index, a key column with an
\* index, an index of a name two fields share.
MixedFields(c) ==
  {F("t", n, c, "int", FALSE, x, <<>>) : n \in {"A", "B"}, x \in {<<>>, <<Unnamed>>, <<"x">>}}
    \union {F("t", MCCamel[c], c, "int", TRUE, x, <<>>) : x \in {<<>>, <<"x">>}}
MixedSlice ==
  OneTable({l \in Structs(MixedFields("a"), MixedFields("b")) :
              Len(l) = 2 => l[1].name # l[2].name})

\* Indexes spelled like a column, or like the default of another column's.
Indexed(c, tags) == {F("t", MCCamel[c], c, "int", FALSE, g, <<>>) : g \in tags}
SpelledSlice ==
  OneTable(Structs(Indexed("a", {<<>>, <<Unnamed>>, <<"a">>}), Indexed("b", {<<>>, <<"t_a">>})))

\* One of two columns, which goes first, and the default of it on a third.
SpelledOfTwo ==
  OneTable(Indexed("b", {<<>>, <<"a">>}) \X Indexed("a", {<<>>, <<"a">>})
             \X Indexed("c", {<<>>, <<"t_a">>}))

\* Sources a database cannot hold: two fields of one column, a name for two kinds of
\* index, an index named twice by a field.
Ambiguities ==
  OneTable({<<Plain("t", "A", "a"), F("t", "B", "a", d, FALSE, x, <<>>)>> :
              d \in MCDefs, x \in {<<>>, <<"x">>}}
    \union {<<F("t", "A", "a", "int", FALSE, <<"x">>, <<>>), F("t", "B", "b", "int", FALSE, x, <<"x">>)>> :
              x \in {<<>>, <<"x">>}}
    \union {<<F("t", "A", "a", "int", FALSE, <<"x", "x">>, <<>>)>>})

\* Two tables, one or both declared, or none.
TwoTables ==
  LET ts == {<<Plain("t", "A", "a")>>, <<Plain("t", "B", "b")>>,
             <<Plain("t", "A", "a"), Plain("t", "B", "b")>>}
      us == {<<Plain("u", "A", "a")>>,
             <<F("u", "A", "a", "int", FALSE, <<"x">>, <<>>)>>,
             <<Plain("u", "A", "a"), Plain("u", "B", "b")>>}
  IN  {None} \union {[t \in {"t"} |-> l] : l \in ts} \union {[t \in {"u"} |-> l] : l \in us}
        \union {[t \in MCTables |-> IF t = "t" THEN l ELSE m] : l \in ts, m \in us}

Two(slice) == {<<s1, s2>> : s1 \in slice, s2 \in slice}

\* The source is edited after some runs, the last of which may have failed half
\* way: a column comes, goes or changes its name, gets an index or the key.
EditSlice ==
  OneTable({<<Plain("t", "A", "a")>>,
            <<Plain("t", "A", "b")>>,
            <<Plain("t", "A", "a"), Plain("t", "B", "b")>>,
            <<F("t", "A", "a", "int", FALSE, <<Unnamed>>, <<>>)>>,
            <<F("t", "A", "a", "text", TRUE, <<>>, <<>>), Plain("t", "B", "b")>>})

\* A column changes its name while another comes, which may be named after it.
ChainSlice ==
  OneTable({<<Plain("t", "A", "a")>>}
    \union {<<Plain("t", m, "b"), Plain("t", n, "c")>> :
              <<m, n>> \in {q \in MCGoNames \X MCGoNames : q[1] # q[2]}})
Three(slice) == slice \X slice \X slice

MCHistories ==
  Two(ColumnSlice) \union Two(KeySlice) \union Two(IndexSlice) \union Two(TwoTables)
    \union Two(MixedSlice) \union Two(ChainSlice) \union Three(EditSlice)
    \union Two(SpelledSlice) \union Two(SpelledOfTwo)
    \union {<<s1, s2>> : s1 \in SpelledSlice, s2 \in Ambiguities}
MCIndexHistories == Two(IndexSlice)

\* The histories two overlapping runs are explored on.
MCOverlapHistories ==
  Two(KeySlice) \union Two(TwoTables)
    \union {h \in Two(IndexSlice) : Len(h[2]["t"]) = 2}
    \union Two(ChainSlice)
    \union {h \in Two(ColumnSlice) : Len(h[2]["t"]) = 2 /\ Len(h[1]["t"]) = 2}
=============================================================================
