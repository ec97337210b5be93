----------------------------- MODULE MCDiffLoop -----------------------------
(* Instances of DiffLoop for TLC: two tables, two columns, and the sources  *)
(* and databases of four slices, each varying what one stage of Diff reads. *)
EXTENDS DiffLoop

MCTables == {"t", "u"}
MCColumns == {"a", "b"}
MCGoNames == {"A", "B"}
MCDefs == {"int", "text"}
MCDefaultIndex == [p \in MCTables \X MCColumns |-> p[1] \o "_" \o p[2]]
MCIndexNames == {"x", "t_a", "t_b", "u_a", "u_b"}
MCRank == [t \in MCTables |-> IF t = "t" THEN 1 ELSE 2]

GoName(c) == IF c = "a" THEN "A" ELSE "B"

\* Lists of one or two of the fields, of different columns.
Structs(fields) ==
  {<<f>> : f \in fields}
    \union {l \in fields \X fields : l[1].column # l[2].column}

Fields(t, defs, pks, indexes, uniques) ==
  [table : {t}, name : MCGoNames, column : MCColumns, def : defs, pk : pks,
   rawIndexes : indexes, rawUniques : uniques]

Canonical(fields) == {f \in fields : f.name = GoName(f.column)}

NoIndex == {<<>>}

\* Declarations.
ColumnSlice == Structs(Fields("t", MCDefs, {FALSE}, NoIndex, NoIndex))
KeySlice == Structs(Fields("t", {"int"}, BOOLEAN, NoIndex, NoIndex))
\* Two Go fields of one column, one of them or both in the key.
RepeatedKeySlice ==
  LET fields == Fields("t", {"int"}, BOOLEAN, NoIndex, NoIndex)
  IN  {l \in fields \X fields : /\ l[1].column = l[2].column
                               /\ l[1].name = "A" /\ l[2].name = "B"
                               /\ l[1].pk}
IndexSlice ==
  Structs(Canonical(Fields("t", {"int"}, {FALSE},
                           {<<>>, <<Unnamed>>, <<"x">>, <<"x", "t_a">>},
                           {<<>>, <<"x">>})))

OneTable(lists) == {[t \in {"t"} |-> l] : l \in lists}

\* What the database may hold: columns read back under their own Go name, with
\* at most one index each.
SingleIndex(fields) ==
  {f \in Canonical(fields) : Len(f.rawIndexes) + Len(f.rawUniques) <= 1}
OldColumnSlice ==
  Structs(SingleIndex(Fields("t", MCDefs, {FALSE}, NoIndex, NoIndex)))
OldKeySlice ==
  Structs(SingleIndex(Fields("t", {"int"}, BOOLEAN, NoIndex, NoIndex)))
OldIndexSlice ==
  Structs(SingleIndex(Fields("t", {"int"}, {FALSE},
                             {<<>>, <<Unnamed>>, <<"x">>}, {<<>>, <<"x">>})))

\* Both tables, each with some of its columns, with or without an index.
InOrder(lists) == {l \in lists : Len(l) = 2 => l[1].column = "a"}
TwoTables ==
  LET per(t) == InOrder(Structs(Canonical(
                  Fields(t, {"int"}, {FALSE}, {<<>>, <<"x">>}, NoIndex))))
  IN  UNION {{f \in [T -> UNION {per(t) : t \in T}] :
                \A t \in T : f[t] \in per(t)} : T \in SUBSET MCTables}

MCSources == TwoTables \union OneTable(ColumnSlice \union KeySlice \union RepeatedKeySlice \union IndexSlice)
MCSchemas == TwoTables \union OneTable(OldColumnSlice \union OldKeySlice \union OldIndexSlice)
=============================================================================
