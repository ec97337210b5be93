---------------------------- MODULE DiffFunction ----------------------------
(***************************************************************************)
(* migu.Diff (src/migu.go) as one function of the source and of the tables  *)
(* it read, for the modules that treat planning as one step.  DiffLoop is   *)
(* the same code loop by loop; its LoopsComputeDiff says that they agree.   *)
(***************************************************************************)
EXTENDS SchemaDiff, SequencesExt

AlterColumns(old, new) ==
  FlattenSeq([n \in DOMAIN new |-> AlterNew(old, new[n])])
    \o FlattenSeq([m \in DOMAIN old |-> AlterOld(new, old[m])])

DroppedColumns(old, new) == {o.column : o \in {p \in ToSet(old) : IsDropped(new, p)}}

\* The indexes makeIndexes gathers from those visits that find no counterpart.
Gather(t, visits, add) ==
  LET gathered[n \in 0..Len(visits)] ==
        IF n = 0 THEN <<>>
        ELSE LET v == visits[n]
             IN  IF v.add = add /\ ~v.kept
                   THEN AddToIndexes(gathered[n - 1], t, v)
                   ELSE gathered[n - 1]
  IN  gathered[Len(visits)]

Gathered(t, old, new, add) ==
  Gather(t, FlattenSeq([n \in DOMAIN new |-> IndexVisits(old, new[n])]), add)

\* Everything emitted for one table; dropped is droppedColumn at its index
\* stage.
TableChanges(t, old, new, exists, dropped, pkModifier) ==
  LET alter == AlterColumns(old, new)
      pk    == IF pkModifier /\ PkChanged(old, new)
                 THEN <<ModifyPrimaryKey(t, old, new)>> ELSE <<>>
      drops == Gathered(t, old, new, FALSE)
      adds  == Gathered(t, old, new, TRUE)
  IN  (IF exists THEN alter \o pk ELSE <<CreateTable(t, new)>>)
        \o FlattenSeq([n \in DOMAIN drops |->
             IF drops[n].columns[1] \in dropped THEN <<>> ELSE <<DropIndex(drops[n])>>])
        \o [n \in DOMAIN adds |-> CreateIndex(adds[n])]

\* sort.Strings(names)
Sorted(names) ==
  {order \in SetToSeqs(names) :
     \A m, n \in DOMAIN order : m < n => Rank[order[m]] < Rank[order[n]]}

OldOf(tables, t) == IF t \in DOMAIN tables THEN tables[t] ELSE <<>>

\* The changes for the declared tables, in an order of theirs.  A column dropped from
\* an earlier table is still in droppedColumn.
ChangesInOrder(order, source, tables, pkModifier) ==
  FlattenSeq([n \in DOMAIN order |->
    LET t == order[n]
        dropped == UNION {DroppedColumns(OldOf(tables, order[m]), source[order[m]]) : m \in 1..n}
    IN  TableChanges(t, OldOf(tables, t), source[t], t \in DOMAIN tables,
                     dropped, pkModifier)])

DeclaredChanges(source, tables, pkModifier) ==
  {ChangesInOrder(order, source, tables, pkModifier) : order \in Sorted(DOMAIN source)}

\* Mutant: the answer is not restricted to the tables asked for.
ReadAll(source, tables) == tables

\* The tables ColumnSchema answers for: those asked for, or all of them when
\* the source declares none.
Read(source, tables) ==
  [t \in DOMAIN tables \intersect
           (IF DOMAIN source = {} THEN Tables ELSE DOMAIN source) |-> tables[t]]

\* The tables left over are dropped in any order: the code ranges over a map.
DropTables(source, tables) ==
  {[n \in DOMAIN order |-> DropTable(order[n])] :
     order \in SetToSeqs(DOMAIN tables \ DOMAIN source)}

\* The results Diff may have.
Diff(source, tables, pkModifier) ==
  LET read == Read(source, tables)
  IN  {declared \o drops : declared \in DeclaredChanges(source, read, pkModifier),
                           drops \in DropTables(source, read)}
=============================================================================
