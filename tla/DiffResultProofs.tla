--------------------------- MODULE DiffResultProofs ---------------------------
(***************************************************************************)
(* What Diff returns: nothing for a database that agrees with the source,   *)
(* and always one of the results of the function Diff.  Both hold of        *)
(* DiffLoop for every source and database.                                  *)
(***************************************************************************)
EXTENDS DiffLoopProofs

-----------------------------------------------------------------------------
(* Source and database agree.                                              *)

\* In a list where names are unambiguous, the column of a field is the key of that field only.
LEMMA OnlyKey ==
  ASSUME NEW old \in Seq(Field), Unambiguous(old), NEW m \in DOMAIN old
  PROVE  Keyed(old, old[m].column) = {m} /\ LastOf({m}) = m
<1>1. Keyed(old, old[m].column) = {m}
  BY DEF Keyed, Unambiguous
<1>2. m \in Nat
  BY FieldsOf
<1>3. QED BY <1>1, <1>2 DEF LastOf

\* Lists of fields that agree call for no change of a column or of the key.
LEMMA AgreeingColumns ==
  ASSUME NEW old \in Seq(Field), NEW new \in Seq(Field), Agree(old, new)
  PROVE  /\ \A n \in DOMAIN new : AlterNew(old, new[n]) = <<>>
         /\ \A m \in DOMAIN old : AlterOld(new, old[m]) = <<>>
         /\ ~PkChanged(old, new)
<1>0. /\ \A n \in DOMAIN new : \E m \in DOMAIN old : old[m].column = new[n].column
      /\ \A m \in DOMAIN old : \E n \in DOMAIN new : old[m].column = new[n].column
  <2>1. ColumnsOf(old) = ColumnsOf(new)
    BY DEF Agree
  <2>2. (\A n \in DOMAIN new : new[n].column \in ColumnsOf(old))
        /\ (\A m \in DOMAIN old : old[m].column \in ColumnsOf(new))
    BY <2>1, FieldsOf
  <2>3. QED BY <2>2 DEF ColumnsOf
<1>1. ASSUME NEW n \in DOMAIN new PROVE AlterNew(old, new[n]) = <<>>
  <2>1. PICK m \in DOMAIN old : old[m].column = new[n].column
    BY <1>0
  <2>2. OldField(old, new[n]) = {old[m]}
    <3>1. Unambiguous(old)
      BY DEF Agree
    <3>2. Keyed(old, new[n].column) = {m} /\ LastOf({m}) = m
      BY <2>1, <3>1, OnlyKey
    <3>3. QED BY <3>2 DEF OldField
  <2>3. ~IsDifferent(old[m], new[n])
    BY <2>1 DEF Agree, IsDifferent
  <2>4. QED BY <2>2, <2>3 DEF AlterNew
<1>2. ASSUME NEW m \in DOMAIN old PROVE AlterOld(new, old[m]) = <<>>
  <2>1. Keyed(new, old[m].column) # {}
    BY <1>0 DEF Keyed
  <2>2. QED BY <2>1 DEF AlterOld, IsDropped
<1>3. ~PkChanged(old, new)
  BY SameKeyUnchanged DEF Agree
<1>4. QED BY <1>1, <1>2, <1>3

\* Every visit of makeIndexes finds its counterpart.
LEMMA AgreeingIndexes ==
  ASSUME NEW old \in Seq(Field), NEW new \in Seq(Field), Agree(old, new), NEW n \in DOMAIN new
  PROVE  \A k \in DOMAIN IndexVisits(old, new[n]) : IndexVisits(old, new[n])[k].kept
<1> DEFINE vs == IndexVisits(old, new[n])
<1> SUFFICES ASSUME NEW k \in DOMAIN vs, ~vs[k].kept PROVE FALSE
  OBVIOUS
<1>1. new[n] \in Field
  BY FieldsOf
<1>2. vs[k] \in Visit /\ VisitOf(old, new[n], vs[k])
  BY <1>1, IndexVisitsType, LenProperties, ElementOfSeq
<1> DEFINE v == vs[k]
<1> HIDE DEF vs, v
<1>3. v \in Visit /\ VisitOf(old, new[n], v) /\ ~v.kept
  BY <1>2 DEF v
<1>4. v.name \in IndexNames /\ v.unique \in BOOLEAN /\ v.add \in BOOLEAN
  BY <1>3 DEF Visit
<1>5. \A m \in DOMAIN old :
        old[m].column = new[n].column =>
          (InStrings(Names(old[m], v.unique), v.name) <=> InStrings(Names(new[n], v.unique), v.name))
  BY <1>4 DEF Agree, SameNames, Names
<1>6. new[n].column \in ColumnsOf(old)
  BY DEF Agree, ColumnsOf
<1>7. CASE v.add
  BY <1>3, <1>5, <1>6, <1>7 DEF VisitOf, LacksIndex
<1>8. CASE ~v.add
  BY <1>3, <1>5, <1>8 DEF VisitOf, HasIndex
<1>9. QED BY <1>7, <1>8

-----------------------------------------------------------------------------

\* The database is what the source declares.
InSync ==
  /\ DOMAIN schema \intersect Requested = DOMAIN src
  /\ \A t \in DOMAIN src : Agree(schema[t], src[t])

Quiet == migrations = <<>> /\ dropIndexes = <<>> /\ addIndexes = <<>> /\ pc # "create"

\* In an iteration on such a database, both sides agree.
LEMMA SidesAgree ==
  ASSUME DueInv, InSync, pc \in Inner
  PROVE  Old \in Seq(Field) /\ New \in Seq(Field) /\ Agree(Old, New)
<1>1. TypeInv /\ ReadInv
  BY DEF DueInv
<1>2. Old \in Seq(Field) /\ New \in Seq(Field)
  BY <1>1, SidesType
<1>3. cur \in DOMAIN src /\ cur \in DOMAIN schema
  BY <1>1 DEF TypeInv, LoopInv, InSync
<1>4. Old = schema[cur] /\ New = src[cur]
  BY <1>1, <1>3, OldIsRead DEF OldFields, New
<1>5. QED BY <1>2, <1>3, <1>4 DEF InSync

\* While source and database agree, no step emits anything.
LEMMA QuietStep ==
  ASSUME DueInv, InSync, Quiet, [Next]_vars
  PROVE  Quiet'
<1>1. /\ TypeInv /\ LoopInv /\ ReadInv /\ names \subseteq DOMAIN src
      /\ migrations = <<>> /\ dropIndexes = <<>> /\ addIndexes = <<>> /\ pc # "create"
      /\ <<>> \o <<>> = <<>>
  BY EmptySeq, ConcatEmptySeq DEF DueInv, TypeInv, TypeOK, Quiet
<1>2. CASE GetTableMap
  BY <1>1, <1>2 DEF GetTableMap, Quiet
<1>3. CASE NextTable
  <2>1. PICK t \in names : pc' = IF t \in DOMAIN tableMap THEN "alterNew" ELSE "create"
    BY <1>3 DEF NextTable
  <2>2. t \in DOMAIN tableMap
    BY <1>1, <1>3 DEF NextTable, ReadInv, Pending, InSync
  <2>3. QED BY <1>1, <1>3, <2>1, <2>2 DEF NextTable, Quiet
<1>4. CASE CreateTableStep
  BY <1>1, <1>4 DEF CreateTableStep
<1>5. CASE AlterNewField
  <2>1. pc \in Inner
    BY <1>5 DEF AlterNewField, Inner, Altering
  <2>2. i \in DOMAIN New => AlterNew(Old, New[i]) = <<>>
    BY <2>1, SidesAgree, AgreeingColumns
  <2>3. QED BY <1>1, <1>5, <2>2 DEF AlterNewField, Quiet
<1>6. CASE AlterOldField
  <2>1. pc \in Inner
    BY <1>6 DEF AlterOldField, Inner, Altering
  <2>2. i \in DOMAIN Old => AlterOld(New, Old[i]) = <<>>
    BY <2>1, SidesAgree, AgreeingColumns
  <2>3. QED BY <1>1, <1>6, <2>2 DEF AlterOldField, Quiet
<1>7. CASE PrimaryKey
  <2>1. pc \in Inner
    BY <1>7 DEF PrimaryKey, Inner, Altering
  <2>2. ~PkChanged(Old, New)
    BY <2>1, SidesAgree, AgreeingColumns
  <2>3. QED BY <1>1, <1>7, <2>2 DEF PrimaryKey, Quiet
<1>8. CASE VisitIndex
  <2>1. pc \in Inner /\ i \in DOMAIN New
    BY <1>8 DEF VisitIndex, Inner, Indexing
  <2>2. j \in DOMAIN IndexVisits(Old, New[i]) => IndexVisits(Old, New[i])[j].kept
    BY <2>1, SidesAgree, AgreeingIndexes
  <2>3. QED BY <1>1, <1>8, <2>2 DEF VisitIndex, Quiet
<1>9. CASE DropLeftover
  <2>1. PICK t \in DOMAIN tableMap : TRUE
    BY <1>9 DEF DropLeftover
  <2>2. t \in DOMAIN src
    BY <1>1 DEF ReadInv, InSync
  <2>3. FALSE
    BY <1>1, <1>9, <2>2 DEF DropLeftover, ReadInv, Pending, Inner, Altering, Indexing
  <2>4. QED BY <2>3
<1>10. CASE DropIndexStep \/ AddIndexStep
  BY <1>1, <1>10 DEF DropIndexStep, AddIndexStep
<1>11. CASE Fail \/ EndMakeIndexes \/ EndDropIndexes \/ EndTable \/ EndTables \/ Return \/ UNCHANGED vars
  BY <1>1, <1>11
  DEF Fail, EndMakeIndexes, EndDropIndexes, EndTable, EndTables, Return, vars, Quiet
<1>12. QED
  BY <1>2, <1>3, <1>4, <1>5, <1>6, <1>7, <1>8, <1>9, <1>10, <1>11 DEF Next

\* Diff on a database that already is what the source declares emits nothing, whatever the
\* Go fields are called and in whatever order the columns are.
THEOREM DiffOfEqualIsEmpty == Spec => []NothingToDo
<1> DEFINE QuietInv == InSync => Quiet
<1>1. Init => QuietInv
  BY DEF Init, Quiet
<1>2. DueInv /\ QuietInv /\ [Next]_vars => QuietInv'
  <2>1. [Next]_vars => (InSync' <=> InSync)
    BY SourcesKept DEF InSync, Requested
  <2>2. QED BY <2>1, QuietStep
<1>3. QuietInv => NothingToDo
  BY DEF NothingToDo, InSync, Quiet
<1> HIDE DEF QuietInv
<1>4. QED BY <1>1, <1>2, <1>3, DueInvHolds, PTL DEF Spec

-----------------------------------------------------------------------------
(* The loops and the function.  Every statement is one the function has at  *)
(* that place: migrations is what ChangesInOrder says of the tables that    *)
(* are done, followed by what was said so far of this one.                  *)

\* The tables Diff read.
Answer == Read(src, schema)

\* What the loops over the new and over the old fields say at each of them, the indexes
\* makeIndexes visits there, and what the loops over the gathered indexes say.
NewSaid(old, new) == [n \in DOMAIN new |-> AlterNew(old, new[n])]
OldSaid(old, new) == [m \in DOMAIN old |-> AlterOld(new, old[m])]
FieldVisits(old, new) == [n \in DOMAIN new |-> IndexVisits(old, new[n])]
DropsSaid(drops, dropped) ==
  [n \in DOMAIN drops |-> IF drops[n].columns[1] \in dropped THEN <<>> ELSE <<DropIndex(drops[n])>>]
CreatesSaid(adds) == [n \in DOMAIN adds |-> CreateIndex(adds[n])]

\* The first k elements of a list, and the others.
Taken(xs, k) == [n \in 1..k |-> xs[n]]
Rest(xs, k) == [n \in 1..(Len(xs) - k) |-> xs[n + k]]

DroppedUpTo(old, new, k) == {old[m].column : m \in {l \in 1..k : IsDropped(new, old[l])}}

\* The visits of the first n new fields, and k of the next.
VisitsUpTo(old, new, n, k) ==
  Joined(FieldVisits(old, new), n) \o Taken(FieldVisits(old, new)[n + 1], k)

\* What is said of a table before its indexes.
KeySaid(t, old, new) ==
  IF PrimaryKeyModifier /\ PkChanged(old, new) THEN <<ModifyPrimaryKey(t, old, new)>> ELSE <<>>
FieldsSaid(t, old, new) ==
  IF t \in DOMAIN Answer THEN AlterColumns(old, new) \o KeySaid(t, old, new) ELSE <<CreateTable(t, new)>>

\* so is what has been said of the table of this iteration; before is droppedColumn as the
\* tables that are done left it.
Said(t, old, new, before, so) ==
  /\ pc = "create" => so = <<>> /\ droppedColumn = before
  /\ pc = "alterNew" =>
       /\ i - 1 <= Len(new)
       /\ so = Joined(NewSaid(old, new), i - 1)
       /\ droppedColumn = before
  /\ pc = "alterOld" =>
       /\ i - 1 <= Len(old)
       /\ so = FlattenSeq(NewSaid(old, new)) \o Joined(OldSaid(old, new), i - 1)
       /\ droppedColumn = before \union DroppedUpTo(old, new, i - 1)
  /\ pc = "primaryKey" => so = AlterColumns(old, new)
  /\ pc \in {"primaryKey"} \union Indexing =>
       droppedColumn = before \union DroppedColumns(old, new)
  /\ pc = "indexes" =>
       /\ i - 1 <= Len(new)
       /\ IF i <= Len(new) THEN j - 1 <= Len(IndexVisits(old, new[i])) ELSE j = 1
       /\ so = FieldsSaid(t, old, new)
       /\ dropIndexes = Gather(t, VisitsUpTo(old, new, i - 1, j - 1), FALSE)
       /\ addIndexes = Gather(t, VisitsUpTo(old, new, i - 1, j - 1), TRUE)
  /\ pc = "dropIndexes" =>
       /\ addIndexes = Gathered(t, old, new, TRUE)
       /\ \E k \in 0..Len(Gathered(t, old, new, FALSE)) :
            /\ dropIndexes = Rest(Gathered(t, old, new, FALSE), k)
            /\ so = FieldsSaid(t, old, new)
                      \o Joined(DropsSaid(Gathered(t, old, new, FALSE), droppedColumn), k)
  /\ pc = "addIndexes" =>
       \E k \in 0..Len(Gathered(t, old, new, TRUE)) :
         /\ addIndexes = Rest(Gathered(t, old, new, TRUE), k)
         /\ so = (FieldsSaid(t, old, new)
                    \o FlattenSeq(DropsSaid(Gathered(t, old, new, FALSE), droppedColumn)))
                   \o Taken(CreatesSaid(Gathered(t, old, new, TRUE)), k)

\* The tables that are done, in their order, and what was said since.
Computed(order, so) ==
  /\ migrations = ChangesInOrder(order, src, Answer, PrimaryKeyModifier) \o so
  /\ \A t \in Pending : \A n \in DOMAIN order : Rank[order[n]] < Rank[t]
  /\ pc \in Inner => Said(cur, Old, New, DroppedBy(order, src, Answer), so)
  /\ pc \notin Inner =>
       /\ droppedColumn = DroppedBy(order, src, Answer)
       /\ \E o \in SetToSeqs((DOMAIN Answer \ DOMAIN src) \ DOMAIN tableMap) :
            so = [n \in DOMAIN o |-> DropTable(o[n])]

ComputedInv ==
  /\ pc = "start" => migrations = <<>> /\ droppedColumn = {}
  /\ pc \in Inner => \A u \in names : Rank[cur] < Rank[u]
  /\ pc \notin {"start", "failed"} =>
       \E order \in Sorted(DOMAIN src \ Pending) : \E so \in Seq(Change) : Computed(order, so)

\* The elements of a list are taken one by one, until they all are.
LEMMA TakenSteps ==
  ASSUME NEW S, NEW xs \in Seq(S)
  PROVE  /\ \A k \in 0..Len(xs) : Taken(xs, k) \in Seq(S)
         /\ \A k \in 1..Len(xs) : Taken(xs, k) = Append(Taken(xs, k - 1), xs[k])
         /\ Taken(xs, Len(xs)) = xs
<1>1. DOMAIN xs = 1..Len(xs) /\ Len(xs) \in Nat /\ \A n \in 1..Len(xs) : xs[n] \in S
  BY LenProperties, ElementOfSeq
<1>2. ASSUME NEW k \in 0..Len(xs)
      PROVE  Taken(xs, k) \in Seq(S) /\ Len(Taken(xs, k)) = k
  <2>1. Taken(xs, k) \in [1..k -> S] /\ k \in Nat
    BY <1>1 DEF Taken
  <2>2. Taken(xs, k) \in Seq(S)
    BY <2>1, SeqDef
  <2>3. QED BY <2>1, <2>2, LenProperties
<1>3. ASSUME NEW k \in 1..Len(xs) PROVE Taken(xs, k) = Append(Taken(xs, k - 1), xs[k])
  <2> DEFINE ys == Taken(xs, k - 1)
             zs == Append(ys, xs[k])
  <2>1. k - 1 \in 0..Len(xs) /\ k \in 0..Len(xs) /\ xs[k] \in S /\ (k - 1) + 1 = k
    BY <1>1
  <2>2. ys \in Seq(S) /\ Len(ys) = k - 1 /\ \A n \in 1..(k - 1) : ys[n] = xs[n]
    BY <1>2, <2>1 DEF Taken
  <2> HIDE DEF ys
  <2>3. /\ zs \in Seq(S) /\ Len(zs) = k
        /\ \A n \in 1..(k - 1) : zs[n] = xs[n]
        /\ zs[k] = xs[k]
    BY <2>1, <2>2, AppendProperties
  <2>4. Taken(xs, k) \in Seq(S) /\ Len(Taken(xs, k)) = k /\ \A n \in 1..k : Taken(xs, k)[n] = xs[n]
    BY <1>2, <2>1 DEF Taken
  <2> HIDE DEF zs
  <2>5. \A n \in 1..k : n \in 1..(k - 1) \/ n = k
    OBVIOUS
  <2>6. Taken(xs, k) = zs
    BY <2>3, <2>4, <2>5, SeqEqual
  <2>7. QED BY <2>6 DEF zs, ys
<1>4. Taken(xs, Len(xs)) = xs
  <2>1. xs = [n \in 1..Len(xs) |-> xs[n]]
    BY <1>1, SeqDef
  <2>2. QED BY <2>1 DEF Taken
<1>5. QED BY <1>2, <1>3, <1>4

\* None is taken.
LEMMA TakenNone == \A xs : Taken(xs, 0) = <<>>
BY DEF Taken

\* A list is used up from its head.
LEMMA RestSteps ==
  ASSUME NEW S, NEW xs \in Seq(S)
  PROVE  /\ Rest(xs, 0) = xs
         /\ \A k \in 0..Len(xs) : Rest(xs, k) = <<>> => k = Len(xs)
         /\ \A k \in 0..Len(xs) : Rest(xs, k) # <<>> =>
              /\ k + 1 \in 1..Len(xs)
              /\ Head(Rest(xs, k)) = xs[k + 1]
              /\ Tail(Rest(xs, k)) = Rest(xs, k + 1)
<1>1. DOMAIN xs = 1..Len(xs) /\ Len(xs) \in Nat /\ \A n \in 1..Len(xs) : xs[n] \in S
  BY LenProperties, ElementOfSeq
<1>2. ASSUME NEW k \in 0..Len(xs)
      PROVE  /\ Rest(xs, k) \in Seq(S) /\ Len(Rest(xs, k)) = Len(xs) - k
             /\ \A n \in 1..(Len(xs) - k) : Rest(xs, k)[n] = xs[n + k]
  <2>1. Rest(xs, k) \in [1..(Len(xs) - k) -> S] /\ Len(xs) - k \in Nat
    BY <1>1 DEF Rest
  <2>2. Rest(xs, k) \in Seq(S)
    BY <2>1, SeqDef
  <2>3. QED BY <2>1, <2>2, LenProperties DEF Rest
<1>3. Rest(xs, 0) = xs
  <2>1. Len(xs) - 0 = Len(xs) /\ \A n \in 1..Len(xs) : n + 0 = n
    BY <1>1
  <2>2. Rest(xs, 0) = [n \in 1..Len(xs) |-> xs[n]]
    BY <2>1 DEF Rest
  <2>3. xs = [n \in 1..Len(xs) |-> xs[n]]
    BY <1>1, SeqDef
  <2>4. QED BY <2>2, <2>3
<1>4. ASSUME NEW k \in 0..Len(xs), Rest(xs, k) = <<>> PROVE k = Len(xs)
  <2>1. Len(Rest(xs, k)) = 0 /\ Len(Rest(xs, k)) = Len(xs) - k
    BY <1>2, <1>4, EmptySeq, SMTT(30)
  <2>2. Len(xs) - k = 0 /\ Len(xs) \in Nat
    BY <1>1, <2>1
  <2>3. QED BY <2>2
<1>5. ASSUME NEW k \in 0..Len(xs), Rest(xs, k) # <<>>
      PROVE  /\ k + 1 \in 1..Len(xs)
             /\ Head(Rest(xs, k)) = xs[k + 1]
             /\ Tail(Rest(xs, k)) = Rest(xs, k + 1)
  <2>1. PICK ys, zs, m : ys = Rest(xs, k) /\ zs = Rest(xs, m) /\ m = k + 1
    OBVIOUS
  <2>2. /\ ys \in Seq(S) /\ ys # <<>> /\ Len(ys) = Len(xs) - k
        /\ \A n \in 1..(Len(xs) - k) : ys[n] = xs[n + k]
    BY <1>2, <1>5, <2>1
  <2>3. Len(ys) # 0
    BY <2>2, EmptySeq
  <2>4. m \in 1..Len(xs) /\ m \in 0..Len(xs) /\ 1 \in 1..(Len(xs) - k) /\ 1 + k = m
    <3>1. Len(xs) - k # 0 /\ m = k + 1
      BY <2>1, <2>2, <2>3
    <3>2. Len(xs) \in Nat /\ k \in 0..Len(xs)
      BY <1>1
    <3> DEFINE L == Len(xs)
    <3> HIDE DEF L
    <3>3. L \in Nat /\ k \in 0..L /\ L - k # 0
      BY <3>1, <3>2 DEF L
    <3>4. m \in 1..L /\ m \in 0..L /\ 1 \in 1..(L - k) /\ 1 + k = m
      BY <3>1, <3>3
    <3>5. QED BY <3>4 DEF L
  <2>5. zs \in Seq(S) /\ Len(zs) = Len(xs) - m /\ \A n \in 1..(Len(xs) - m) : zs[n] = xs[n + m]
    BY <1>2, <2>1, <2>4
  <2>6. /\ Tail(ys) \in Seq(S) /\ Len(Tail(ys)) = Len(ys) - 1
        /\ \A n \in 1..Len(Tail(ys)) : Tail(ys)[n] = ys[n + 1]
        /\ Head(ys) = ys[1]
    BY <2>2, HeadTailProperties
  <2>7. Len(Tail(ys)) = Len(zs)
    BY <1>1, <2>1, <2>2, <2>5, <2>6
  <2>8. ASSUME NEW n \in 1..Len(zs) PROVE Tail(ys)[n] = zs[n]
    <3>1. /\ n \in 1..Len(Tail(ys)) /\ n + 1 \in 1..(Len(xs) - k) /\ n \in 1..(Len(xs) - m)
          /\ (n + 1) + k = n + m
      BY <1>1, <2>1, <2>2, <2>5, <2>7
    <3>2. QED BY <2>2, <2>5, <2>6, <3>1
  <2>9. Tail(ys) = zs
    BY <2>5, <2>6, <2>7, <2>8, SeqEqual
  <2>10. Head(ys) = xs[m]
    BY <2>2, <2>4, <2>6
  <2>11. QED BY <2>1, <2>4, <2>9, <2>10
<1>6. QED BY <1>3, <1>4, <1>5

\* The columns an iteration drops, one by one.
LEMMA DroppedSteps ==
  ASSUME NEW old \in Seq(Field), NEW new
  PROVE  /\ DroppedUpTo(old, new, 0) = {}
         /\ \A k \in 1..Len(old) :
              DroppedUpTo(old, new, k) =
                DroppedUpTo(old, new, k - 1) \union (IF IsDropped(new, old[k]) THEN {old[k].column} ELSE {})
         /\ DroppedUpTo(old, new, Len(old)) = DroppedColumns(old, new)
<1>1. DOMAIN old = 1..Len(old) /\ Len(old) \in Nat
  BY LenProperties
<1>2. DroppedUpTo(old, new, 0) = {}
  BY DEF DroppedUpTo
<1>3. ASSUME NEW k \in 1..Len(old)
      PROVE  DroppedUpTo(old, new, k) =
               DroppedUpTo(old, new, k - 1) \union (IF IsDropped(new, old[k]) THEN {old[k].column} ELSE {})
  <2>1. \A l : l \in 1..k <=> (l \in 1..(k - 1) \/ l = k)
    OBVIOUS
  <2>2. QED BY <2>1 DEF DroppedUpTo
<1>4. DroppedUpTo(old, new, Len(old)) = DroppedColumns(old, new)
  BY <1>1 DEF DroppedUpTo, DroppedColumns, ToSet
<1>5. QED BY <1>2, <1>3, <1>4

\* What the loops say and visit is made of changes and of visits.
LEMMA SaidTypes ==
  ASSUME NEW old \in Seq(Field), NEW new \in Seq(Field)
  PROVE  /\ NewSaid(old, new) \in [1..Len(new) -> Seq(Change)]
         /\ OldSaid(old, new) \in [1..Len(old) -> Seq(Change)]
         /\ FieldVisits(old, new) \in [1..Len(new) -> Seq(Visit)]
<1>1. /\ DOMAIN old = 1..Len(old) /\ DOMAIN new = 1..Len(new)
      /\ \A m \in DOMAIN old : old[m] \in Field
      /\ \A n \in DOMAIN new : new[n] \in Field
  BY FieldsOf
<1>2. NewSaid(old, new) \in [1..Len(new) -> Seq(Change)]
  BY <1>1, AlterTypes DEF NewSaid
<1>3. OldSaid(old, new) \in [1..Len(old) -> Seq(Change)]
  BY <1>1, AlterTypes DEF OldSaid
<1>4. FieldVisits(old, new) \in [1..Len(new) -> Seq(Visit)]
  BY <1>1, IndexVisitsType DEF FieldVisits
<1>5. QED BY <1>2, <1>3, <1>4

\* The gathered indexes and what is said of them.
LEMMA GatheredSaid ==
  ASSUME NEW t \in Tables, NEW old \in Seq(Field), NEW new \in Seq(Field), NEW dropped
  PROVE  LET drops == Gathered(t, old, new, FALSE)
             adds  == Gathered(t, old, new, TRUE)
         IN  /\ drops \in Seq(Index) /\ DropsSaid(drops, dropped) \in [1..Len(drops) -> Seq(Change)]
             /\ adds \in Seq(Index) /\ CreatesSaid(adds) \in Seq(Change)
             /\ Len(CreatesSaid(adds)) = Len(adds)
<1> DEFINE drops == Gathered(t, old, new, FALSE)
           adds  == Gathered(t, old, new, TRUE)
<1>1. drops \in Seq(Index) /\ adds \in Seq(Index)
  <2>1. IndexesOf(t) \subseteq Index
    BY DEF IndexesOf
  <2>2. drops \in Seq(IndexesOf(t)) /\ adds \in Seq(IndexesOf(t))
    BY GatheredType
  <2> HIDE DEF drops, adds
  <2>3. QED BY <2>1, <2>2, SeqMonotonic
<1> HIDE DEF drops, adds
<1>2. /\ DOMAIN drops = 1..Len(drops) /\ \A n \in DOMAIN drops : drops[n] \in Index
      /\ DOMAIN adds = 1..Len(adds) /\ Len(adds) \in Nat /\ \A n \in DOMAIN adds : adds[n] \in Index
  BY <1>1, LenProperties, ElementOfSeq
<1>3. DropsSaid(drops, dropped) \in [1..Len(drops) -> Seq(Change)]
  <2>1. <<>> \in Seq(Change) /\ \A x \in Index : <<DropIndex(x)>> \in Seq(Change)
    BY ChangeTypes, EmptySeq
  <2>2. QED BY <1>2, <2>1 DEF DropsSaid
<1>4. CreatesSaid(adds) \in [1..Len(adds) -> Change]
  BY <1>2, ChangeTypes DEF CreatesSaid
<1>5. CreatesSaid(adds) \in Seq(Change) /\ Len(CreatesSaid(adds)) = Len(adds)
  <2>1. CreatesSaid(adds) \in Seq(Change)
    BY <1>2, <1>4, SeqDef
  <2>2. QED BY <1>2, <1>4, <2>1, LenProperties
<1>6. QED BY <1>1, <1>3, <1>5 DEF drops, adds

\* The table of this iteration, what was read of it and what is declared.
Iteration(t, old, new) == pc \in Inner /\ t = cur /\ old = Old /\ new = New

LEMMA IterationType ==
  ASSUME DueInv, NEW t, NEW old, NEW new, Iteration(t, old, new)
  PROVE  /\ t \in Tables /\ old \in Seq(Field) /\ new \in Seq(Field)
         /\ DOMAIN old = 1..Len(old) /\ Len(old) \in Nat
         /\ DOMAIN new = 1..Len(new) /\ Len(new) \in Nat
         /\ t \in DOMAIN Answer <=> pc # "create" /\ t \in DOMAIN schema
         /\ pc \in Altering => t \in DOMAIN Answer
         /\ pc = "create" => old = <<>>
         /\ i \in Nat \ {0} /\ j \in Nat \ {0}
         /\ migrations \in Seq(Change)
         /\ dropIndexes \in Seq(Index) /\ addIndexes \in Seq(Index)
<1>1. TypeInv /\ ReadInv /\ TypeOK /\ LoopInv /\ pc \in Inner /\ t = cur /\ old = Old /\ new = New
  BY DEF DueInv, TypeInv, Iteration
<1>2. t \in Tables /\ old \in Seq(Field) /\ new \in Seq(Field)
  BY <1>1, SidesType DEF TypeOK
<1>3. t \in DOMAIN src
  BY <1>1 DEF LoopInv
<1>4. t \in DOMAIN Answer <=> t \in DOMAIN schema
  BY <1>3 DEF Answer, Read
<1>5. pc \in Altering => t \in DOMAIN schema
  BY <1>1 DEF LoopInv, ReadInv
<1>6. pc = "create" => t \notin DOMAIN schema /\ old = <<>>
  BY <1>1 DEF ReadInv, Old
<1>7. QED BY <1>1, <1>2, <1>4, <1>5, <1>6, LenProperties DEF TypeOK


\* The indexes of a table start from nothing.
LEMMA NoVisit ==
  ASSUME NEW t \in Tables, NEW old \in Seq(Field), NEW new \in Seq(Field)
  PROVE  /\ VisitsUpTo(old, new, 0, 0) = <<>>
         /\ \A add \in BOOLEAN : Gather(t, VisitsUpTo(old, new, 0, 0), add) = <<>>
         /\ 1 <= Len(new) => 0 <= Len(IndexVisits(old, new[1]))
<1>1. Joined(FieldVisits(old, new), 0) = <<>>
  <2>1. Len(new) \in Nat /\ FieldVisits(old, new) \in [1..Len(new) -> Seq(Visit)]
    BY SaidTypes, LenProperties
  <2>2. QED BY <2>1, JoinedSteps
<1>2. <<>> \o <<>> = <<>>
  BY EmptySeq, ConcatEmptySeq
<1>3. VisitsUpTo(old, new, 0, 0) = <<>>
  BY <1>1, <1>2, TakenNone DEF VisitsUpTo
<1>4. \A add \in BOOLEAN : Gather(t, <<>>, add) = <<>>
  BY GatherAppend
<1>5. ASSUME 1 <= Len(new) PROVE 0 <= Len(IndexVisits(old, new[1]))
  <2>1. new[1] \in Field
    BY <1>5, FieldsOf
  <2>2. Len(IndexVisits(old, new[1])) \in Nat
    BY <2>1, IndexVisitsType, LenProperties
  <2>3. QED BY <2>2
<1>6. QED BY <1>3, <1>4, <1>5

\* Where the loops over the indexes start.
LEMMA IndexesStart ==
  ASSUME DueInv, NEW t, NEW old, NEW new, Iteration(t, old, new), NEW before, NEW so,
         pc \notin Indexing, pc' = "indexes", i' = 1, j' = 1,
         UNCHANGED <<src, schema, dropIndexes, addIndexes>>,
         so = FieldsSaid(t, old, new), droppedColumn' = before \union DroppedColumns(old, new)
  PROVE  Said(t, old, new, before, so)'
<1>1. /\ t \in Tables /\ old \in Seq(Field) /\ new \in Seq(Field) /\ Len(new) \in Nat
      /\ dropIndexes = <<>> /\ addIndexes = <<>>
  BY IterationType DEF DueInv, TypeInv, LoopInv
<1>2. FieldsSaid(t, old, new)' = FieldsSaid(t, old, new)
  BY DEF FieldsSaid, KeySaid, Answer
<1>3. /\ Gather(t, VisitsUpTo(old, new, 0, 0), FALSE) = <<>>
      /\ Gather(t, VisitsUpTo(old, new, 0, 0), TRUE) = <<>>
      /\ 1 <= Len(new) => 0 <= Len(IndexVisits(old, new[1]))
  BY <1>1, NoVisit
<1>4. 1 - 1 = 0 /\ 0 <= Len(new)
  BY <1>1
<1>5. QED BY <1>1, <1>2, <1>3, <1>4 DEF Said, Indexing

\* CREATE TABLE is what is said of a table that is not there.
LEMMA CreateSaid ==
  ASSUME DueInv, CreateTableStep, NEW t, NEW old, NEW new, Iteration(t, old, new),
         NEW before, NEW so \in Seq(Change), Said(t, old, new, before, so)
  PROVE  \E e \in Seq(Change) : migrations' = migrations \o e /\ Said(t, old, new, before, so \o e)'
<1>1. /\ pc = "create" /\ so = <<>> /\ droppedColumn = before
      /\ migrations' = Append(migrations, CreateTable(t, new))
      /\ pc' = "indexes" /\ i' = 1 /\ j' = 1
      /\ droppedColumn' = droppedColumn
      /\ UNCHANGED <<src, schema, dropIndexes, addIndexes>>
  BY DEF CreateTableStep, Said, Iteration
<1>2. /\ t \in Tables /\ new \in Seq(Field) /\ old = <<>> /\ t \notin DOMAIN Answer
      /\ migrations \in Seq(Change)
  BY <1>1, IterationType
<1>3. CreateTable(t, new) \in Change
  BY <1>2, ChangeTypes
<1> DEFINE e == <<CreateTable(t, new)>>
<1>4. e \in Seq(Change) /\ migrations' = migrations \o e /\ so \o e = e
  BY <1>1, <1>2, <1>3, AppendIsConcat, ConcatEmptySeq
<1>5. so \o e = FieldsSaid(t, old, new)
  BY <1>2, <1>4 DEF FieldsSaid
<1>6. droppedColumn' = before \union DroppedColumns(old, new)
  BY <1>1, <1>2 DEF DroppedColumns, ToSet
<1> HIDE DEF e
<1>7. Said(t, old, new, before, so \o e)'
  BY <1>1, <1>5, <1>6, IndexesStart DEF Indexing
<1>8. QED BY <1>4, <1>7

\* An iteration of the loop over the new fields says what is said of that field.
LEMMA AlterNewSaid ==
  ASSUME DueInv, AlterNewField, NEW t, NEW old, NEW new, Iteration(t, old, new),
         NEW before, NEW so \in Seq(Change), Said(t, old, new, before, so)
  PROVE  \E e \in Seq(Change) : migrations' = migrations \o e /\ Said(t, old, new, before, so \o e)'
<1> DEFINE said == NewSaid(old, new)
<1>1. /\ pc = "alterNew" /\ i - 1 <= Len(new) /\ so = Joined(said, i - 1)
      /\ droppedColumn' = before
      /\ IF i \in DOMAIN new
           THEN migrations' = migrations \o said[i] /\ i' = i + 1 /\ pc' = pc
           ELSE migrations' = migrations /\ i' = 1 /\ pc' = "alterOld"
  BY DEF AlterNewField, Said, Iteration, NewSaid
<1>2. /\ old \in Seq(Field) /\ Len(old) \in Nat
      /\ DOMAIN new = 1..Len(new) /\ Len(new) \in Nat
      /\ i \in Nat \ {0} /\ migrations \in Seq(Change)
      /\ said \in [1..Len(new) -> Seq(Change)] /\ OldSaid(old, new) \in [1..Len(old) -> Seq(Change)]
  BY IterationType, SaidTypes
<1> HIDE DEF said
<1>3. /\ \A k \in 1..Len(new) : Joined(said, k) = Joined(said, k - 1) \o said[k]
      /\ Joined(said, Len(new)) = FlattenSeq(said) /\ FlattenSeq(said) \in Seq(Change)
  <2>1. Len(new) \in 0..Len(new)
    BY <1>2
  <2>2. /\ \A k \in 0..Len(new) : Joined(said, k) \in Seq(Change)
        /\ \A k \in 1..Len(new) : Joined(said, k) = Joined(said, k - 1) \o said[k]
        /\ Joined(said, Len(new)) = FlattenSeq(said)
    BY <1>2, JoinedSteps, ZenonT(40)
  <2>3. Joined(said, Len(new)) \in Seq(Change)
    BY <2>1, <2>2
  <2>4. QED BY <2>2, <2>3
<1>4. CASE i \in DOMAIN new
  <2>1. PICK k, e : k = i /\ e = said[k]
    OBVIOUS
  <2>2. k \in 1..Len(new) /\ e \in Seq(Change) /\ i' - 1 = k /\ k <= Len(new)
    BY <1>1, <1>2, <1>4, <2>1
  <2>3. so \o e = Joined(said, k)
    BY <1>1, <1>3, <2>1, <2>2
  <2>4. migrations' = migrations \o e /\ pc' = "alterNew"
    BY <1>1, <1>4, <2>1
  <2>5. Said(t, old, new, before, so \o e)'
    BY <1>1, <2>2, <2>3, <2>4 DEF Said, Indexing, said
  <2>6. QED BY <2>2, <2>4, <2>5
<1>5. CASE i \notin DOMAIN new
  <2>1. i - 1 = Len(new)
    BY <1>1, <1>2, <1>5
  <2>2. so = FlattenSeq(said)
    BY <1>1, <1>3, <2>1
  <2>3. Joined(OldSaid(old, new), 0) = <<>>
    BY <1>2, JoinedSteps
  <2>4. DroppedUpTo(old, new, 0) = {}
    BY <1>2, DroppedSteps
  <2>5. /\ <<>> \in Seq(Change) /\ migrations \o <<>> = migrations /\ so \o <<>> = so
        /\ FlattenSeq(said) \o <<>> = FlattenSeq(said)
    BY <1>2, <1>3, ConcatEmptySeq, EmptySeq
  <2>6. 1 - 1 = 0 /\ 0 <= Len(old)
    BY <1>2
  <2>7. Said(t, old, new, before, so)'
    BY <1>1, <1>5, <2>2, <2>3, <2>4, <2>5, <2>6 DEF Said, Indexing, said
  <2>8. QED BY <1>1, <1>5, <2>5, <2>7
<1>6. QED BY <1>4, <1>5

\* So does one of the loop over the old fields, and it takes note of the columns dropped.
LEMMA AlterOldSaid ==
  ASSUME DueInv, AlterOldField, NEW t, NEW old, NEW new, Iteration(t, old, new),
         NEW before, NEW so \in Seq(Change), Said(t, old, new, before, so)
  PROVE  \E e \in Seq(Change) : migrations' = migrations \o e /\ Said(t, old, new, before, so \o e)'
<1> DEFINE said  == OldSaid(old, new)
           first == FlattenSeq(NewSaid(old, new))
<1>1. /\ pc = "alterOld" /\ i - 1 <= Len(old) /\ so = first \o Joined(said, i - 1)
      /\ droppedColumn = before \union DroppedUpTo(old, new, i - 1)
      /\ IF i \in DOMAIN old
           THEN /\ migrations' = migrations \o said[i] /\ i' = i + 1 /\ pc' = pc
                /\ droppedColumn' = droppedColumn
                                      \union (IF IsDropped(new, old[i]) THEN {old[i].column} ELSE {})
           ELSE migrations' = migrations /\ pc' = "primaryKey" /\ droppedColumn' = droppedColumn
  BY DEF AlterOldField, Said, Iteration, OldSaid
<1>2. /\ old \in Seq(Field) /\ DOMAIN old = 1..Len(old) /\ Len(old) \in Nat
      /\ Len(new) \in Nat
      /\ i \in Nat \ {0} /\ migrations \in Seq(Change)
      /\ said \in [1..Len(old) -> Seq(Change)] /\ NewSaid(old, new) \in [1..Len(new) -> Seq(Change)]
  BY IterationType, SaidTypes
<1>3. AlterColumns(old, new) = first \o FlattenSeq(said)
  BY DEF AlterColumns, NewSaid, OldSaid
<1>4. first \in Seq(Change)
  <2> DEFINE ns == NewSaid(old, new)
  <2>1. ns \in [1..Len(new) -> Seq(Change)] /\ Len(new) \in 0..Len(new) /\ Len(new) \in Nat
    BY <1>2
  <2> HIDE DEF ns
  <2>2. FlattenSeq(ns) \in Seq(Change)
    BY <2>1, JoinedSteps, ZenonT(40)
  <2>3. QED BY <2>2 DEF ns
<1> HIDE DEF said, first
<1>5. /\ \A k \in 0..Len(old) : Joined(said, k) \in Seq(Change)
      /\ \A k \in 1..Len(old) : Joined(said, k) = Joined(said, k - 1) \o said[k]
      /\ Joined(said, Len(old)) = FlattenSeq(said)
  BY <1>2, JoinedSteps, ZenonT(40)
<1>6. CASE i \in DOMAIN old
  <2>1. PICK k, e : k = i /\ e = said[k]
    OBVIOUS
  <2>2. k \in 1..Len(old) /\ k - 1 \in 0..Len(old) /\ e \in Seq(Change) /\ i' - 1 = k /\ k <= Len(old)
    <3>1. k \in 1..Len(old) /\ Len(old) \in Nat /\ i' = k + 1
      BY <1>1, <1>2, <1>6, <2>1
    <3>2. e \in Seq(Change)
      BY <1>2, <2>1, <3>1
    <3>3. QED BY <3>1, <3>2
  <2>3. so \o e = first \o Joined(said, k)
    <3>1. PICK x : x = Joined(said, k - 1)
      OBVIOUS
    <3>2. Joined(said, k) = x \o e
      BY <1>5, <2>1, <2>2, <3>1
    <3>3. x \in Seq(Change)
      BY <1>5, <2>2, <3>1
    <3>4. (first \o x) \o e = first \o (x \o e)
      <4>1. first \in Seq(Change) /\ x \in Seq(Change) /\ e \in Seq(Change)
        BY <1>4, <2>2, <3>3
      <4>2. QED BY <4>1, ConcatAssociative, SMTT(30)
    <3>5. so = first \o x
      BY <1>1, <2>1, <3>1
    <3>6. QED BY <3>2, <3>4, <3>5
  <2>4. droppedColumn' = before \union DroppedUpTo(old, new, k)
    <3> DEFINE lost == IF IsDropped(new, old[k]) THEN {old[k].column} ELSE {}
    <3>1. DroppedUpTo(old, new, k) = DroppedUpTo(old, new, k - 1) \union lost
      <4>1. \A l \in 1..Len(old) :
              DroppedUpTo(old, new, l) =
                DroppedUpTo(old, new, l - 1) \union (IF IsDropped(new, old[l]) THEN {old[l].column} ELSE {})
        BY <1>2, DroppedSteps, Zenon
      <4>2. QED BY <4>1, <2>2, Zenon
    <3>2. droppedColumn' = (before \union DroppedUpTo(old, new, k - 1)) \union lost
      BY <1>1, <1>6, <2>1
    <3> HIDE DEF lost
    <3>3. QED BY <3>1, <3>2
  <2>5. migrations' = migrations \o e /\ pc' = "alterOld"
    BY <1>1, <1>6, <2>1
  <2>6. Said(t, old, new, before, so \o e)'
    BY <2>2, <2>3, <2>4, <2>5 DEF Said, Indexing, said, first
  <2>7. QED BY <2>2, <2>5, <2>6
<1>7. CASE i \notin DOMAIN old
  <2>1. i - 1 = Len(old)
    BY <1>1, <1>2, <1>7
  <2>2. so = AlterColumns(old, new)
    BY <1>1, <1>3, <1>5, <2>1
  <2>3. droppedColumn' = before \union DroppedColumns(old, new)
    BY <1>1, <1>2, <1>7, <2>1, DroppedSteps
  <2>4. <<>> \in Seq(Change) /\ migrations \o <<>> = migrations /\ so \o <<>> = so
    BY <1>2, ConcatEmptySeq, EmptySeq
  <2>5. Said(t, old, new, before, so)'
    BY <1>1, <1>7, <2>2, <2>3 DEF Said, Indexing
  <2>6. QED BY <1>1, <1>7, <2>4, <2>5
<1>8. QED BY <1>6, <1>7

\* The primary key comes after the columns.
LEMMA PrimaryKeySaid ==
  ASSUME DueInv, PrimaryKey, NEW t, NEW old, NEW new, Iteration(t, old, new),
         NEW before, NEW so \in Seq(Change), Said(t, old, new, before, so)
  PROVE  \E e \in Seq(Change) : migrations' = migrations \o e /\ Said(t, old, new, before, so \o e)'
<1> DEFINE e == KeySaid(t, old, new)
<1>1. /\ pc = "primaryKey" /\ so = AlterColumns(old, new)
      /\ droppedColumn' = before \union DroppedColumns(old, new)
      /\ pc' = "indexes" /\ i' = 1 /\ j' = 1
      /\ UNCHANGED <<src, schema, dropIndexes, addIndexes>>
      /\ migrations' = IF PrimaryKeyModifier /\ PkChanged(old, new)
                         THEN Append(migrations, ModifyPrimaryKey(t, old, new)) ELSE migrations
  BY DEF PrimaryKey, Said, Iteration
<1>2. /\ t \in Tables /\ old \in Seq(Field) /\ new \in Seq(Field) /\ migrations \in Seq(Change)
      /\ t \in DOMAIN Answer
  BY <1>1, IterationType DEF Altering
<1>3. ModifyPrimaryKey(t, old, new) \in Change
  BY <1>2, ChangeTypes
<1>4. e \in Seq(Change) /\ migrations' = migrations \o e
  BY <1>1, <1>2, <1>3, AppendIsConcat, ConcatEmptySeq, EmptySeq DEF KeySaid
<1>5. so \o e = FieldsSaid(t, old, new)
  BY <1>1, <1>2 DEF FieldsSaid
<1> HIDE DEF e
<1>6. Said(t, old, new, before, so \o e)'
  BY <1>1, <1>5, IndexesStart DEF Indexing
<1>7. QED BY <1>4, <1>6

\* One more element at the end of the second of two joined sequences.
LEMMA AppendJoined ==
  ASSUME NEW S, NEW s \in Seq(S), NEW x \in Seq(S), NEW v \in S
  PROVE  s \o Append(x, v) = Append(s \o x, v)
<1>1. <<v>> \in Seq(S) /\ s \o x \in Seq(S)
  BY ConcatProperties
<1>2. Append(x, v) = x \o <<v>> /\ Append(s \o x, v) = (s \o x) \o <<v>>
  BY <1>1, AppendIsConcat
<1>3. (s \o x) \o <<v>> = s \o (x \o <<v>>)
  BY <1>1, ConcatAssociative
<1>4. QED BY <1>2, <1>3

\* The visits of makeIndexes are made one by one, field by field, until they all are.
LEMMA VisitsSteps ==
  ASSUME NEW old \in Seq(Field), NEW new \in Seq(Field)
  PROVE  /\ \A n \in 1..Len(new) : \A k \in 1..Len(IndexVisits(old, new[n])) :
              /\ VisitsUpTo(old, new, n - 1, k - 1) \in Seq(Visit)
              /\ VisitsUpTo(old, new, n - 1, k)
                   = Append(VisitsUpTo(old, new, n - 1, k - 1), IndexVisits(old, new[n])[k])
         /\ \A n \in 1..Len(new) :
              VisitsUpTo(old, new, n, 0) = VisitsUpTo(old, new, n - 1, Len(IndexVisits(old, new[n])))
         /\ VisitsUpTo(old, new, Len(new), 0) = FlattenSeq(FieldVisits(old, new))
<1> DEFINE fv == FieldVisits(old, new)
<1>1. Len(new) \in Nat /\ DOMAIN new = 1..Len(new) /\ fv \in [1..Len(new) -> Seq(Visit)]
  BY SaidTypes, LenProperties
<1>2. \A n \in 1..Len(new) : fv[n] = IndexVisits(old, new[n])
  BY <1>1 DEF FieldVisits
<1> HIDE DEF fv
<1>3. /\ \A n \in 0..Len(new) : Joined(fv, n) \in Seq(Visit)
      /\ \A n \in 1..Len(new) : Joined(fv, n) = Joined(fv, n - 1) \o fv[n]
      /\ Joined(fv, Len(new)) = FlattenSeq(fv)
  BY <1>1, JoinedSteps
<1>4. \A n \in 0..Len(new) : VisitsUpTo(old, new, n, 0) = Joined(fv, n)
  <2>1. ASSUME NEW n \in 0..Len(new) PROVE VisitsUpTo(old, new, n, 0) = Joined(fv, n) \o <<>>
    BY TakenNone DEF VisitsUpTo, fv
  <2>2. ASSUME NEW n \in 0..Len(new) PROVE Joined(fv, n) \o <<>> = Joined(fv, n)
    <3>1. Joined(fv, n) \in Seq(Visit)
      BY <1>3
    <3>2. QED BY <3>1, ConcatEmptySeq
  <2>3. QED BY <2>1, <2>2
<1>5. ASSUME NEW n \in 1..Len(new)
      PROVE  /\ \A k \in 1..Len(fv[n]) :
                  /\ VisitsUpTo(old, new, n - 1, k - 1) \in Seq(Visit)
                  /\ VisitsUpTo(old, new, n - 1, k) = Append(VisitsUpTo(old, new, n - 1, k - 1), fv[n][k])
             /\ VisitsUpTo(old, new, n, 0) = VisitsUpTo(old, new, n - 1, Len(fv[n]))
  <2>1. PICK vs, s : vs = fv[n] /\ s = Joined(fv, n - 1)
    OBVIOUS
  <2>2. n - 1 \in 0..Len(new) /\ n \in 0..Len(new) /\ (n - 1) + 1 = n
    BY <1>1
  <2>3. vs \in Seq(Visit) /\ s \in Seq(Visit) /\ Len(vs) \in Nat
    BY <1>1, <1>3, <2>1, <2>2, LenProperties
  <2>4. \A k : VisitsUpTo(old, new, n - 1, k) = s \o Taken(vs, k)
    BY <2>1, <2>2 DEF VisitsUpTo, fv
  <2>5. /\ \A k \in 0..Len(vs) : Taken(vs, k) \in Seq(Visit)
        /\ \A k \in 1..Len(vs) : Taken(vs, k) = Append(Taken(vs, k - 1), vs[k])
        /\ Taken(vs, Len(vs)) = vs
    BY <2>3, TakenSteps
  <2>6. ASSUME NEW k \in 1..Len(vs)
        PROVE  /\ VisitsUpTo(old, new, n - 1, k - 1) \in Seq(Visit)
               /\ VisitsUpTo(old, new, n - 1, k) = Append(VisitsUpTo(old, new, n - 1, k - 1), vs[k])
    <3>1. PICK x, v : x = Taken(vs, k - 1) /\ v = vs[k]
      OBVIOUS
    <3>2. k - 1 \in 0..Len(vs)
      BY <2>3
    <3>3. x \in Seq(Visit) /\ v \in Visit
      BY <2>3, <2>5, <3>1, <3>2, ElementOfSeq
    <3>4. Taken(vs, k) = Append(x, v)
      BY <2>5, <3>1
    <3>5. s \o x \in Seq(Visit)
      BY <2>3, <3>3, ConcatProperties
    <3>6. s \o Append(x, v) = Append(s \o x, v)
      BY <2>3, <3>3, AppendJoined, SMTT(30)
    <3>7. VisitsUpTo(old, new, n - 1, k) = s \o Append(x, v)
          /\ VisitsUpTo(old, new, n - 1, k - 1) = s \o x
      BY <2>4, <3>1, <3>4, Zenon
    <3>8. QED BY <3>1, <3>5, <3>6, <3>7, Zenon
  <2>7. VisitsUpTo(old, new, n, 0) = VisitsUpTo(old, new, n - 1, Len(vs))
    BY <1>3, <1>4, <2>1, <2>2, <2>4, <2>5
  <2>8. QED BY <2>1, <2>6, <2>7
<1>6. VisitsUpTo(old, new, Len(new), 0) = FlattenSeq(fv)
  <2>1. Len(new) \in 0..Len(new)
    BY <1>1
  <2>2. QED BY <1>3, <1>4, <2>1
<1>7. QED BY <1>2, <1>5, <1>6 DEF fv

\* A visit is gathered as the function gathers it.
LEMMA VisitSaid ==
  ASSUME DueInv, VisitIndex, NEW t, NEW old, NEW new, Iteration(t, old, new),
         NEW before, NEW so \in Seq(Change), Said(t, old, new, before, so)
  PROVE  \E e \in Seq(Change) : migrations' = migrations \o e /\ Said(t, old, new, before, so \o e)'
<1>1. PICK n, k, vs : n = i /\ k = j /\ vs = IndexVisits(old, new[n])
  OBVIOUS
<1>2. /\ pc = "indexes" /\ pc' = "indexes" /\ so = FieldsSaid(t, old, new)
      /\ i \in DOMAIN new
      /\ IF i <= Len(new) THEN j - 1 <= Len(vs) ELSE j = 1
      /\ dropIndexes = Gather(t, VisitsUpTo(old, new, n - 1, k - 1), FALSE)
      /\ addIndexes = Gather(t, VisitsUpTo(old, new, n - 1, k - 1), TRUE)
      /\ UNCHANGED <<src, schema, migrations, droppedColumn>>
      /\ droppedColumn = before \union DroppedColumns(old, new)
  BY <1>1 DEF VisitIndex, Said, Iteration, Indexing
<1>3. /\ t \in Tables /\ old \in Seq(Field) /\ new \in Seq(Field)
      /\ DOMAIN new = 1..Len(new) /\ Len(new) \in Nat
      /\ i \in Nat \ {0} /\ j \in Nat \ {0} /\ migrations \in Seq(Change)
  BY IterationType
<1>4. n \in 1..Len(new) /\ vs \in Seq(Visit) /\ DOMAIN vs = 1..Len(vs) /\ Len(vs) \in Nat /\ k - 1 <= Len(vs)
  <2>1. n \in 1..Len(new) /\ new[n] \in Field /\ n <= Len(new)
    BY <1>1, <1>2, <1>3, FieldsOf
  <2>2. vs \in Seq(Visit)
    BY <1>1, <1>3, <2>1, IndexVisitsType
  <2>3. QED BY <1>1, <1>2, <2>1, <2>2, LenProperties
<1>5. FieldsSaid(t, old, new)' = FieldsSaid(t, old, new)
  BY <1>2 DEF FieldsSaid, KeySaid, Answer
<1>6. /\ \A m \in 1..Len(new) : \A l \in 1..Len(IndexVisits(old, new[m])) :
           /\ VisitsUpTo(old, new, m - 1, l - 1) \in Seq(Visit)
           /\ VisitsUpTo(old, new, m - 1, l)
                = Append(VisitsUpTo(old, new, m - 1, l - 1), IndexVisits(old, new[m])[l])
      /\ \A m \in 1..Len(new) :
           VisitsUpTo(old, new, m, 0) = VisitsUpTo(old, new, m - 1, Len(IndexVisits(old, new[m])))
  BY <1>3, VisitsSteps, Zenon
<1>7. <<>> \in Seq(Change) /\ migrations' = migrations \o <<>> /\ so \o <<>> = so
  BY <1>2, <1>3, ConcatEmptySeq, EmptySeq
<1>8. CASE j \in DOMAIN vs
  <2>1. PICK v, x, y : v = vs[k] /\ x = VisitsUpTo(old, new, n - 1, k - 1) /\ y = VisitsUpTo(old, new, n - 1, k)
    OBVIOUS
  <2>2. k \in 1..Len(vs) /\ v \in Visit /\ i' = n /\ i' - 1 = n - 1 /\ j' - 1 = k
        /\ n <= Len(new) /\ n - 1 <= Len(new) /\ k <= Len(vs)
    <3>1. k \in 1..Len(vs)
      BY <1>1, <1>4, <1>8
    <3>2. v \in Visit
      BY <1>4, <2>1, <3>1, ElementOfSeq
    <3>3. i' = i /\ j' = j + 1
      BY <1>1, <1>8 DEF VisitIndex, Iteration
    <3>4. QED BY <1>1, <1>3, <1>4, <3>1, <3>2, <3>3
  <2>3. x \in Seq(Visit) /\ y = Append(x, v)
    BY <1>1, <1>4, <1>6, <2>1, <2>2, Zenon
  <2>4. /\ dropIndexes' = IF v.kept \/ v.add THEN dropIndexes ELSE AddToIndexes(dropIndexes, t, v)
        /\ addIndexes' = IF v.kept \/ ~v.add THEN addIndexes ELSE AddToIndexes(addIndexes, t, v)
    BY <1>1, <1>8, <2>1 DEF VisitIndex, Iteration
  <2>5. v.add \in BOOLEAN /\ v.kept \in BOOLEAN
    BY <2>2 DEF Visit
  <2>6. dropIndexes' = GatherNext(t, dropIndexes, v, FALSE) /\ addIndexes' = GatherNext(t, addIndexes, v, TRUE)
    BY <2>4, <2>5 DEF GatherNext
  <2>7. \A add \in BOOLEAN : Gather(t, y, add) = GatherNext(t, Gather(t, x, add), v, add)
    <3>1. ASSUME NEW add \in BOOLEAN
          PROVE  \A us \in Seq(Visit), u \in Visit :
                   Gather(t, Append(us, u), add) = GatherNext(t, Gather(t, us, add), u, add)
      BY <1>3, GatherAppend
    <3>2. QED BY <2>2, <2>3, <3>1, Zenon
  <2>8. dropIndexes' = Gather(t, y, FALSE) /\ addIndexes' = Gather(t, y, TRUE)
    BY <1>2, <2>1, <2>6, <2>7
  <2>9. Said(t, old, new, before, so)'
    BY <1>1, <1>2, <1>5, <2>1, <2>2, <2>8 DEF Said, Indexing
  <2>10. QED BY <1>7, <2>9
<1>9. CASE j \notin DOMAIN vs
  <2>1. i' = n + 1 /\ j' = 1 /\ dropIndexes' = dropIndexes /\ addIndexes' = addIndexes
    BY <1>1, <1>9 DEF VisitIndex, Iteration
  <2>2. k - 1 = Len(vs)
    BY <1>1, <1>3, <1>4, <1>9
  <2>3. VisitsUpTo(old, new, n, 0) = VisitsUpTo(old, new, n - 1, k - 1)
    BY <1>1, <1>4, <1>6, <2>2
  <2>4. i' - 1 = n /\ j' - 1 = 0 /\ n <= Len(new)
    BY <1>4, <2>1
  <2>5. i' <= Len(new) => 0 <= Len(IndexVisits(old, new[i']))
    <3>1. ASSUME i' <= Len(new) PROVE 0 <= Len(IndexVisits(old, new[i']))
      <4>1. i' \in DOMAIN new
        BY <1>3, <1>4, <2>1, <3>1
      <4>2. new[i'] \in Field
        BY <1>3, <4>1, FieldsOf
      <4>3. Len(IndexVisits(old, new[i'])) \in Nat
        BY <1>3, <4>2, IndexVisitsType, LenProperties
      <4>4. QED BY <4>3
    <3>2. QED BY <3>1
  <2>6. Said(t, old, new, before, so)'
    BY <1>2, <1>5, <2>1, <2>3, <2>4, <2>5 DEF Said, Indexing
  <2>7. QED BY <1>7, <2>6
<1>10. QED BY <1>8, <1>9

\* All the visits give all the indexes.
LEMMA EndVisitsSaid ==
  ASSUME DueInv, EndMakeIndexes, NEW t, NEW old, NEW new, Iteration(t, old, new),
         NEW before, NEW so \in Seq(Change), Said(t, old, new, before, so)
  PROVE  \E e \in Seq(Change) : migrations' = migrations \o e /\ Said(t, old, new, before, so \o e)'
<1>1. /\ pc = "indexes" /\ pc' = "dropIndexes" /\ so = FieldsSaid(t, old, new)
      /\ i \notin DOMAIN new /\ i - 1 <= Len(new)
      /\ IF i <= Len(new) THEN j - 1 <= Len(IndexVisits(old, new[i])) ELSE j = 1
      /\ dropIndexes = Gather(t, VisitsUpTo(old, new, i - 1, j - 1), FALSE)
      /\ addIndexes = Gather(t, VisitsUpTo(old, new, i - 1, j - 1), TRUE)
      /\ UNCHANGED <<src, schema, migrations, droppedColumn, dropIndexes, addIndexes>>
      /\ droppedColumn = before \union DroppedColumns(old, new)
  BY DEF EndMakeIndexes, Said, Iteration, Indexing
<1>2. /\ t \in Tables /\ old \in Seq(Field) /\ new \in Seq(Field)
      /\ DOMAIN new = 1..Len(new) /\ Len(new) \in Nat
      /\ i \in Nat \ {0} /\ j \in Nat \ {0} /\ migrations \in Seq(Change)
  BY IterationType
<1>3. i - 1 = Len(new) /\ j - 1 = 0
  BY <1>1, <1>2
<1>4. VisitsUpTo(old, new, Len(new), 0) = FlattenSeq(FieldVisits(old, new))
  BY <1>2, VisitsSteps
<1>5. \A add : Gathered(t, old, new, add) = Gather(t, FlattenSeq(FieldVisits(old, new)), add)
  BY DEF Gathered, FieldVisits
<1>6. dropIndexes' = Gathered(t, old, new, FALSE) /\ addIndexes' = Gathered(t, old, new, TRUE)
  BY <1>1, <1>3, <1>4, <1>5
<1>7. PICK drops, d : drops = Gathered(t, old, new, FALSE) /\ d = droppedColumn'
  OBVIOUS
<1>8. drops \in Seq(Index) /\ Len(drops) \in Nat /\ DropsSaid(drops, d) \in [1..Len(drops) -> Seq(Change)]
  BY <1>2, <1>7, GatheredSaid, LenProperties
<1>9. Joined(DropsSaid(drops, d), 0) = <<>> /\ Rest(drops, 0) = drops /\ 0 \in 0..Len(drops)
  <2>1. Joined(DropsSaid(drops, d), 0) = <<>>
    BY <1>8, JoinedSteps
  <2>2. Rest(drops, 0) = drops
    BY <1>8, RestSteps
  <2>3. QED BY <1>8, <2>1, <2>2
<1>10. <<>> \in Seq(Change) /\ migrations' = migrations \o <<>> /\ so \o <<>> = so
  BY <1>1, <1>2, ConcatEmptySeq, EmptySeq
<1>11. FieldsSaid(t, old, new)' = FieldsSaid(t, old, new)
  BY <1>1 DEF FieldsSaid, KeySaid, Answer
<1>12. \E k \in 0..Len(drops) : /\ dropIndexes' = Rest(drops, k)
                                /\ so = FieldsSaid(t, old, new)' \o Joined(DropsSaid(drops, d), k)
  <2>1. dropIndexes' = Rest(drops, 0) /\ so = FieldsSaid(t, old, new)' \o Joined(DropsSaid(drops, d), 0)
    BY <1>1, <1>6, <1>7, <1>9, <1>10, <1>11
  <2>2. QED BY <1>9, <2>1
<1>13. \E k \in 0..Len(Gathered(t, old, new, FALSE)) :
         /\ dropIndexes' = Rest(Gathered(t, old, new, FALSE), k)
         /\ so = FieldsSaid(t, old, new)'
                   \o Joined(DropsSaid(Gathered(t, old, new, FALSE), droppedColumn'), k)
  BY <1>7, <1>12, Zenon
<1>14. Said(t, old, new, before, so)'
  BY <1>1, <1>6, <1>13 DEF Said, Indexing
<1>15. QED BY <1>10, <1>14

\* What is said of a table before its indexes is made of changes.
LEMMA FieldsSaidType ==
  ASSUME NEW t \in Tables, NEW old \in Seq(Field), NEW new \in Seq(Field)
  PROVE  FieldsSaid(t, old, new) \in Seq(Change)
<1>1. CreateTable(t, new) \in Change /\ ModifyPrimaryKey(t, old, new) \in Change
  BY ChangeTypes
<1>2. <<CreateTable(t, new)>> \in Seq(Change) /\ KeySaid(t, old, new) \in Seq(Change)
  BY <1>1, EmptySeq DEF KeySaid
<1>3. AlterColumns(old, new) \in Seq(Change)
  <2>1. PICK ns, os : ns = NewSaid(old, new) /\ os = OldSaid(old, new)
    OBVIOUS
  <2>2. /\ Len(new) \in Nat /\ Len(new) \in 0..Len(new) /\ ns \in [1..Len(new) -> Seq(Change)]
        /\ Len(old) \in Nat /\ Len(old) \in 0..Len(old) /\ os \in [1..Len(old) -> Seq(Change)]
    BY <2>1, SaidTypes, LenProperties
  <2>3. FlattenSeq(ns) \in Seq(Change) /\ FlattenSeq(os) \in Seq(Change)
    BY <2>2, FlattenFunction
  <2>4. AlterColumns(old, new) = FlattenSeq(ns) \o FlattenSeq(os)
    BY <2>1 DEF AlterColumns, NewSaid, OldSaid
  <2>5. QED BY <2>3, <2>4, ConcatProperties
<1>4. AlterColumns(old, new) \o KeySaid(t, old, new) \in Seq(Change)
  BY <1>2, <1>3, ConcatProperties
<1>5. QED BY <1>2, <1>4 DEF FieldsSaid

\* A DROP INDEX is said, or left out.
LEMMA DropSaid ==
  ASSUME DueInv, DropIndexStep, NEW t, NEW old, NEW new, Iteration(t, old, new),
         NEW before, NEW so \in Seq(Change), Said(t, old, new, before, so)
  PROVE  \E e \in Seq(Change) : migrations' = migrations \o e /\ Said(t, old, new, before, so \o e)'
<1>1. PICK drops, d, first :
        drops = Gathered(t, old, new, FALSE) /\ d = droppedColumn /\ first = FieldsSaid(t, old, new)
  OBVIOUS
<1>2. PICK said : said = DropsSaid(drops, d)
  OBVIOUS
<1>3. /\ pc = "dropIndexes" /\ pc' = "dropIndexes"
      /\ addIndexes = Gathered(t, old, new, TRUE)
      /\ UNCHANGED <<src, schema, droppedColumn, addIndexes>>
      /\ droppedColumn = before \union DroppedColumns(old, new)
      /\ dropIndexes # <<>>
      /\ dropIndexes' = Tail(dropIndexes)
  BY DEF DropIndexStep, Said, Indexing
<1>4. \E k \in 0..Len(drops) : dropIndexes = Rest(drops, k) /\ so = first \o Joined(said, k)
  BY <1>1, <1>2, <1>3, Zenon DEF Said
<1>5. PICK k \in 0..Len(drops) : dropIndexes = Rest(drops, k) /\ so = first \o Joined(said, k)
  BY <1>4
<1>6. /\ t \in Tables /\ old \in Seq(Field) /\ new \in Seq(Field) /\ migrations \in Seq(Change)
  BY IterationType
<1>7. /\ drops \in Seq(Index) /\ Len(drops) \in Nat /\ said \in [1..Len(drops) -> Seq(Change)]
      /\ first \in Seq(Change)
  BY <1>1, <1>2, <1>6, GatheredSaid, FieldsSaidType, LenProperties
<1>8. PICK m : m = k + 1
  OBVIOUS
<1>9. m \in 1..Len(drops) /\ Head(dropIndexes) = drops[m] /\ dropIndexes' = Rest(drops, m)
  <2>1. \A l \in 0..Len(drops) : Rest(drops, l) # <<>> =>
           /\ l + 1 \in 1..Len(drops)
           /\ Head(Rest(drops, l)) = drops[l + 1]
           /\ Tail(Rest(drops, l)) = Rest(drops, l + 1)
    BY <1>7, RestSteps
  <2>2. QED BY <1>3, <1>5, <1>8, <2>1
<1>10. PICK e, x : e = said[m] /\ x = Joined(said, k)
  OBVIOUS
<1>11. e \in Seq(Change) /\ x \in Seq(Change) /\ m - 1 = k
  <2>1. \A l \in 0..Len(drops) : Joined(said, l) \in Seq(Change)
    BY <1>7, JoinedSteps
  <2>2. QED BY <1>7, <1>8, <1>9, <1>10, <2>1
<1>12. Joined(said, m) = x \o e
  <2>1. \A l \in 1..Len(drops) : Joined(said, l) = Joined(said, l - 1) \o said[l]
    BY <1>7, JoinedSteps
  <2>2. QED BY <1>9, <1>10, <1>11, <2>1
<1>13. so \o e = first \o Joined(said, m)
  <2>1. (first \o x) \o e = first \o (x \o e)
    BY <1>7, <1>11, ConcatAssociative, SMTT(30)
  <2>2. QED BY <1>5, <1>10, <1>12, <2>1
<1>14. e = IF drops[m].columns[1] \in d THEN <<>> ELSE <<DropIndex(drops[m])>>
  <2>1. m \in DOMAIN drops
    BY <1>7, <1>9, LenProperties
  <2>2. QED BY <1>2, <1>10, <2>1 DEF DropsSaid
<1>15. migrations' = migrations \o e
  <2>1. migrations' = IF drops[m].columns[1] \in d THEN migrations
                      ELSE Append(migrations, DropIndex(drops[m]))
    BY <1>1, <1>9 DEF DropIndexStep
  <2>2. DropIndex(drops[m]) \in Change
    <3>1. drops[m] \in Index
      BY <1>7, <1>9, ElementOfSeq
    <3>2. QED BY <3>1, ChangeTypes
  <2>3. QED BY <1>6, <1>14, <2>1, <2>2, AppendIsConcat, ConcatEmptySeq
<1>16. FieldsSaid(t, old, new)' = first
  BY <1>1, <1>3 DEF FieldsSaid, KeySaid, Answer
<1>17. m \in 0..Len(drops) /\ dropIndexes' = Rest(drops, m) /\ so \o e = first \o Joined(said, m)
  BY <1>7, <1>9, <1>13
<1>18. \E l \in 0..Len(Gathered(t, old, new, FALSE)) :
         /\ dropIndexes' = Rest(Gathered(t, old, new, FALSE), l)
         /\ so \o e = FieldsSaid(t, old, new)'
                        \o Joined(DropsSaid(Gathered(t, old, new, FALSE), droppedColumn'), l)
  <2>1. d = droppedColumn'
    BY <1>1, <1>3
  <2>2. QED BY <1>1, <1>2, <1>16, <1>17, <2>1, Zenon
<1>19. Said(t, old, new, before, so \o e)'
  BY <1>3, <1>18 DEF Said, Indexing
<1>20. QED BY <1>11, <1>15, <1>19

\* When every DROP INDEX is dealt with, the creations start.
LEMMA EndDropsSaid ==
  ASSUME DueInv, EndDropIndexes, NEW t, NEW old, NEW new, Iteration(t, old, new),
         NEW before, NEW so \in Seq(Change), Said(t, old, new, before, so)
  PROVE  \E e \in Seq(Change) : migrations' = migrations \o e /\ Said(t, old, new, before, so \o e)'
<1>1. PICK drops, adds, d, first :
        /\ drops = Gathered(t, old, new, FALSE) /\ adds = Gathered(t, old, new, TRUE)
        /\ d = droppedColumn /\ first = FieldsSaid(t, old, new)
  OBVIOUS
<1>2. PICK said : said = DropsSaid(drops, d)
  OBVIOUS
<1>3. /\ pc = "dropIndexes" /\ pc' = "addIndexes"
      /\ addIndexes = adds
      /\ UNCHANGED <<src, schema, migrations, droppedColumn, addIndexes>>
      /\ droppedColumn = before \union DroppedColumns(old, new)
      /\ dropIndexes = <<>>
  BY <1>1 DEF EndDropIndexes, Said, Indexing
<1>4. \E k \in 0..Len(drops) : dropIndexes = Rest(drops, k) /\ so = first \o Joined(said, k)
  BY <1>1, <1>2, <1>3, Zenon DEF Said
<1>5. PICK k \in 0..Len(drops) : dropIndexes = Rest(drops, k) /\ so = first \o Joined(said, k)
  BY <1>4
<1>6. /\ t \in Tables /\ old \in Seq(Field) /\ new \in Seq(Field) /\ migrations \in Seq(Change)
  BY IterationType
<1>7. /\ drops \in Seq(Index) /\ Len(drops) \in Nat /\ said \in [1..Len(drops) -> Seq(Change)]
      /\ adds \in Seq(Index) /\ Len(adds) \in Nat
      /\ first \in Seq(Change)
  BY <1>1, <1>2, <1>6, GatheredSaid, FieldsSaidType, LenProperties
<1>8. k = Len(drops)
  BY <1>3, <1>5, <1>7, RestSteps
<1>9. so = first \o FlattenSeq(said)
  <2>1. Joined(said, Len(drops)) = FlattenSeq(said)
    BY <1>7, JoinedSteps
  <2>2. QED BY <1>5, <1>8, <2>1
<1>10. <<>> \in Seq(Change) /\ migrations' = migrations \o <<>> /\ so \o <<>> = so
  BY <1>3, <1>6, ConcatEmptySeq, EmptySeq
<1>11. FieldsSaid(t, old, new)' = first
  BY <1>1, <1>3 DEF FieldsSaid, KeySaid, Answer
<1>12. /\ 0 \in 0..Len(adds) /\ addIndexes' = Rest(adds, 0)
       /\ so = (first \o FlattenSeq(said)) \o Taken(CreatesSaid(adds), 0)
  <2>1. Rest(adds, 0) = adds
    BY <1>7, RestSteps
  <2>2. Taken(CreatesSaid(adds), 0) = <<>>
    BY TakenNone
  <2>3. so = (first \o FlattenSeq(said)) \o <<>>
    BY <1>9, <1>10
  <2>4. 0 \in 0..Len(adds)
    BY <1>7
  <2>5. QED BY <1>3, <2>1, <2>2, <2>3, <2>4
<1>13. \E l \in 0..Len(Gathered(t, old, new, TRUE)) :
         /\ addIndexes' = Rest(Gathered(t, old, new, TRUE), l)
         /\ so = (FieldsSaid(t, old, new)'
                    \o FlattenSeq(DropsSaid(Gathered(t, old, new, FALSE), droppedColumn')))
                   \o Taken(CreatesSaid(Gathered(t, old, new, TRUE)), l)
  <2>1. d = droppedColumn'
    BY <1>1, <1>3
  <2>2. QED BY <1>1, <1>2, <1>11, <1>12, <2>1, Zenon
<1>14. Said(t, old, new, before, so)'
  BY <1>3, <1>13 DEF Said, Indexing
<1>15. QED BY <1>10, <1>14

\* A CREATE INDEX is said of every index to create.
LEMMA AddSaid ==
  ASSUME DueInv, AddIndexStep, NEW t, NEW old, NEW new, Iteration(t, old, new),
         NEW before, NEW so \in Seq(Change), Said(t, old, new, before, so)
  PROVE  \E e \in Seq(Change) : migrations' = migrations \o e /\ Said(t, old, new, before, so \o e)'
<1>1. PICK adds, first :
        /\ adds = Gathered(t, old, new, TRUE)
        /\ first = FieldsSaid(t, old, new)
                     \o FlattenSeq(DropsSaid(Gathered(t, old, new, FALSE), droppedColumn))
  OBVIOUS
<1>2. PICK said : said = CreatesSaid(adds)
  OBVIOUS
<1>3. /\ pc = "addIndexes" /\ pc' = "addIndexes"
      /\ UNCHANGED <<src, schema, droppedColumn>>
      /\ droppedColumn = before \union DroppedColumns(old, new)
      /\ addIndexes # <<>>
      /\ addIndexes' = Tail(addIndexes)
      /\ migrations' = Append(migrations, CreateIndex(Head(addIndexes)))
  BY DEF AddIndexStep, Said, Indexing
<1>4. \E k \in 0..Len(adds) : addIndexes = Rest(adds, k) /\ so = first \o Taken(said, k)
  BY <1>1, <1>2, <1>3, Zenon DEF Said
<1>5. PICK k \in 0..Len(adds) : addIndexes = Rest(adds, k) /\ so = first \o Taken(said, k)
  BY <1>4
<1>6. /\ t \in Tables /\ old \in Seq(Field) /\ new \in Seq(Field) /\ migrations \in Seq(Change)
  BY IterationType
<1>7. /\ adds \in Seq(Index) /\ Len(adds) \in Nat /\ DOMAIN adds = 1..Len(adds)
      /\ said \in Seq(Change) /\ Len(said) = Len(adds)
  BY <1>1, <1>2, <1>6, GatheredSaid, LenProperties
<1>8. first \in Seq(Change)
  <2>1. PICK drops, d : drops = Gathered(t, old, new, FALSE) /\ d = droppedColumn
    OBVIOUS
  <2>2. drops \in Seq(Index) /\ DropsSaid(drops, d) \in [1..Len(drops) -> Seq(Change)]
    BY <1>6, <2>1, GatheredSaid
  <2>3. FlattenSeq(DropsSaid(drops, d)) \in Seq(Change)
    BY <2>2, LenProperties, FlattenFunction
  <2>4. FieldsSaid(t, old, new) \in Seq(Change)
    BY <1>6, FieldsSaidType
  <2>5. QED BY <1>1, <2>1, <2>3, <2>4, ConcatProperties
<1>9. PICK m : m = k + 1
  OBVIOUS
<1>10. m \in 1..Len(adds) /\ Head(addIndexes) = adds[m] /\ addIndexes' = Rest(adds, m)
  <2>1. \A l \in 0..Len(adds) : Rest(adds, l) # <<>> =>
           /\ l + 1 \in 1..Len(adds)
           /\ Head(Rest(adds, l)) = adds[l + 1]
           /\ Tail(Rest(adds, l)) = Rest(adds, l + 1)
    BY <1>7, RestSteps
  <2>2. QED BY <1>3, <1>5, <1>9, <2>1
<1>11. PICK c, x : c = said[m] /\ x = Taken(said, k)
  OBVIOUS
<1>12. c \in Change /\ <<c>> \in Seq(Change) /\ x \in Seq(Change) /\ m - 1 = k
  <2>1. \A l \in 0..Len(said) : Taken(said, l) \in Seq(Change)
    BY <1>7, TakenSteps
  <2>2. c \in Change
    BY <1>7, <1>10, <1>11, ElementOfSeq
  <2>3. x \in Seq(Change) /\ m - 1 = k
    BY <1>7, <1>9, <1>10, <1>11, <2>1
  <2>4. QED BY <2>2, <2>3
<1>13. Taken(said, m) = x \o <<c>>
  <2>1. \A l \in 1..Len(said) : Taken(said, l) = Append(Taken(said, l - 1), said[l])
    BY <1>7, TakenSteps
  <2>2. Taken(said, m) = Append(x, c)
    BY <1>7, <1>10, <1>11, <1>12, <2>1
  <2>3. QED BY <1>12, <2>2, AppendIsConcat
<1>14. so \o <<c>> = first \o Taken(said, m)
  <2>1. (first \o x) \o <<c>> = first \o (x \o <<c>>)
    <3>1. first \in Seq(Change) /\ x \in Seq(Change) /\ <<c>> \in Seq(Change)
      BY <1>8, <1>12
    <3>2. QED BY <3>1, ConcatAssociative, SMTT(30)
  <2>2. QED BY <1>5, <1>11, <1>13, <2>1
<1>15. migrations' = migrations \o <<c>>
  <2>1. c = CreateIndex(adds[m])
    BY <1>2, <1>7, <1>10, <1>11 DEF CreatesSaid
  <2>2. migrations' = Append(migrations, c)
    BY <1>3, <1>10, <2>1
  <2>3. QED BY <1>6, <1>12, <2>2, AppendIsConcat
<1>16. PICK e : e = <<c>>
  OBVIOUS
<1>17. m \in 0..Len(adds) /\ addIndexes' = Rest(adds, m) /\ so \o e = first \o Taken(said, m)
  BY <1>7, <1>10, <1>14, <1>16, SMTT(30)
<1>18. \E l \in 0..Len(Gathered(t, old, new, TRUE)) :
         /\ addIndexes' = Rest(Gathered(t, old, new, TRUE), l)
         /\ so \o e = (FieldsSaid(t, old, new)'
                         \o FlattenSeq(DropsSaid(Gathered(t, old, new, FALSE), droppedColumn')))
                        \o Taken(CreatesSaid(Gathered(t, old, new, TRUE)), l)
  <2>1. first = FieldsSaid(t, old, new)'
                  \o FlattenSeq(DropsSaid(Gathered(t, old, new, FALSE), droppedColumn'))
    BY <1>1, <1>3 DEF FieldsSaid, KeySaid, Answer
  <2>2. QED BY <1>1, <1>2, <1>17, <2>1, Zenon
<1>19. Said(t, old, new, before, so \o e)'
  BY <1>3, <1>18 DEF Said, Indexing
<1>20. QED BY <1>12, <1>15, <1>16, <1>19

\* A step of an iteration says what the function says there.
LEMMA SaidStep ==
  ASSUME DueInv, [Next]_vars, pc' \in Inner, NEW t, NEW old, NEW new, Iteration(t, old, new),
         NEW before, NEW so \in Seq(Change), Said(t, old, new, before, so)
  PROVE  \E e \in Seq(Change) : migrations' = migrations \o e /\ Said(t, old, new, before, so \o e)'
<1>1. CASE CreateTableStep
  BY <1>1, CreateSaid
<1>2. CASE AlterNewField
  BY <1>2, AlterNewSaid
<1>3. CASE AlterOldField
  BY <1>3, AlterOldSaid
<1>4. CASE PrimaryKey
  BY <1>4, PrimaryKeySaid
<1>5. CASE VisitIndex
  BY <1>5, VisitSaid
<1>6. CASE EndMakeIndexes
  BY <1>6, EndVisitsSaid
<1>7. CASE DropIndexStep
  BY <1>7, DropSaid
<1>8. CASE EndDropIndexes
  BY <1>8, EndDropsSaid
<1>9. CASE AddIndexStep
  BY <1>9, AddSaid
<1>10. CASE UNCHANGED vars
  <2>1. migrations \in Seq(Change)
    BY DEF DueInv, TypeInv, TypeOK
  <2>2. <<>> \in Seq(Change) /\ migrations' = migrations \o <<>> /\ so \o <<>> = so
    BY <1>10, <2>1, ConcatEmptySeq, EmptySeq DEF vars
  <2>3. FieldsSaid(t, old, new)' = FieldsSaid(t, old, new)
    BY <1>10 DEF FieldsSaid, KeySaid, Answer, vars
  <2>4. Said(t, old, new, before, so)'
    BY <1>10, <2>3 DEF Said, vars, Indexing
  <2>5. QED BY <2>2, <2>4
<1>11. ~(GetTableMap \/ NextTable \/ Fail \/ EndTable \/ EndTables \/ DropLeftover \/ Return)
  BY DEF Iteration, Inner, Altering, Indexing, GetTableMap, NextTable, Fail, EndTable, EndTables,
         DropLeftover, Return
<1>12. QED
  BY <1>1, <1>2, <1>3, <1>4, <1>5, <1>6, <1>7, <1>8, <1>9, <1>10, <1>11 DEF Next

\* What Diff read is a schema; it is all declared when anything is.
LEMMA AnswerType ==
  ASSUME TypeInv
  PROVE  /\ IsSchema(Answer)
         /\ DOMAIN Answer = DOMAIN schema \intersect Requested
         /\ DOMAIN src # {} => DOMAIN Answer \subseteq DOMAIN src
         /\ \A t \in DOMAIN src : OldOf(Answer, t) = OldFields(t)
<1>1. IsSchema(schema)
  BY DEF TypeInv, TypeOK
<1>2. DOMAIN Answer = DOMAIN schema \intersect Requested /\ \A t \in DOMAIN Answer : Answer[t] = schema[t]
  BY DEF Answer, Read, Requested
<1>3. IsSchema(Answer)
  <2> DEFINE D == DOMAIN schema \intersect Requested
  <2>1. Answer = [t \in D |-> schema[t]]
    BY DEF Answer, Read, Requested
  <2>2. D \in SUBSET (DOMAIN schema)
    OBVIOUS
  <2> HIDE DEF D
  <2>3. QED BY <1>1, <2>1, <2>2, RestrictedSchema
<1>4. DOMAIN src # {} => DOMAIN Answer \subseteq DOMAIN src
  BY <1>2 DEF Requested
<1>5. ASSUME NEW t \in DOMAIN src PROVE OldOf(Answer, t) = OldFields(t)
  <2>1. t \in Requested
    BY DEF Requested
  <2>2. QED BY <1>2, <2>1 DEF OldOf, OldFields
<1>6. QED BY <1>2, <1>3, <1>4, <1>5

\* When an iteration ends, all was said that the function says of the table.
LEMMA SaidIsTable ==
  ASSUME DueInv, EndTable, NEW t, NEW old, NEW new, Iteration(t, old, new),
         NEW before, NEW so \in Seq(Change), Said(t, old, new, before, so)
  PROVE  /\ so = TableChanges(t, old, new, t \in DOMAIN Answer,
                              before \union DroppedColumns(old, new), PrimaryKeyModifier)
         /\ droppedColumn = before \union DroppedColumns(old, new)
<1>1. PICK drops, adds, d, first :
        /\ drops = Gathered(t, old, new, FALSE) /\ adds = Gathered(t, old, new, TRUE)
        /\ d = before \union DroppedColumns(old, new) /\ first = FieldsSaid(t, old, new)
  OBVIOUS
<1>2. PICK dropped, said : dropped = FlattenSeq(DropsSaid(drops, d)) /\ said = CreatesSaid(adds)
  OBVIOUS
<1>3. pc = "addIndexes" /\ addIndexes = <<>> /\ droppedColumn = d
  BY <1>1 DEF EndTable, Said, Indexing
<1>4. \E k \in 0..Len(adds) : addIndexes = Rest(adds, k) /\ so = (first \o dropped) \o Taken(said, k)
  BY <1>1, <1>2, <1>3, Zenon DEF Said
<1>5. PICK k \in 0..Len(adds) : addIndexes = Rest(adds, k) /\ so = (first \o dropped) \o Taken(said, k)
  BY <1>4
<1>6. t \in Tables /\ old \in Seq(Field) /\ new \in Seq(Field)
  BY IterationType
<1>7. adds \in Seq(Index) /\ said \in Seq(Change) /\ Len(said) = Len(adds)
  BY <1>1, <1>2, <1>6, GatheredSaid
<1>8. k = Len(adds)
  BY <1>3, <1>5, <1>7, RestSteps
<1>9. Taken(said, Len(said)) = said
  BY <1>7, TakenSteps
<1>10. so = (first \o dropped) \o said
  BY <1>5, <1>7, <1>8, <1>9
<1>11. (first \o dropped) \o said
         = TableChanges(t, old, new, t \in DOMAIN Answer, d, PrimaryKeyModifier)
  BY <1>1, <1>2, Zenon DEF TableChanges, FieldsSaid, KeySaid, DropsSaid, CreatesSaid
<1>12. QED BY <1>1, <1>3, <1>10, <1>11

\* What Said says of a table holds of the table of the next state's iteration.
LEMMA SaidNext ==
  ASSUME NEW t, NEW old, NEW new, NEW before, NEW so, NEW order,
         t = cur', old = Old', new = New', before = DroppedBy(order, src, Answer)',
         Said(t, old, new, before, so)'
  PROVE  Said(cur, Old, New, DroppedBy(order, src, Answer), so)'
BY DEF Said

\* An order of no table, and what is said of none.
LEMMA NoneSaid ==
  /\ \A source, tables, pkModifier :
       /\ ChangesInOrder(<<>>, source, tables, pkModifier) = <<>>
       /\ DroppedBy(<<>>, source, tables) = {}
  /\ \A o \in SetToSeqs({}) : [n \in DOMAIN o |-> DropTable(o[n])] = <<>>
<1>1. DOMAIN <<>> = {} /\ FlattenSeq(<<>>) = <<>>
  BY DEF FlattenSeq
<1>2. ASSUME NEW source, NEW tables, NEW pkModifier
      PROVE  ChangesInOrder(<<>>, source, tables, pkModifier) = <<>>
  <2> DEFINE ss == [n \in DOMAIN <<>> |->
                      LET t == <<>>[n]
                          dropped == UNION {DroppedColumns(OldOf(tables, <<>>[m]), source[<<>>[m]]) : m \in 1..n}
                      IN  TableChanges(t, OldOf(tables, t), source[t], t \in DOMAIN tables, dropped, pkModifier)]
  <2>1. ss = <<>>
    BY <1>1
  <2>2. ChangesInOrder(<<>>, source, tables, pkModifier) = FlattenSeq(ss)
    BY DEF ChangesInOrder
  <2> HIDE DEF ss
  <2>3. QED BY <1>1, <2>1, <2>2
<1>3. \A source, tables : DroppedBy(<<>>, source, tables) = {}
  BY <1>1 DEF DroppedBy
<1>4. ASSUME NEW o \in SetToSeqs({}) PROVE [n \in DOMAIN o |-> DropTable(o[n])] = <<>>
  <2>1. Cardinality({}) = 0
    BY FS_EmptySet
  <2>2. DOMAIN o = {}
    BY <2>1 DEF SetToSeqs
  <2>3. QED BY <2>2
<1>5. QED BY <1>2, <1>3, <1>4

\* The tables are visited in the order of their names.
LEMMA RankStep ==
  ASSUME DueInv, ComputedInv, [Next]_vars, pc' \in Inner
  PROVE  \A u \in names' : Rank[cur'] < Rank[u]
<1>1. names \subseteq Tables /\ cur \in Tables /\ Rank \in [Tables -> Nat]
  BY RankAssumption DEF DueInv, TypeInv, TypeOK, IsSchema
<1>2. CASE NextTable
  <2>1. PICK t \in names : (\A u \in names : Rank[t] <= Rank[u]) /\ cur' = t /\ names' = names \ {t}
    BY <1>2 DEF NextTable
  <2>2. \A u \in names' : u \in Tables /\ Rank[u] # Rank[t] /\ Rank[t] <= Rank[u] /\ Rank[u] \in Nat
    BY <1>1, <2>1, RankAssumption
  <2>3. Rank[t] \in Nat
    BY <1>1, <2>1
  <2>4. QED BY <2>1, <2>2, <2>3
<1>3. CASE ~NextTable
  <2>1. pc \in Inner /\ cur' = cur /\ names' = names
    BY <1>3
    DEF Inner, Altering, Indexing, Next, vars, GetTableMap, Fail, CreateTableStep, AlterNewField,
        AlterOldField, PrimaryKey, VisitIndex, EndMakeIndexes, DropIndexStep, EndDropIndexes,
        AddIndexStep, EndTable, EndTables, DropLeftover, Return
  <2>2. QED BY <2>1 DEF ComputedInv
<1>4. QED BY <1>2, <1>3

\* What was done stays done.
LEMMA DoneStays ==
  ASSUME [Next]_vars
  PROVE  /\ Answer' = Answer
         /\ \A order : /\ ChangesInOrder(order, src, Answer, PrimaryKeyModifier)'
                            = ChangesInOrder(order, src, Answer, PrimaryKeyModifier)
                       /\ DroppedBy(order, src, Answer)' = DroppedBy(order, src, Answer)
<1>1. src' = src /\ schema' = schema
  BY SourcesKept
<1>2. QED BY <1>1 DEF Answer, ChangesInOrder, DroppedBy

\* Before the first table, nothing is said.
LEMMA ReadComputes ==
  ASSUME DueInv, ComputedInv, GetTableMap
  PROVE  \E order \in Sorted(DOMAIN src \ Pending)' : \E so \in Seq(Change) : Computed(order, so)'
<1>1. src' = src /\ schema' = schema /\ Answer' = Answer
  BY DEF GetTableMap, Answer
<1>2. /\ pc' = "tables" /\ names' = DOMAIN src /\ migrations' = <<>> /\ droppedColumn' = {}
      /\ DOMAIN tableMap' = DOMAIN schema \intersect Requested
  BY DEF GetTableMap, ComputedInv
<1>3. Pending' = DOMAIN src /\ (DOMAIN src \ Pending)' = {} /\ pc' \notin Inner
  BY <1>1, <1>2 DEF Pending, Inner, Altering, Indexing
<1>4. ((DOMAIN Answer \ DOMAIN src) \ DOMAIN tableMap)' = {}
  BY <1>1, <1>2, AnswerType DEF DueInv
<1>5. <<>> \in SetToSeqs({}) /\ [n \in DOMAIN <<>> |-> DropTable(<<>>[n])] = <<>>
  BY SetToSeqsAppend, NoneSaid
<1>6. PICK order, so : order = <<>> /\ so = <<>>
  OBVIOUS
<1>7. /\ ChangesInOrder(order, src, Answer, PrimaryKeyModifier)' = <<>>
      /\ DroppedBy(order, src, Answer)' = {}
      /\ DOMAIN order = {}
      /\ <<>> \o so = <<>>
      /\ order \in Sorted({}) /\ so \in Seq(Change)
  BY <1>6, NoneSaid, SortedAppend, ConcatEmptySeq, EmptySeq
<1>8. \E o \in SetToSeqs(((DOMAIN Answer \ DOMAIN src) \ DOMAIN tableMap)') :
        so = [n \in DOMAIN o |-> DropTable(o[n])]
  BY <1>4, <1>5, <1>6
<1>9. Computed(order, so)'
  BY <1>2, <1>3, <1>7, <1>8 DEF Computed
<1>10. order \in Sorted(DOMAIN src \ Pending)'
  <2>1. Sorted((DOMAIN src \ Pending)') = Sorted({})
    BY <1>3
  <2>2. QED BY <1>7, <2>1
<1>11. QED BY <1>7, <1>9, <1>10

\* Nothing is said of a table when its iteration starts.
LEMMA NextTableComputes ==
  ASSUME DueInv, ComputedInv, NextTable
  PROVE  \E order \in Sorted(DOMAIN src \ Pending)' : \E so \in Seq(Change) : Computed(order, so)'
<1>1. /\ pc = "tables" /\ i' = 1
      /\ UNCHANGED <<src, schema, tableMap, migrations, droppedColumn>>
  BY DEF NextTable
<1>2. PICK u \in names : cur' = u /\ names' = names \ {u}
                         /\ pc' = IF u \in DOMAIN tableMap THEN "alterNew" ELSE "create"
  BY DEF NextTable
<1>3. pc' \in {"alterNew", "create"} /\ pc' \in Inner /\ Pending' = Pending
  BY <1>1, <1>2 DEF Pending, Inner, Altering, Indexing
<1>4. PICK order \in Sorted(DOMAIN src \ Pending) : \E so \in Seq(Change) : Computed(order, so)
  BY <1>1 DEF ComputedInv
<1>5. PICK so \in Seq(Change) : Computed(order, so)
  BY <1>4
<1>6. DOMAIN Answer \subseteq DOMAIN src
  BY <1>2, AnswerType DEF DueInv, TypeInv, TypeOK
<1>7. so = <<>>
  <2>1. \E o \in SetToSeqs((DOMAIN Answer \ DOMAIN src) \ DOMAIN tableMap) : so = [n \in DOMAIN o |-> DropTable(o[n])]
    BY <1>1, <1>5 DEF Computed, Inner, Altering, Indexing
  <2>2. (DOMAIN Answer \ DOMAIN src) \ DOMAIN tableMap = {}
    BY <1>6
  <2>3. QED BY <2>1, <2>2, NoneSaid
<1>8. /\ Answer' = Answer
      /\ ChangesInOrder(order, src, Answer, PrimaryKeyModifier)' = ChangesInOrder(order, src, Answer, PrimaryKeyModifier)
      /\ DroppedBy(order, src, Answer)' = DroppedBy(order, src, Answer)
  BY DoneStays DEF Next
<1>9. droppedColumn' = DroppedBy(order, src, Answer)'
  BY <1>1, <1>5, <1>8 DEF Computed, Inner, Altering, Indexing
<1>10. PICK t, old, new, before :
         t = cur' /\ old = Old' /\ new = New' /\ before = DroppedBy(order, src, Answer)'
  OBVIOUS
<1>11. new \in Seq(Field) /\ Len(new) \in Nat
  <2>1. TypeInv'
    BY TypeInvStep DEF DueInv, Next
  <2>2. u \in DOMAIN src /\ IsSchema(src)
    BY <1>2 DEF DueInv, TypeInv, TypeOK
  <2>3. new = src[u]
    BY <1>1, <1>2, <1>10 DEF New
  <2>4. QED BY <2>2, <2>3, SchemaFields, LenProperties
<1>12. Joined(NewSaid(old, new), 0) = <<>>
  BY DEF Joined, FlattenSeq
<1>13. Said(t, old, new, before, so)'
  <2>1. 1 - 1 = 0 /\ 0 <= Len(new)
    BY <1>11
  <2>2. QED BY <1>1, <1>3, <1>7, <1>9, <1>10, <1>12, <2>1 DEF Said, Indexing
<1>14. Said(cur, Old, New, DroppedBy(order, src, Answer), so)'
  BY <1>10, <1>13, SaidNext
<1>15. Computed(order, so)'
  BY <1>1, <1>3, <1>5, <1>8, <1>14 DEF Computed
<1>16. QED BY <1>1, <1>3, <1>5, <1>15

\* What is said of the tables that are done is made of changes.
LEMMA DoneType ==
  ASSUME TypeInv, NEW order \in Sorted(DOMAIN src \ Pending)
  PROVE  /\ order \in Seq(DOMAIN src)
         /\ ChangesInOrder(order, src, Answer, PrimaryKeyModifier) \in Seq(Change)
<1>1. IsSchema(src) /\ IsSchema(Answer)
  BY AnswerType DEF TypeInv, TypeOK
<1>2. order \in Seq(DOMAIN src)
  <2> DEFINE S == DOMAIN src \ Pending
  <2>1. S \in SUBSET Tables /\ S \subseteq DOMAIN src
    BY <1>1 DEF IsSchema
  <2>2. order \in Sorted(S)
    OBVIOUS
  <2> HIDE DEF S
  <2>3. order \in Seq(S)
    BY <2>1, <2>2, OrderType
  <2>4. QED BY <2>1, <2>3, SeqMonotonic
<1>3. PICK tables, source : tables = Answer /\ source = src
  OBVIOUS
<1>4. ASSUME NEW t \in DOMAIN source
      PROVE  ChangesInOrder(order, source, tables, PrimaryKeyModifier) \in Seq(Change)
  <2>1. IsSchema(source) /\ IsSchema(tables) /\ order \in Seq(DOMAIN source)
    BY <1>1, <1>2, <1>3
  <2>2. ChangesInOrder(order, source, tables, PrimaryKeyModifier)
          \in Seq(Plans(source, tables, PrimaryKeyModifier))
    BY <2>1, ChangesAppend
  <2>3. Plans(source, tables, PrimaryKeyModifier) \subseteq Change
    BY DEF Plans
  <2>4. QED BY <2>2, <2>3, SeqMonotonic
<1>5. ASSUME DOMAIN source = {}
      PROVE  ChangesInOrder(order, source, tables, PrimaryKeyModifier) \in Seq(Change)
  <2>1. order = <<>>
    <3>1. order \in Seq({})
      BY <1>2, <1>3, <1>5
    <3>2. Len(order) = 0
      BY <3>1, LenProperties, ElementOfSeq
    <3>3. QED BY <3>1, <3>2, EmptySeq
  <2>2. ChangesInOrder(<<>>, source, tables, PrimaryKeyModifier) = <<>>
    BY NoneSaid, Zenon
  <2>3. <<>> \in Seq(Change)
    BY EmptySeq
  <2>4. QED BY <2>1, <2>2, <2>3, Zenon
<1>6. QED BY <1>2, <1>3, <1>4, <1>5

\* A step of an iteration adds to what was said of its table.
LEMMA InnerComputes ==
  ASSUME DueInv, ComputedInv, [Next]_vars, pc \in Inner, pc' \in Inner
  PROVE  \E order \in Sorted(DOMAIN src \ Pending)' : \E so \in Seq(Change) : Computed(order, so)'
<1>1. PICK order \in Sorted(DOMAIN src \ Pending) : \E so \in Seq(Change) : Computed(order, so)
  BY DEF ComputedInv, Inner, Altering, Indexing
<1>2. PICK so \in Seq(Change) : Computed(order, so)
  BY <1>1
<1>3. PICK t, old, new, before :
        t = cur /\ old = Old /\ new = New /\ before = DroppedBy(order, src, Answer)
  OBVIOUS
<1>4. Iteration(t, old, new) /\ Said(t, old, new, before, so)
  BY <1>2, <1>3 DEF Iteration, Computed
<1>5. PICK e \in Seq(Change) : migrations' = migrations \o e /\ Said(t, old, new, before, so \o e)'
  BY <1>4, SaidStep
<1>6. cur' = cur /\ Old' = Old /\ New' = New /\ src' = src /\ schema' = schema
  BY SidesStay DEF DueInv, TypeInv
<1>7. names' = names
  BY DEF Inner, Altering, Indexing, Next, vars, GetTableMap, NextTable, Fail, CreateTableStep,
         AlterNewField, AlterOldField, PrimaryKey, VisitIndex, EndMakeIndexes, DropIndexStep,
         EndDropIndexes, AddIndexStep, EndTable, EndTables, DropLeftover, Return
<1>8. Pending' = Pending
  BY <1>6, <1>7 DEF Pending
<1>9. PICK said, c : said = so \o e /\ c = ChangesInOrder(order, src, Answer, PrimaryKeyModifier)
  OBVIOUS
<1>10. c \in Seq(Change)
  BY <1>1, <1>9, DoneType DEF DueInv
<1>11. said \in Seq(Change) /\ migrations' = c \o said
  <2>1. said \in Seq(Change)
    BY <1>9, ConcatProperties
  <2>2. migrations = c \o so
    BY <1>2, <1>9 DEF Computed
  <2>3. (c \o so) \o e = c \o (so \o e)
    BY <1>10, ConcatAssociative
  <2>4. QED BY <1>5, <1>9, <2>1, <2>2, <2>3
<1>12. /\ ChangesInOrder(order, src, Answer, PrimaryKeyModifier)' = c
       /\ DroppedBy(order, src, Answer)' = DroppedBy(order, src, Answer)
  BY <1>9, DoneStays
<1>13. Said(cur, Old, New, DroppedBy(order, src, Answer), said)'
  <2>1. Said(t, old, new, before, said)'
    BY <1>5, <1>9 DEF Said
  <2>2. QED BY <1>3, <1>6, <1>12, <2>1, SaidNext
<1>14. Computed(order, said)'
  BY <1>2, <1>8, <1>11, <1>12, <1>13 DEF Computed
<1>15. QED BY <1>6, <1>8, <1>11, <1>14

\* The end of an iteration makes its table one of those that are done.
LEMMA EndTableComputes ==
  ASSUME DueInv, ComputedInv, EndTable
  PROVE  \E order \in Sorted(DOMAIN src \ Pending)' : \E so \in Seq(Change) : Computed(order, so)'
<1>1. /\ pc = "addIndexes" /\ pc' = "tables" /\ pc \in Inner /\ pc' \notin Inner
      /\ UNCHANGED <<src, schema, names, cur, migrations, droppedColumn>>
      /\ DOMAIN tableMap' = DOMAIN tableMap \ {cur}
  BY DEF EndTable, Inner, Altering, Indexing
<1>2. PICK order \in Sorted(DOMAIN src \ Pending) : \E so \in Seq(Change) : Computed(order, so)
  BY <1>1 DEF ComputedInv
<1>3. PICK so \in Seq(Change) : Computed(order, so)
  BY <1>2
<1>4. PICK t, old, new, before :
        t = cur /\ old = Old /\ new = New /\ before = DroppedBy(order, src, Answer)
  OBVIOUS
<1>5. Iteration(t, old, new) /\ Said(t, old, new, before, so)
  BY <1>1, <1>3, <1>4 DEF Iteration, Computed
<1>6. /\ so = TableChanges(t, old, new, t \in DOMAIN Answer,
                           before \union DroppedColumns(old, new), PrimaryKeyModifier)
      /\ droppedColumn = before \union DroppedColumns(old, new)
  BY <1>5, SaidIsTable
<1>7. t \in DOMAIN src /\ t \notin names /\ Pending = names \union {t} /\ Pending' = names
      /\ IsSchema(src) /\ IsSchema(Answer) /\ DOMAIN Answer \subseteq DOMAIN src
  <2>1. t \in DOMAIN src /\ t \notin names
    BY <1>1, <1>4 DEF DueInv, TypeInv, LoopInv
  <2>2. QED BY <1>1, <1>4, <2>1, AnswerType DEF DueInv, TypeInv, TypeOK, Pending
<1>8. OldOf(Answer, t) = old /\ src[t] = new
  <2>1. OldOf(Answer, t) = OldFields(t)
    BY <1>7, AnswerType DEF DueInv
  <2>2. Old = OldFields(cur)
    BY <1>1, OldIsRead DEF DueInv
  <2>3. QED BY <1>4, <2>1, <2>2 DEF New
<1>9. PICK longer : longer = Append(order, t)
  OBVIOUS
<1>10. /\ ChangesInOrder(longer, src, Answer, PrimaryKeyModifier)
            = ChangesInOrder(order, src, Answer, PrimaryKeyModifier) \o so
       /\ DroppedBy(longer, src, Answer) = droppedColumn
  <2>1. PICK source, tables : source = src /\ tables = Answer
    OBVIOUS
  <2>2. IsSchema(source) /\ IsSchema(tables) /\ t \in DOMAIN source /\ order \in Seq(DOMAIN source)
    BY <1>2, <1>7, <2>1, DoneType DEF DueInv
  <2>3. AddsTable(order, t, source, tables, PrimaryKeyModifier)
    BY <2>2, ChangesAppend
  <2>4. AddsTable(order, t, src, Answer, PrimaryKeyModifier)
    BY <2>1, <2>3
  <2>5. QED BY <1>4, <1>6, <1>8, <1>9, <2>4 DEF AddsTable
<1>11. longer \in Sorted((DOMAIN src \ Pending)')
  <2>1. PICK S : S = DOMAIN src \ Pending
    OBVIOUS
  <2>2. S \in SUBSET Tables /\ t \in Tables /\ t \notin S /\ (DOMAIN src \ Pending)' = S \union {t}
    BY <1>1, <1>7, <2>1 DEF IsSchema
  <2>3. \A n \in DOMAIN order : Rank[order[n]] < Rank[t]
    BY <1>3, <1>7 DEF Computed
  <2>4. order \in Sorted(S)
    BY <1>2, <2>1
  <2>5. Append(order, t) \in Sorted(S \union {t})
    BY <2>2, <2>3, <2>4, SortedAppend
  <2>6. QED BY <1>9, <2>2, <2>5
<1>12. \A u \in names : \A n \in DOMAIN longer : Rank[longer[n]] < Rank[u]
  <2>1. order \in Seq(DOMAIN src)
    BY <1>2, DoneType DEF DueInv
  <2>2. /\ DOMAIN longer = 1..(Len(order) + 1) /\ DOMAIN order = 1..Len(order) /\ Len(order) \in Nat
        /\ \A n \in 1..Len(order) : longer[n] = order[n]
        /\ longer[Len(order) + 1] = t
    BY <1>7, <1>9, <2>1, AppendProperties, LenProperties
  <2>3. \A u \in names : Rank[t] < Rank[u]
    BY <1>1, <1>4 DEF ComputedInv
  <2>4. \A u \in names : \A n \in DOMAIN order : Rank[order[n]] < Rank[u]
    BY <1>3, <1>7 DEF Computed
  <2>5. \A n \in DOMAIN longer : n \in DOMAIN order \/ n = Len(order) + 1
    BY <2>2
  <2>6. QED BY <2>2, <2>3, <2>4, <2>5
<1>13. PICK none, changes : none = <<>> /\ changes = ChangesInOrder(longer, src, Answer, PrimaryKeyModifier)
  OBVIOUS
<1>14. none \in Seq(Change) /\ migrations' = changes \o none
  <2>1. migrations \in Seq(Change)
    BY DEF DueInv, TypeInv, TypeOK
  <2>2. migrations = changes
    BY <1>3, <1>10, <1>13 DEF Computed
  <2>3. QED BY <1>1, <1>13, <2>1, <2>2, ConcatEmptySeq, EmptySeq
<1>15. /\ Answer' = Answer
       /\ ChangesInOrder(longer, src, Answer, PrimaryKeyModifier)' = changes
       /\ DroppedBy(longer, src, Answer)' = DroppedBy(longer, src, Answer)
  BY <1>13, DoneStays DEF Next
<1>16. \E o \in SetToSeqs(((DOMAIN Answer \ DOMAIN src) \ DOMAIN tableMap)') :
         none = [n \in DOMAIN o |-> DropTable(o[n])]
  <2>1. ((DOMAIN Answer \ DOMAIN src) \ DOMAIN tableMap)' = {}
    BY <1>1, <1>7, <1>15
  <2>2. <<>> \in SetToSeqs({}) /\ [n \in DOMAIN <<>> |-> DropTable(<<>>[n])] = <<>>
    BY SetToSeqsAppend, NoneSaid
  <2>3. QED BY <1>13, <2>1, <2>2
<1>17. droppedColumn' = DroppedBy(longer, src, Answer)'
  BY <1>1, <1>10, <1>15
<1>18. Computed(longer, none)'
  BY <1>1, <1>7, <1>12, <1>14, <1>15, <1>16, <1>17 DEF Computed
<1>19. QED BY <1>11, <1>14, <1>18

\* so drops the tables of S in some order.
Drops(so, S) == \E o \in SetToSeqs(S) : so = [n \in DOMAIN o |-> DropTable(o[n])]

\* A table left over that is dropped is one more of those that were.
LEMMA DropsAppend ==
  ASSUME NEW S \in SUBSET Tables, NEW t \in Tables \ S, NEW so \in Seq(Change), Drops(so, S)
  PROVE  Append(so, DropTable(t)) \in Seq(Change) /\ Drops(Append(so, DropTable(t)), S \union {t})
<1>0. PICK o \in SetToSeqs(S) : so = [n \in DOMAIN o |-> DropTable(o[n])]
  BY DEF Drops
<1> DEFINE p == Append(o, t)
           c == DropTable(t)
           all == Append(so, c)
           N == Len(o)
<1>1. IsFiniteSet(S) /\ o \in Seq(S)
  BY TablesAssumption, FS_Subset, SetToSeqType
<1>2. o \in Seq(Tables) /\ DOMAIN o = 1..N /\ N \in Nat
  BY <1>1, SeqMonotonic, LenProperties
<1>3. p \in SetToSeqs(S \union {t})
  BY <1>1, SetToSeqsAppend
<1>4. DOMAIN p = 1..(N + 1) /\ (\A n \in 1..N : p[n] = o[n]) /\ p[N + 1] = t
  BY <1>2, AppendProperties, LenProperties
<1>5. c \in Change
  BY ChangeTypes DEF DropTable
<1>6. Len(so) = N /\ \A n \in 1..N : so[n] = DropTable(o[n])
  BY <1>0, <1>2, LenProperties
<1> HIDE DEF N, p, c
<1>7. /\ all \in Seq(Change)
      /\ DOMAIN all = 1..(N + 1)
      /\ \A n \in 1..N : all[n] = so[n]
      /\ all[N + 1] = c
  BY <1>5, <1>6, AppendProperties, LenProperties
<1>8. all = [n \in 1..(N + 1) |-> all[n]]
  BY <1>5, <1>7, AppendProperties, LenProperties
<1> HIDE DEF all
<1>9. \A n \in 1..(N + 1) : all[n] = DropTable(p[n])
  <2>1. \A n \in 1..(N + 1) : n \in 1..N \/ n = N + 1
    BY <1>2
  <2>2. QED BY <1>4, <1>6, <1>7, <2>1 DEF c
<1>10. all = [n \in DOMAIN p |-> DropTable(p[n])]
  BY <1>4, <1>8, <1>9
<1>11. QED BY <1>3, <1>7, <1>10 DEF all, c, Drops

LEMMA DropLeftoverComputes ==
  ASSUME DueInv, ComputedInv, DropLeftover
  PROVE  \E order \in Sorted(DOMAIN src \ Pending)' : \E so \in Seq(Change) : Computed(order, so)'
<1>1. /\ pc = "leftover" /\ pc' = "leftover" /\ pc \notin Inner /\ pc' \notin Inner
      /\ UNCHANGED <<src, schema, names, cur, droppedColumn>>
  BY DEF DropLeftover, Inner, Altering, Indexing
<1>2. PICK t \in DOMAIN tableMap : /\ migrations' = Append(migrations, DropTable(t))
                                 /\ DOMAIN tableMap' = DOMAIN tableMap \ {t}
  BY DEF DropLeftover
<1>3. PICK order \in Sorted(DOMAIN src \ Pending) : \E so \in Seq(Change) : Computed(order, so)
  BY <1>1 DEF ComputedInv
<1>4. PICK so \in Seq(Change) : Computed(order, so)
  BY <1>3
<1>5. PICK changes, S, c : /\ changes = ChangesInOrder(order, src, Answer, PrimaryKeyModifier)
                           /\ S = (DOMAIN Answer \ DOMAIN src) \ DOMAIN tableMap
                           /\ c = DropTable(t)
  OBVIOUS
<1>6. Pending = {} /\ Pending' = {}
  BY <1>1 DEF DueInv, ReadInv, Pending
<1>7. /\ IsSchema(Answer) /\ t \in DOMAIN Answer \ DOMAIN src
      /\ S \in SUBSET Tables /\ t \in Tables \ S
  <2>1. t \in DOMAIN schema \intersect Requested /\ t \notin DOMAIN src
    BY <1>1, <1>2, <1>6 DEF DueInv, ReadInv
  <2>2. IsSchema(Answer) /\ DOMAIN Answer = DOMAIN schema \intersect Requested
    BY AnswerType DEF DueInv
  <2>3. QED BY <1>2, <1>5, <2>1, <2>2 DEF IsSchema
<1>8. Drops(so, S)
  BY <1>1, <1>4, <1>5 DEF Computed, Drops
<1>9. PICK said : said = Append(so, c)
  OBVIOUS
<1>10. said \in Seq(Change) /\ Drops(said, S \union {t})
  BY <1>5, <1>7, <1>8, <1>9, DropsAppend
<1>11. migrations' = changes \o said
  <2>1. changes \in Seq(Change) /\ migrations \in Seq(Change) /\ c \in Change
    BY <1>3, <1>5, <1>7, DoneType, ChangeTypes DEF DueInv, TypeInv, TypeOK, DropTable
  <2>2. <<c>> \in Seq(Change)
    BY <2>1, EmptySeq
  <2>3. said = so \o <<c>> /\ migrations' = migrations \o <<c>>
    BY <1>2, <1>5, <1>9, <2>1, AppendIsConcat
  <2>4. migrations = changes \o so
    BY <1>4, <1>5 DEF Computed
  <2>5. (changes \o so) \o <<c>> = changes \o (so \o <<c>>)
    BY <2>1, <2>2, ConcatAssociative
  <2>6. QED BY <2>3, <2>4, <2>5
<1>12. /\ Answer' = Answer
       /\ ChangesInOrder(order, src, Answer, PrimaryKeyModifier)' = changes
       /\ DroppedBy(order, src, Answer)' = DroppedBy(order, src, Answer)
  BY <1>5, DoneStays DEF Next
<1>13. ((DOMAIN Answer \ DOMAIN src) \ DOMAIN tableMap)' = S \union {t}
  BY <1>1, <1>2, <1>5, <1>7, <1>12
<1>14. \E o \in SetToSeqs(((DOMAIN Answer \ DOMAIN src) \ DOMAIN tableMap)') :
         said = [n \in DOMAIN o |-> DropTable(o[n])]
  BY <1>10, <1>13 DEF Drops
<1>15. droppedColumn' = DroppedBy(order, src, Answer)'
  BY <1>1, <1>4, <1>12 DEF Computed
<1>16. Computed(order, said)'
  BY <1>1, <1>6, <1>11, <1>12, <1>14, <1>15 DEF Computed
<1>17. order \in Sorted(DOMAIN src \ Pending)'
  BY <1>1, <1>3, <1>6
<1>18. QED BY <1>10, <1>16, <1>17

\* Between two tables, or at the end, nothing is said.
LEMMA NothingComputes ==
  ASSUME ComputedInv, [Next]_vars, UNCHANGED <<tableMap, names, migrations, droppedColumn>>,
         pc \notin Inner \union {"start", "failed"}, pc' \notin Inner
  PROVE  \E order \in Sorted(DOMAIN src \ Pending)' : \E so \in Seq(Change) : Computed(order, so)'
<1>1. PICK order \in Sorted(DOMAIN src \ Pending) : \E so \in Seq(Change) : Computed(order, so)
  BY DEF ComputedInv
<1>2. PICK so \in Seq(Change) : Computed(order, so)
  BY <1>1
<1>3. /\ src' = src /\ Pending' = Pending /\ Answer' = Answer
      /\ ChangesInOrder(order, src, Answer, PrimaryKeyModifier)'
           = ChangesInOrder(order, src, Answer, PrimaryKeyModifier)
      /\ DroppedBy(order, src, Answer)' = DroppedBy(order, src, Answer)
  BY SourcesKept, DoneStays DEF Pending
<1>4. Computed(order, so)'
  BY <1>2, <1>3 DEF Computed
<1>5. QED BY <1>1, <1>3, <1>4

LEMMA ComputedInvStep == DueInv /\ ComputedInv /\ [Next]_vars => ComputedInv'
<1> SUFFICES ASSUME DueInv, ComputedInv, [Next]_vars PROVE ComputedInv'
  OBVIOUS
<1>1. pc' = "start" => migrations' = <<>> /\ droppedColumn' = {}
  BY DEF ComputedInv, Next, vars, GetTableMap, NextTable, Fail, CreateTableStep, AlterNewField,
         AlterOldField, PrimaryKey, VisitIndex, EndMakeIndexes, DropIndexStep, EndDropIndexes,
         AddIndexStep, EndTable, EndTables, DropLeftover, Return
<1>2. pc' \in Inner => \A u \in names' : Rank[cur'] < Rank[u]
  BY RankStep
<1>3. ASSUME pc' \notin {"start", "failed"}
      PROVE  \E order \in Sorted(DOMAIN src \ Pending)' : \E so \in Seq(Change) : Computed(order, so)'
  <2>1. CASE GetTableMap
    BY <2>1, ReadComputes
  <2>2. CASE NextTable
    BY <2>2, NextTableComputes
  <2>3. CASE EndTable
    BY <2>3, EndTableComputes
  <2>4. CASE DropLeftover
    BY <2>4, DropLeftoverComputes
  <2>5. CASE EndTables \/ Return \/ (UNCHANGED vars /\ pc \notin Inner)
    <3>1. /\ UNCHANGED <<tableMap, names, migrations, droppedColumn>>
          /\ pc \notin Inner \union {"start", "failed"} /\ pc' \notin Inner
      BY <1>3, <2>5 DEF EndTables, Return, vars, Inner, Altering, Indexing
    <3>2. QED BY <3>1, NothingComputes
  <2>6. CASE pc \in Inner /\ ~EndTable
    <3>1. pc' \in Inner
      BY <1>3, <2>6
      DEF Next, vars, GetTableMap, NextTable, Fail, CreateTableStep, AlterNewField, AlterOldField,
          PrimaryKey, VisitIndex, EndMakeIndexes, DropIndexStep, EndDropIndexes, AddIndexStep,
          EndTables, DropLeftover, Return, Inner, Altering, Indexing
    <3>2. QED BY <2>6, <3>1, InnerComputes
  <2>7. CASE pc \notin Inner /\ Next
    BY <1>3, <2>1, <2>2, <2>3, <2>4, <2>5, <2>7
    DEF Next, Fail, CreateTableStep, AlterNewField, AlterOldField, PrimaryKey, VisitIndex,
        EndMakeIndexes, DropIndexStep, EndDropIndexes, AddIndexStep, Inner, Altering, Indexing
  <2>8. QED BY <2>3, <2>5, <2>6, <2>7
<1>4. QED BY <1>1, <1>2, <1>3 DEF ComputedInv

LEMMA ComputedInvHolds == Spec => []ComputedInv
<1>1. Init => ComputedInv
  BY DEF Init, ComputedInv, Inner, Altering, Indexing
<1>2. QED BY <1>1, ComputedInvStep, DueInvHolds, PTL DEF Spec

\* When Diff returns, the loops have emitted one of the results of the function: the statements
\* of the declared tables in the order of their names, and then the drops of the tables that
\* were read and are not declared, in some order.  What the sync modules plan in one step is
\* what the loops plan.
THEOREM LoopsAgree == Spec => []LoopsComputeDiff
<1>1. DueInv /\ DoneInv /\ ComputedInv => LoopsComputeDiff
  <2> SUFFICES ASSUME DueInv, DoneInv, ComputedInv, pc = "done"
               PROVE  migrations \in Diff(src, schema, PrimaryKeyModifier)
    BY DEF LoopsComputeDiff
  <2>1. pc \notin Inner /\ Pending = {} /\ DOMAIN tableMap = {}
    BY DEF DueInv, ReadInv, DoneInv, Pending, Inner, Altering, Indexing
  <2>2. PICK order \in Sorted(DOMAIN src) : \E so \in Seq(Change) : Computed(order, so)
    BY <2>1 DEF ComputedInv
  <2>3. PICK so \in Seq(Change) : Computed(order, so)
    BY <2>2
  <2>4. so \in DropTables(src, Answer)
    BY <2>1, <2>3 DEF Computed, DropTables
  <2>5. PICK declared : declared = ChangesInOrder(order, src, Answer, PrimaryKeyModifier)
    OBVIOUS
  <2>6. declared \in DeclaredChanges(src, Answer, PrimaryKeyModifier)
    BY <2>5 DEF DeclaredChanges
  <2>7. migrations = declared \o so
    BY <2>3, <2>5 DEF Computed
  <2>8. QED BY <2>4, <2>6, <2>7 DEF Diff, Answer
<1>2. QED BY <1>1, DueInvHolds, DoneInvHolds, ComputedInvHolds, PTL
=============================================================================
