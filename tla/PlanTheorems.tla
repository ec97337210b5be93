---------------------------- MODULE PlanTheorems ----------------------------
(***************************************************************************)
(* What Diff plans, for tables it read as they are: every change the source  *)
(* asks for, and no other.  MySQLSyncProofs and SpannerSyncProofs use it to   *)
(* show that a run which succeeds leaves what the source declares.           *)
(***************************************************************************)
EXTENDS DatabaseTheorems

-----------------------------------------------------------------------------
(* What makeIndexes gathers.                                               *)

\* A visit that is gathered, under name y.
Asked(v, y, add) == v.add = add /\ ~v.kept /\ v.name = y
AskedColumn(y, add) == [v \in Visit |-> IF Asked(v, y, add) THEN <<v.column>> ELSE <<>>]

\* An entry of the list has the columns of all the visits of its name, in their order.
GatheredFrom(e, vs, add) ==
  /\ e.columns = Collected(vs, AskedColumn(e.name, add))
  /\ \E v \in ToSet(vs) : Asked(v, e.name, add) /\ e.unique = v.unique

\* The list gathered from the visits: one entry for each name asked for.
Gathering(t, xs, vs, add) ==
  /\ xs \in Seq(IndexesOf(t))
  /\ DistinctNames(xs)
  /\ \A e \in ToSet(xs) : GatheredFrom(e, vs, add)
  /\ \A v \in ToSet(vs) : v.add = add /\ ~v.kept => \E e \in ToSet(xs) : e.name = v.name

LEMMA AskedCollects ==
  ASSUME NEW y, NEW add PROVE Collects(AskedColumn(y, add), Visit, Columns)
<1>1. \A v \in Visit : <<v.column>> \in Seq(Columns) /\ <<>> \in Seq(Columns)
  BY EmptySeq DEF Visit
<1>2. QED BY <1>1 DEF Collects, AskedColumn

\* The columns of one visit more.
LEMMA AskedAppend ==
  ASSUME NEW vs \in Seq(Visit), NEW v \in Visit, NEW y, NEW add
  PROVE  LET was == Collected(vs, AskedColumn(y, add))
             is  == Collected(Append(vs, v), AskedColumn(y, add))
         IN  /\ was \in Seq(Columns)
             /\ Asked(v, y, add) => is = Append(was, v.column)
             /\ ~Asked(v, y, add) => is = was
<1> DEFINE g == AskedColumn(y, add)
<1>1. Collects(g, Visit, Columns)
  BY AskedCollects
<1>2. (Asked(v, y, add) => g[v] = <<v.column>>) /\ (~Asked(v, y, add) => g[v] = <<>>)
  BY DEF AskedColumn
<1> HIDE DEF g
<1>3. Collected(vs, g) \in Seq(Columns) /\ Collected(Append(vs, v), g) = Collected(vs, g) \o g[v]
  BY <1>1, CollectedAppend
<1>4. v.column \in Columns
  BY DEF Visit
<1>5. Append(Collected(vs, g), v.column) = Collected(vs, g) \o <<v.column>>
  BY <1>3, <1>4, AppendIsConcat
<1>6. Collected(vs, g) \o <<>> = Collected(vs, g)
  BY <1>3, ConcatEmptySeq
<1>7. QED BY <1>2, <1>3, <1>5, <1>6 DEF g

\* One visit more.
LEMMA GatheringNext ==
  ASSUME NEW t \in Tables, NEW add \in BOOLEAN, NEW vs \in Seq(Visit), NEW v \in Visit,
         NEW xs, Gathering(t, xs, vs, add)
  PROVE  Gathering(t, GatherNext(t, xs, v, add), Append(vs, v), add)
<1> DEFINE ys == GatherNext(t, xs, v, add)
           ws == Append(vs, v)
<1>1. ws \in Seq(Visit) /\ ToSet(ws) = ToSet(vs) \union {v} /\ ToSet(vs) \subseteq Visit
  BY AppendElements, Elements
<1>2. xs \in Seq(IndexesOf(t)) /\ DistinctNames(xs)
  BY DEF Gathering
<1>3. xs \in Seq(Index) /\ DOMAIN xs = 1..Len(xs) /\ Len(xs) \in Nat
      /\ \A n \in DOMAIN xs : xs[n] \in IndexesOf(t) /\ xs[n] \in ToSet(xs)
  <2>1. IndexesOf(t) \subseteq Index
    BY DEF IndexesOf
  <2>2. QED BY <1>2, <2>1, SeqMonotonic, Elements
<1>4. \A y : /\ Asked(v, y, add) =>
                  Collected(ws, AskedColumn(y, add)) = Append(Collected(vs, AskedColumn(y, add)), v.column)
             /\ ~Asked(v, y, add) =>
                  Collected(ws, AskedColumn(y, add)) = Collected(vs, AskedColumn(y, add))
  BY AskedAppend
<1>5. ASSUME NEW e, GatheredFrom(e, vs, add), ~Asked(v, e.name, add) PROVE GatheredFrom(e, ws, add)
  BY <1>1, <1>4, <1>5 DEF GatheredFrom
<1>6. CASE ~(v.add = add /\ ~v.kept)
  <2>1. ys = xs /\ \A y : ~Asked(v, y, add)
    BY <1>6 DEF GatherNext, Asked
  <2> HIDE DEF ys, ws
  <2>2. QED BY <1>1, <1>5, <1>6, <2>1 DEF Gathering, ys, ws
<1>7. CASE v.add = add /\ ~v.kept
  <2>1. ys = AddToIndexes(xs, t, v)
    BY <1>7 DEF GatherNext
  <2>2. ys \in Seq(IndexesOf(t)) /\ DistinctNames(ys)
    BY <1>2, <1>3, <2>1, AddToIndexesOf, AddToIndexesDistinct
  <2>3. CASE \E n \in DOMAIN xs : xs[n].name = v.name
    <3>1. ys = [n \in DOMAIN xs |-> IF xs[n].name = v.name THEN Extended(xs[n], v) ELSE xs[n]]
      BY <2>1, <2>3 DEF AddToIndexes, Extended
    <3>2. ASSUME NEW n \in DOMAIN xs PROVE ys[n].name = xs[n].name /\ GatheredFrom(ys[n], ws, add)
      <4>1. xs[n] \in Index /\ GatheredFrom(xs[n], vs, add)
        BY <1>3 DEF Gathering, IndexesOf
      <4>2. CASE xs[n].name = v.name
        <5>1. /\ ys[n] = Extended(xs[n], v)
              /\ ys[n].name = xs[n].name /\ ys[n].unique = xs[n].unique
              /\ ys[n].columns = Append(xs[n].columns, v.column)
          BY <3>1, <4>1, <4>2 DEF Extended, Index
        <5>2. Asked(v, xs[n].name, add)
          BY <1>7, <4>2 DEF Asked
        <5>3. Collected(ws, AskedColumn(xs[n].name, add))
                = Append(Collected(vs, AskedColumn(xs[n].name, add)), v.column)
          BY <1>4, <5>2
        <5> HIDE DEF ys, ws
        <5>4. QED BY <1>1, <4>1, <5>1, <5>3 DEF GatheredFrom
      <4>3. CASE xs[n].name # v.name
        <5>1. ys[n] = xs[n] /\ ~Asked(v, xs[n].name, add)
          BY <3>1, <4>3 DEF Asked
        <5> HIDE DEF ys, ws
        <5>2. QED BY <1>5, <4>1, <5>1
      <4>4. QED BY <4>2, <4>3
    <3>3. DOMAIN ys = DOMAIN xs
      BY <3>1
    <3> HIDE DEF ys, ws
    <3>4. \A e \in ToSet(ys) : GatheredFrom(e, ws, add)
      BY <3>2, <3>3 DEF ToSet
    <3>5. \A e \in ToSet(xs) : \E z \in ToSet(ys) : z.name = e.name
      BY <3>2, <3>3 DEF ToSet
    <3>6. \E e \in ToSet(xs) : e.name = v.name
      BY <1>3, <2>3
    <3>7. \A w \in ToSet(ws) : w.add = add /\ ~w.kept => \E e \in ToSet(ys) : e.name = w.name
      BY <1>1, <3>5, <3>6 DEF Gathering
    <3>8. QED BY <2>2, <3>4, <3>7 DEF Gathering, ys, ws
  <2>4. CASE ~(\E n \in DOMAIN xs : xs[n].name = v.name)
    <3> DEFINE new == Started(t, v)
    <3>1. ys = Append(xs, new)
      BY <2>1, <2>4 DEF AddToIndexes, Started
    <3>2. new \in Index /\ new.name = v.name /\ new.unique = v.unique /\ new.columns = <<v.column>>
      BY DEF Started, Index, Visit
    <3>3. ToSet(ys) = ToSet(xs) \union {new}
      BY <1>3, <3>1, <3>2, AppendElements
    <3>4. \A w \in ToSet(vs) : ~Asked(w, v.name, add)
      <4>1. \A e \in ToSet(xs) : e.name # v.name
        BY <2>4 DEF ToSet
      <4>2. QED BY <4>1 DEF Gathering, Asked
    <3>5. Collected(vs, AskedColumn(v.name, add)) = <<>>
      <4>1. \A w \in ToSet(vs) : AskedColumn(v.name, add)[w] = <<>>
        BY <1>1, <3>4 DEF AskedColumn
      <4>2. QED BY <4>1, AskedCollects, CollectedNone
    <3>6. Asked(v, v.name, add)
      BY <1>7 DEF Asked
    <3>7. Collected(ws, AskedColumn(v.name, add)) = Append(<<>>, v.column)
      BY <1>4, <3>5, <3>6
    <3>8. Append(<<>>, v.column) = <<v.column>>
      OBVIOUS
    <3> HIDE DEF new, ys, ws
    <3>9. GatheredFrom(new, ws, add)
      BY <1>1, <3>2, <3>6, <3>7, <3>8 DEF GatheredFrom
    <3>10. ASSUME NEW e \in ToSet(xs) PROVE GatheredFrom(e, ws, add)
      <4>1. e.name # v.name /\ GatheredFrom(e, vs, add)
        BY <2>4 DEF ToSet, Gathering
      <4>2. ~Asked(v, e.name, add)
        BY <4>1 DEF Asked
      <4>3. QED BY <1>5, <4>1, <4>2
    <3>11. \A w \in ToSet(ws) : w.add = add /\ ~w.kept => \E e \in ToSet(ys) : e.name = w.name
      BY <1>1, <3>2, <3>3 DEF Gathering
    <3>12. \A e \in ToSet(ys) : GatheredFrom(e, ws, add)
      BY <3>3, <3>9, <3>10
    <3>13. QED BY <2>2, <3>11, <3>12 DEF Gathering, ys, ws
  <2>5. QED BY <2>3, <2>4
<1>8. QED BY <1>6, <1>7

\* What Gather returns.
LEMMA GatherEntries ==
  ASSUME NEW t \in Tables, NEW vs \in Seq(Visit), NEW add \in BOOLEAN
  PROVE  Gathering(t, Gather(t, vs, add), vs, add)
<1> DEFINE A == {ws \in Seq(Visit) : Gathering(t, Gather(t, ws, add), ws, add)}
<1>1. <<>> \in A
  <2>1. Gather(t, <<>>, add) = <<>> /\ <<>> \in Seq(Visit) /\ <<>> \in Seq(IndexesOf(t))
    BY GatherAppend, EmptySeq
  <2>2. ToSet(<<>>) = {} /\ DistinctNames(<<>>)
    BY DEF ToSet, DistinctNames
  <2>3. Gathering(t, <<>>, <<>>, add)
    BY <2>1, <2>2 DEF Gathering
  <2>4. QED BY <2>1, <2>3
<1>2. ASSUME NEW ws \in Seq(Visit), ws \in A, NEW v \in Visit PROVE Append(ws, v) \in A
  <2>1. Gathering(t, Gather(t, ws, add), ws, add)
    BY <1>2
  <2>2. Gather(t, Append(ws, v), add) = GatherNext(t, Gather(t, ws, add), v, add)
    BY GatherAppend
  <2>3. Append(ws, v) \in Seq(Visit)
    BY AppendElements
  <2>4. Gathering(t, Gather(t, Append(ws, v), add), Append(ws, v), add)
    BY <2>1, <2>2, GatheringNext
  <2>5. QED BY <2>3, <2>4
<1> HIDE DEF A
<1>3. Seq(Visit) \subseteq A
  BY <1>1, <1>2, SequenceInduction
<1>4. QED BY <1>3 DEF A

-----------------------------------------------------------------------------
(* The visits of makeIndexes.                                              *)

\* The names the other side of a field has: those of the old field of its column, if any.
OldNames(old, f, unique) ==
  LET byColumn == ByColumn(old, f.column)
  IN  IF byColumn = {} THEN <<>> ELSE Names(old[LastOf(byColumn)], unique)

LEMMA OldNamesType ==
  ASSUME NEW old \in Seq(Field), NEW f, NEW unique \in BOOLEAN
  PROVE  OldNames(old, f, unique) \in Seq(IndexNames)
<1> DEFINE S == ByColumn(old, f.column)
<1>1. CASE S = {}
  BY <1>1, EmptySeq DEF OldNames
<1>2. CASE S # {}
  <2>1. DOMAIN old = 1..Len(old) /\ Len(old) \in Nat /\ \A n \in DOMAIN old : old[n] \in Field
    BY FieldsOf
  <2>2. S \in SUBSET (1..Len(old))
    BY <2>1 DEF ByColumn
  <2> HIDE DEF S
  <2>3. LastOf(S) \in S
    BY <1>2, <2>1, <2>2, LastOfIsLast
  <2>4. old[LastOf(S)] \in Field
    BY <2>1, <2>2, <2>3
  <2>5. Names(old[LastOf(S)], unique) \in Seq(IndexNames)
    BY <2>4, NamesType
  <2>6. QED BY <1>2, <2>5 DEF OldNames, S
<1>3. QED BY <1>1, <1>2

\* The four loops of makeIndexes over one field.
LEMMA VisitsOfField ==
  ASSUME NEW old, NEW f
  PROVE  IndexVisits(old, f) =
           Visits(OldNames(old, f, FALSE), Names(f, FALSE), FALSE, FALSE, f.column)
             \o Visits(OldNames(old, f, TRUE), Names(f, TRUE), FALSE, TRUE, f.column)
             \o Visits(Names(f, FALSE), OldNames(old, f, FALSE), TRUE, FALSE, f.column)
             \o Visits(Names(f, TRUE), OldNames(old, f, TRUE), TRUE, TRUE, f.column)
BY DEF IndexVisits, OldNames, Names

\* The visits of one loop.
LoopVisits(vs, names, others, add, unique, column) ==
  /\ vs \in Seq(Visit)
  /\ \A v \in ToSet(vs) :
       /\ v \in Visit
       /\ v.add = add /\ v.unique = unique /\ v.column = column
       /\ InStrings(names, v.name)
       /\ v.kept <=> InStrings(others, v.name)
  /\ \A y : InStrings(names, y) => \E v \in ToSet(vs) : v.name = y

LEMMA VisitsSet ==
  ASSUME NEW names \in Seq(IndexNames), NEW others, NEW add \in BOOLEAN,
         NEW unique \in BOOLEAN, NEW column \in Columns
  PROVE  LoopVisits(Visits(names, others, add, unique, column), names, others, add, unique, column)
<1> DEFINE vs == Visits(names, others, add, unique, column)
<1>1. vs \in Seq(Visit)
      /\ \A n \in DOMAIN vs :
           /\ vs[n].add = add /\ vs[n].unique = unique /\ vs[n].column = column
           /\ InStrings(names, vs[n].name)
           /\ vs[n].kept <=> InStrings(others, vs[n].name)
  <2>1. \A n \in DOMAIN names : names[n] \in IndexNames
    BY Elements
  <2>2. \A n \in DOMAIN names : InStrings(others, names[n]) \in BOOLEAN /\ InStrings(names, names[n])
    BY DEF InStrings
  <2>3. /\ DOMAIN vs = DOMAIN names
        /\ \A n \in DOMAIN names :
             vs[n] = [add |-> add, unique |-> unique, name |-> names[n], column |-> column,
                      kept |-> InStrings(others, names[n])]
    BY DEF Visits
  <2>4. vs \in [1..Len(names) -> Visit] /\ Len(names) \in Nat
    <3>1. DOMAIN names = 1..Len(names) /\ Len(names) \in Nat
      BY Elements
    <3>2. vs = [n \in DOMAIN names |-> vs[n]]
      BY DEF Visits
    <3>3. \A n \in DOMAIN names : vs[n] \in Visit
      BY <2>1, <2>2, <2>3 DEF Visit
    <3> HIDE DEF vs
    <3>4. QED BY <3>1, <3>2, <3>3
  <2>5. vs \in Seq(Visit)
    BY <2>4, SeqDef
  <2> HIDE DEF vs
  <2>6. \A n \in DOMAIN names :
           /\ vs[n].add = add /\ vs[n].unique = unique /\ vs[n].column = column
           /\ vs[n].name = names[n]
           /\ vs[n].kept <=> InStrings(others, names[n])
    BY <2>3
  <2>7. QED BY <2>2, <2>3, <2>5, <2>6
<1>2. DOMAIN vs = DOMAIN names /\ \A n \in DOMAIN names : vs[n].name = names[n]
  BY DEF Visits
<1> HIDE DEF vs
<1>3. \A v \in ToSet(vs) : v \in Visit /\ \E n \in DOMAIN vs : v = vs[n]
  BY <1>1, Elements DEF ToSet
<1>4. ASSUME NEW y, InStrings(names, y) PROVE \E v \in ToSet(vs) : v.name = y
  BY <1>2, <1>4 DEF InStrings, ToSet
<1>5. LoopVisits(vs, names, others, add, unique, column)
  BY <1>1, <1>3, <1>4 DEF LoopVisits
<1>6. QED BY <1>5 DEF vs

\* The visits of one field.
IsVisitOf(v, old, f) ==
  /\ v \in Visit /\ v.column = f.column
  /\ v.add => /\ InStrings(Names(f, v.unique), v.name)
              /\ v.kept <=> InStrings(OldNames(old, f, v.unique), v.name)
  /\ ~v.add => /\ InStrings(OldNames(old, f, v.unique), v.name)
               /\ v.kept <=> InStrings(Names(f, v.unique), v.name)

LEMMA FieldVisits ==
  ASSUME NEW old \in Seq(Field), NEW f \in Field
  PROVE  /\ IndexVisits(old, f) \in Seq(Visit)
         /\ \A v \in ToSet(IndexVisits(old, f)) : IsVisitOf(v, old, f)
         /\ \A u \in BOOLEAN : \A y :
              /\ InStrings(Names(f, u), y) =>
                   \E v \in ToSet(IndexVisits(old, f)) : v.add /\ v.unique = u /\ v.name = y
              /\ InStrings(OldNames(old, f, u), y) =>
                   \E v \in ToSet(IndexVisits(old, f)) : ~v.add /\ v.unique = u /\ v.name = y
<1> DEFINE O(u) == OldNames(old, f, u)
           N(u) == Names(f, u)
           gone(u) == Visits(O(u), N(u), FALSE, u, f.column)
           come(u) == Visits(N(u), O(u), TRUE, u, f.column)
           all == ToSet(IndexVisits(old, f))
<1>1. \A u \in BOOLEAN : O(u) \in Seq(IndexNames) /\ N(u) \in Seq(IndexNames)
  BY OldNamesType, NamesType
<1>2. f.column \in Columns
  BY DEF Field
<1>3. ASSUME NEW u \in BOOLEAN PROVE LoopVisits(gone(u), O(u), N(u), FALSE, u, f.column)
  <2> HIDE DEF O, N
  <2>1. O(u) \in Seq(IndexNames) /\ N(u) \in Seq(IndexNames) /\ FALSE \in BOOLEAN
    BY <1>1
  <2>2. QED BY <1>2, <2>1, VisitsSet
<1>4. ASSUME NEW u \in BOOLEAN PROVE LoopVisits(come(u), N(u), O(u), TRUE, u, f.column)
  <2> HIDE DEF O, N
  <2>1. O(u) \in Seq(IndexNames) /\ N(u) \in Seq(IndexNames) /\ TRUE \in BOOLEAN
    BY <1>1
  <2>2. QED BY <1>2, <2>1, VisitsSet
<1>5. IndexVisits(old, f) = gone(FALSE) \o gone(TRUE) \o come(FALSE) \o come(TRUE)
  BY VisitsOfField
<1> HIDE DEF gone, come, O, N
<1>6. /\ gone(FALSE) \in Seq(Visit) /\ gone(TRUE) \in Seq(Visit)
      /\ come(FALSE) \in Seq(Visit) /\ come(TRUE) \in Seq(Visit)
  BY <1>3, <1>4 DEF LoopVisits
<1>7. \A s, r \in Seq(Visit) : s \o r \in Seq(Visit) /\ ToSet(s \o r) = ToSet(s) \union ToSet(r)
  BY ConcatSet
<1>8. /\ gone(FALSE) \o gone(TRUE) \in Seq(Visit)
      /\ ToSet(gone(FALSE) \o gone(TRUE)) = ToSet(gone(FALSE)) \union ToSet(gone(TRUE))
  BY <1>6, <1>7, Zenon
<1>9. /\ gone(FALSE) \o gone(TRUE) \o come(FALSE) \in Seq(Visit)
      /\ ToSet(gone(FALSE) \o gone(TRUE) \o come(FALSE))
           = ToSet(gone(FALSE) \o gone(TRUE)) \union ToSet(come(FALSE))
  BY <1>6, <1>7, <1>8, Zenon
<1>10. /\ IndexVisits(old, f) \in Seq(Visit)
       /\ all = ToSet(gone(FALSE) \o gone(TRUE) \o come(FALSE)) \union ToSet(come(TRUE))
  BY <1>5, <1>6, <1>7, <1>9, ZenonT(40)
<1>11. all = ToSet(gone(FALSE)) \union ToSet(gone(TRUE)) \union ToSet(come(FALSE)) \union ToSet(come(TRUE))
  BY <1>8, <1>9, <1>10
<1> HIDE DEF all
<1>12. ASSUME NEW v \in all PROVE IsVisitOf(v, old, f)
  <2>1. ASSUME NEW u \in BOOLEAN, v \in ToSet(gone(u)) PROVE IsVisitOf(v, old, f)
    BY <1>3, <2>1, Zenon DEF LoopVisits, IsVisitOf, O, N
  <2>2. ASSUME NEW u \in BOOLEAN, v \in ToSet(come(u)) PROVE IsVisitOf(v, old, f)
    BY <1>4, <2>2, Zenon DEF LoopVisits, IsVisitOf, O, N
  <2>3. FALSE \in BOOLEAN /\ TRUE \in BOOLEAN
    OBVIOUS
  <2>4. QED BY <1>11, <2>1, <2>2, <2>3, Zenon
<1>13. ASSUME NEW u \in BOOLEAN, NEW y
       PROVE  /\ InStrings(N(u), y) => \E v \in all : v.add /\ v.unique = u /\ v.name = y
              /\ InStrings(O(u), y) => \E v \in all : ~v.add /\ v.unique = u /\ v.name = y
  <2>1. ToSet(gone(u)) \subseteq all /\ ToSet(come(u)) \subseteq all
    <3>1. u = TRUE \/ u = FALSE
      OBVIOUS
    <3>2. ToSet(gone(TRUE)) \subseteq all /\ ToSet(come(TRUE)) \subseteq all
          /\ ToSet(gone(FALSE)) \subseteq all /\ ToSet(come(FALSE)) \subseteq all
      BY <1>11
    <3>3. QED BY <3>1, <3>2, Zenon
  <2>2. ASSUME InStrings(N(u), y) PROVE \E v \in all : v.add /\ v.unique = u /\ v.name = y
    BY <1>4, <2>1, <2>2 DEF LoopVisits
  <2>3. ASSUME InStrings(O(u), y) PROVE \E v \in all : ~v.add /\ v.unique = u /\ v.name = y
    BY <1>3, <2>1, <2>3 DEF LoopVisits
  <2>4. QED BY <2>2, <2>3
<1>14. QED BY <1>10, <1>12, <1>13 DEF O, N, all

\* What one loop gathers under a name: its column, once, or nothing.
LoopAsked(got, names, others, column, same, y) ==
  /\ ~same \/ ~InStrings(names, y) \/ InStrings(others, y) => got = <<>>
  /\ same /\ IsInjective(names) /\ InStrings(names, y) /\ ~InStrings(others, y)
       => got = <<column>>

LEMMA LoopAsks ==
  ASSUME NEW names \in Seq(IndexNames), NEW others, NEW add \in BOOLEAN,
         NEW unique \in BOOLEAN, NEW column \in Columns, NEW y, NEW asks
  PROVE  LoopAsked(Collected(Visits(names, others, add, unique, column), AskedColumn(y, asks)),
                   names, others, column, add = asks, y)
<1> DEFINE vs == Visits(names, others, add, unique, column)
           g  == AskedColumn(y, asks)
<1>1. /\ vs \in Seq(Visit)
      /\ \A v \in ToSet(vs) :
           /\ v \in Visit
           /\ v.add = add /\ v.unique = unique /\ v.column = column
           /\ InStrings(names, v.name)
           /\ v.kept <=> InStrings(others, v.name)
  <2>1. LoopVisits(vs, names, others, add, unique, column)
    BY VisitsSet
  <2> HIDE DEF vs
  <2>2. QED BY <2>1 DEF LoopVisits
<1>2. Collects(g, Visit, Columns)
  BY AskedCollects
<1>3. DOMAIN vs = DOMAIN names /\ \A n \in DOMAIN names : vs[n].name = names[n]
  BY DEF Visits
<1>4. \A v \in Visit : g[v] = IF Asked(v, y, asks) THEN <<v.column>> ELSE <<>>
  BY DEF AskedColumn
<1> HIDE DEF vs, g
<1>5. ASSUME add # asks \/ ~InStrings(names, y) \/ InStrings(others, y) PROVE Collected(vs, g) = <<>>
  <2>1. \A v \in ToSet(vs) : ~Asked(v, y, asks)
    BY <1>1, <1>5 DEF Asked
  <2>2. \A v \in ToSet(vs) : g[v] = <<>>
    BY <1>1, <1>4, <2>1
  <2>3. QED BY <1>1, <1>2, <2>2, CollectedNone
<1>6. ASSUME add = asks, IsInjective(names), InStrings(names, y), ~InStrings(others, y)
      PROVE  Collected(vs, g) = <<column>>
  <2>1. PICK k \in DOMAIN names : names[k] = y
    BY <1>6 DEF InStrings
  <2>2. \A n \in DOMAIN vs : vs[n] \in ToSet(vs) /\ vs[n] \in Visit
    BY <1>1, Elements
  <2>3. Asked(vs[k], y, asks) /\ vs[k].column = column
    BY <1>1, <1>3, <1>6, <2>1, <2>2 DEF Asked
  <2>4. \A n \in DOMAIN vs : n # k => ~Asked(vs[n], y, asks)
    BY <1>3, <1>6, <2>1 DEF Asked, IsInjective
  <2>5. g[vs[k]] = <<column>> /\ \A n \in DOMAIN vs : n # k => g[vs[n]] = <<>>
    BY <1>3, <1>4, <2>1, <2>2, <2>3, <2>4
  <2>6. k \in DOMAIN vs
    BY <1>3, <2>1
  <2>7. Collected(vs, g) = g[vs[k]]
    <3>1. \A n \in DOMAIN vs : n # k => g[vs[n]] = <<>>
      BY <2>5
    <3>2. vs \in Seq(Visit)
      BY <1>1
    <3>3. QED BY <1>2, <2>6, <3>1, <3>2, CollectedOne
  <2>8. QED BY <2>5, <2>7
<1>7. QED BY <1>5, <1>6 DEF LoopAsked, vs, g

\* What is collected from two lists, one after the other.
LEMMA TwoCollected ==
  ASSUME NEW S, NEW T, NEW g, Collects(g, S, T)
  PROVE  \A s, r \in Seq(S) :
           s \o r \in Seq(S) /\ Collected(s \o r, g) = Collected(s, g) \o Collected(r, g)
<1>1. \A s, r \in Seq(S) : Collected(s \o r, g) = Collected(s, g) \o Collected(r, g)
  BY CollectedConcat
<1>2. \A s, r \in Seq(S) : s \o r \in Seq(S)
  BY ConcatSet
<1>3. QED BY <1>1, <1>2

\* Four lists, one after the other.
LEMMA CollectedFour ==
  ASSUME NEW S, NEW T, NEW g, Collects(g, S, T)
  PROVE  \A a, b, c, d \in Seq(S) :
           Collected(a, g) = <<>> /\ Collected(b, g) = <<>> =>
             Collected(a \o b \o c \o d, g) = Collected(c, g) \o Collected(d, g)
<1>1. \A s, r \in Seq(S) :
        s \o r \in Seq(S) /\ Collected(s \o r, g) = Collected(s, g) \o Collected(r, g)
  BY TwoCollected
<1>2. \A s \in Seq(S) : Collected(s, g) \in Seq(T)
  BY CollectedElements
<1> SUFFICES ASSUME NEW a \in Seq(S), NEW b \in Seq(S), NEW c \in Seq(S), NEW d \in Seq(S),
                    Collected(a, g) = <<>>, Collected(b, g) = <<>>
             PROVE  Collected(a \o b \o c \o d, g) = Collected(c, g) \o Collected(d, g)
  BY SMTT(30)
<1>3. a \o b \in Seq(S)
  BY <1>1, Zenon
<1>4. a \o b \o c \in Seq(S)
  BY <1>1, <1>3, Zenon
<1>5. Collected(a \o b \o c \o d, g) = Collected(a \o b \o c, g) \o Collected(d, g)
  BY <1>1, <1>4, Zenon
<1>6. Collected(a \o b \o c, g) = Collected(a \o b, g) \o Collected(c, g)
  BY <1>1, <1>3, Zenon
<1>7. Collected(a \o b, g) = Collected(a, g) \o Collected(b, g)
  BY <1>1, Zenon
<1>8. <<>> \o <<>> = <<>>
  OBVIOUS
<1>9. <<>> \o Collected(c, g) = Collected(c, g)
  BY <1>2, ConcatEmptySeq
<1>10. Collected(a \o b, g) = <<>>
  BY <1>7, <1>8
<1>11. Collected(a \o b \o c, g) = Collected(c, g)
  BY <1>6, <1>9, <1>10
<1>12. QED BY <1>5, <1>11

\* What the four loops of a field gather under a name it has no other index of.
LEMMA FieldAsks ==
  ASSUME NEW old \in Seq(Field), NEW f \in Field, NEW u \in BOOLEAN, NEW y,
         IsInjective(Names(f, u)),
         \A w \in BOOLEAN : InStrings(Names(f, w), y) => w = u /\ ~InStrings(OldNames(old, f, w), y)
  PROVE  LET got == Collected(IndexVisits(old, f), AskedColumn(y, TRUE))
         IN  /\ InStrings(Names(f, u), y) => got = <<f.column>>
             /\ ~InStrings(Names(f, u), y) => got = <<>>
<1> DEFINE g == AskedColumn(y, TRUE)
           O(w) == OldNames(old, f, w)
           N(w) == Names(f, w)
           gone(w) == Visits(O(w), N(w), FALSE, w, f.column)
           come(w) == Visits(N(w), O(w), TRUE, w, f.column)
<1>1. \A w \in BOOLEAN : O(w) \in Seq(IndexNames) /\ N(w) \in Seq(IndexNames)
  BY OldNamesType, NamesType
<1>2. f.column \in Columns /\ FALSE \in BOOLEAN /\ TRUE \in BOOLEAN
  BY DEF Field
<1>3. Collects(g, Visit, Columns)
  BY AskedCollects
<1> HIDE DEF O, N
<1>4. ASSUME NEW w \in BOOLEAN PROVE gone(w) \in Seq(Visit) /\ Collected(gone(w), g) = <<>>
  <2>1. O(w) \in Seq(IndexNames) /\ N(w) \in Seq(IndexNames)
    BY <1>1
  <2>2. LoopVisits(gone(w), O(w), N(w), FALSE, w, f.column)
    BY <1>2, <2>1, VisitsSet
  <2>3. LoopAsked(Collected(gone(w), g), O(w), N(w), f.column, FALSE = TRUE, y)
    BY <1>2, <2>1, LoopAsks
  <2> HIDE DEF gone, g
  <2>4. QED BY <2>2, <2>3 DEF LoopVisits, LoopAsked
<1>5. ASSUME NEW w \in BOOLEAN
      PROVE  /\ come(w) \in Seq(Visit)
             /\ ~InStrings(N(w), y) => Collected(come(w), g) = <<>>
             /\ IsInjective(N(w)) /\ InStrings(N(w), y) /\ ~InStrings(O(w), y)
                  => Collected(come(w), g) = <<f.column>>
  <2>1. O(w) \in Seq(IndexNames) /\ N(w) \in Seq(IndexNames)
    BY <1>1
  <2>2. LoopVisits(come(w), N(w), O(w), TRUE, w, f.column)
    BY <1>2, <2>1, VisitsSet
  <2>3. LoopAsked(Collected(come(w), g), N(w), O(w), f.column, TRUE = TRUE, y)
    BY <1>2, <2>1, LoopAsks, ZenonT(40)
  <2> HIDE DEF come, g
  <2>4. QED BY <2>2, <2>3 DEF LoopVisits, LoopAsked
<1>6. IndexVisits(old, f) = gone(FALSE) \o gone(TRUE) \o come(FALSE) \o come(TRUE)
  BY VisitsOfField DEF O, N
<1> HIDE DEF gone, come, g
<1>7. /\ gone(FALSE) \in Seq(Visit) /\ gone(TRUE) \in Seq(Visit)
      /\ come(FALSE) \in Seq(Visit) /\ come(TRUE) \in Seq(Visit)
      /\ Collected(gone(FALSE), g) = <<>> /\ Collected(gone(TRUE), g) = <<>>
  BY <1>2, <1>4, <1>5
<1>8. Collected(IndexVisits(old, f), g) = Collected(come(FALSE), g) \o Collected(come(TRUE), g)
  <2>1. \A a, b, c, d \in Seq(Visit) :
          Collected(a, g) = <<>> /\ Collected(b, g) = <<>> =>
            Collected(a \o b \o c \o d, g) = Collected(c, g) \o Collected(d, g)
    BY <1>3, CollectedFour, SMTT(30)
  <2>2. Collected(gone(FALSE) \o gone(TRUE) \o come(FALSE) \o come(TRUE), g)
          = Collected(come(FALSE), g) \o Collected(come(TRUE), g)
    BY <1>7, <2>1, ZenonT(40)
  <2>3. QED BY <1>6, <2>2
<1>9. /\ \A w \in BOOLEAN : InStrings(N(w), y) => w = u /\ ~InStrings(O(w), y)
      /\ IsInjective(N(u))
  BY DEF N, O
<1>10. <<>> \o <<f.column>> = <<f.column>> /\ <<f.column>> \o <<>> = <<f.column>> /\ <<>> \o <<>> = <<>>
  OBVIOUS
<1>11. ASSUME InStrings(N(u), y) PROVE Collected(IndexVisits(old, f), g) = <<f.column>>
  <2>1. Collected(come(u), g) = <<f.column>>
    BY <1>5, <1>9, <1>11
  <2>2. \A w \in BOOLEAN : w # u => Collected(come(w), g) = <<>>
    BY <1>5, <1>9
  <2>3. CASE u = TRUE
    <3>1. Collected(come(TRUE), g) = <<f.column>>
      BY <2>1, <2>3
    <3>2. Collected(come(FALSE), g) = <<>>
      BY <1>2, <2>2, <2>3
    <3>3. QED BY <1>8, <1>10, <3>1, <3>2
  <2>4. CASE u = FALSE
    <3>1. Collected(come(FALSE), g) = <<f.column>>
      BY <2>1, <2>4
    <3>2. Collected(come(TRUE), g) = <<>>
      BY <1>2, <2>2, <2>4
    <3>3. QED BY <1>8, <1>10, <3>1, <3>2
  <2>5. QED BY <2>3, <2>4
<1>12. ASSUME ~InStrings(N(u), y) PROVE Collected(IndexVisits(old, f), g) = <<>>
  <2>1. \A w \in BOOLEAN : ~InStrings(N(w), y)
    BY <1>9, <1>12
  <2>2. Collected(come(FALSE), g) = <<>> /\ Collected(come(TRUE), g) = <<>>
    BY <1>2, <1>5, <2>1
  <2>3. QED BY <1>8, <1>10, <2>2
<1>13. QED BY <1>11, <1>12 DEF N, g

\* The visits of a table.
AllVisits(old, fields) == FlattenSeq([n \in DOMAIN fields |-> IndexVisits(old, fields[n])])

TableVisits(vs, old, fields) ==
  /\ vs \in Seq(Visit)
  /\ \A v \in ToSet(vs) : \E n \in DOMAIN fields : IsVisitOf(v, old, fields[n])
  /\ \A n \in DOMAIN fields, u \in BOOLEAN : \A y :
       /\ InStrings(Names(fields[n], u), y) =>
            \E v \in ToSet(vs) : v.add /\ v.unique = u /\ v.name = y /\ IsVisitOf(v, old, fields[n])
       /\ InStrings(OldNames(old, fields[n], u), y) =>
            \E v \in ToSet(vs) : ~v.add /\ v.unique = u /\ v.name = y /\ IsVisitOf(v, old, fields[n])

LEMMA VisitLists ==
  ASSUME NEW old \in Seq(Field), NEW fields \in Seq(Field)
  PROVE  LET ss == [n \in DOMAIN fields |-> IndexVisits(old, fields[n])]
         IN  ss \in [1..Len(fields) -> Seq(Visit)] /\ ss \in Seq(Seq(Visit)) /\ Len(fields) \in Nat
<1> DEFINE ss == [n \in DOMAIN fields |-> IndexVisits(old, fields[n])]
<1>1. DOMAIN fields = 1..Len(fields) /\ Len(fields) \in Nat /\ \A n \in DOMAIN fields : fields[n] \in Field
  BY FieldsOf
<1>2. \A n \in DOMAIN fields : IndexVisits(old, fields[n]) \in Seq(Visit)
  BY <1>1, FieldVisits
<1>3. ss \in [1..Len(fields) -> Seq(Visit)]
  BY <1>1, <1>2
<1> HIDE DEF ss
<1>4. ss \in Seq(Seq(Visit))
  BY <1>1, <1>3, FlattenFunction
<1>5. QED BY <1>1, <1>3, <1>4 DEF ss

LEMMA VisitsOfAll ==
  ASSUME NEW old \in Seq(Field), NEW fields \in Seq(Field)
  PROVE  TableVisits(AllVisits(old, fields), old, fields)
<1> DEFINE ss == [n \in DOMAIN fields |-> IndexVisits(old, fields[n])]
           vs == AllVisits(old, fields)
           N  == Len(fields)
<1>1. DOMAIN fields = 1..N /\ \A n \in DOMAIN fields : fields[n] \in Field
  BY FieldsOf
<1>2. ss \in [1..N -> Seq(Visit)] /\ N \in Nat /\ vs = FlattenSeq(ss)
  BY VisitLists DEF AllVisits
<1>3. \A n \in DOMAIN fields : ss[n] = IndexVisits(old, fields[n])
  OBVIOUS
<1> HIDE DEF ss, vs, N
<1>4. vs \in Seq(Visit) /\ ToSet(vs) = UNION {ToSet(ss[n]) : n \in 1..N}
  BY <1>2, FlattenUnion
<1>5. ASSUME NEW v \in ToSet(vs) PROVE \E n \in DOMAIN fields : IsVisitOf(v, old, fields[n])
  <2>1. PICK n \in 1..N : v \in ToSet(ss[n])
    BY <1>4
  <2>2. v \in ToSet(IndexVisits(old, fields[n])) /\ fields[n] \in Field
    BY <1>1, <1>3, <2>1
  <2>3. IsVisitOf(v, old, fields[n])
    BY <2>2, FieldVisits
  <2>4. QED BY <1>1, <2>3
<1>6. ASSUME NEW n \in DOMAIN fields, NEW u \in BOOLEAN, NEW y
      PROVE  /\ InStrings(Names(fields[n], u), y) =>
                  \E v \in ToSet(vs) : v.add /\ v.unique = u /\ v.name = y /\ IsVisitOf(v, old, fields[n])
             /\ InStrings(OldNames(old, fields[n], u), y) =>
                  \E v \in ToSet(vs) : ~v.add /\ v.unique = u /\ v.name = y /\ IsVisitOf(v, old, fields[n])
  <2> DEFINE f == fields[n]
             ws == IndexVisits(old, f)
  <2>1. f \in Field /\ ToSet(ws) \subseteq ToSet(vs)
    BY <1>1, <1>3, <1>4
  <2> HIDE DEF f
  <2>2. \A v \in ToSet(ws) : IsVisitOf(v, old, f)
    BY <2>1, FieldVisits
  <2>3. /\ InStrings(Names(f, u), y) => \E v \in ToSet(ws) : v.add /\ v.unique = u /\ v.name = y
        /\ InStrings(OldNames(old, f, u), y) => \E v \in ToSet(ws) : ~v.add /\ v.unique = u /\ v.name = y
    <3>1. \A w \in BOOLEAN : \A z :
            /\ InStrings(Names(f, w), z) =>
                 \E v \in ToSet(ws) : v.add /\ v.unique = w /\ v.name = z
            /\ InStrings(OldNames(old, f, w), z) =>
                 \E v \in ToSet(ws) : ~v.add /\ v.unique = w /\ v.name = z
      BY <2>1, FieldVisits
    <3> HIDE DEF ws
    <3>2. QED BY <3>1, Zenon
  <2> HIDE DEF ws
  <2>4. QED BY <2>1, <2>2, <2>3, Zenon DEF f
<1>7. QED BY <1>4, <1>5, <1>6 DEF TableVisits, vs

\* An index that no field has, for none of the fields that name it, is gathered as it is
\* declared.
LEMMA NamingGathered ==
  ASSUME NEW old \in Seq(Field), NEW fields \in Seq(Field), NEW u \in BOOLEAN, NEW y,
         \A n \in DOMAIN fields :
           /\ IsInjective(Names(fields[n], u))
           /\ \A w \in BOOLEAN : InStrings(Names(fields[n], w), y) =>
                w = u /\ ~InStrings(OldNames(old, fields[n], w), y)
  PROVE  Collected(AllVisits(old, fields), AskedColumn(y, TRUE)) = Naming(fields, y, u)
<1> DEFINE ss == [n \in DOMAIN fields |-> IndexVisits(old, fields[n])]
           g  == AskedColumn(y, TRUE)
           got == [n \in DOMAIN ss |-> Collected(ss[n], g)]
           named == [n \in DOMAIN fields |->
                       IF InStrings(Names(fields[n], u), y) THEN <<fields[n].column>> ELSE <<>>]
<1>1. \A n \in DOMAIN fields : fields[n] \in Field
  BY FieldsOf
<1>2. ss \in Seq(Seq(Visit)) /\ AllVisits(old, fields) = FlattenSeq(ss)
  BY VisitLists DEF AllVisits
<1>3. Collects(g, Visit, Columns)
  BY AskedCollects
<1>4. \A n \in DOMAIN fields : Collected(IndexVisits(old, fields[n]), g) = named[n]
  <2>1. SUFFICES ASSUME NEW n \in DOMAIN fields
                 PROVE  Collected(IndexVisits(old, fields[n]), g) = named[n]
    OBVIOUS
  <2> DEFINE f == fields[n]
  <2>2. /\ f \in Field /\ IsInjective(Names(f, u))
        /\ \A w \in BOOLEAN : InStrings(Names(f, w), y) => w = u /\ ~InStrings(OldNames(old, f, w), y)
    BY <1>1
  <2> HIDE DEF f
  <2>3. /\ InStrings(Names(f, u), y) => Collected(IndexVisits(old, f), g) = <<f.column>>
        /\ ~InStrings(Names(f, u), y) => Collected(IndexVisits(old, f), g) = <<>>
    BY <2>2, FieldAsks, ZenonT(40)
  <2> HIDE DEF g
  <2>4. QED BY <2>3 DEF f
<1>5. DOMAIN ss = DOMAIN fields /\ \A n \in DOMAIN fields : ss[n] = IndexVisits(old, fields[n])
  OBVIOUS
<1> HIDE DEF ss, g
<1>6. Collected(AllVisits(old, fields), g) = FlattenSeq(got)
  BY <1>2, <1>3, CollectedFlatten
<1>7. got = named
  BY <1>4, <1>5
<1>8. QED BY <1>6, <1>7 DEF Naming, g

-----------------------------------------------------------------------------
(* The indexes of one table.                                               *)

\* The columns of an index are those of the fields that name it.
LEMMA NamingSet ==
  ASSUME NEW fields \in Seq(Field), NEW y, NEW u
  PROVE  /\ Naming(fields, y, u) \in Seq(Columns)
         /\ ToSet(Naming(fields, y, u))
              = {fields[n].column : n \in {k \in DOMAIN fields : InStrings(Names(fields[k], u), y)}}
<1> DEFINE N  == Len(fields)
           ss == [n \in DOMAIN fields |->
                    IF InStrings(Names(fields[n], u), y) THEN <<fields[n].column>> ELSE <<>>]
<1>1. DOMAIN fields = 1..N /\ N \in Nat
      /\ \A n \in 1..N : fields[n] \in Field /\ fields[n].column \in Columns
  BY FieldsOf DEF Field
<1>2. PICK cs \in [1..N -> Columns] : \A n \in 1..N : cs[n] = fields[n].column
  <2>1. [n \in 1..N |-> fields[n].column] \in [1..N -> Columns]
    BY <1>1
  <2>2. QED BY <2>1
<1>3. Chosen(ss, cs, N)
  <2>1. DOMAIN ss = 1..N /\ ss = [n \in 1..N |-> ss[n]]
    BY <1>1
  <2>2. ASSUME NEW n \in 1..N PROVE ss[n] = <<>> \/ ss[n] = <<cs[n]>>
    BY <1>1, <1>2
  <2> HIDE DEF ss
  <2>3. QED BY <2>1, <2>2 DEF Chosen
<1>4. \A n \in DOMAIN fields : ss[n] # <<>> <=> InStrings(Names(fields[n], u), y)
  OBVIOUS
<1> HIDE DEF ss, N
<1>5. /\ FlattenSeq(ss) \in Seq(Columns)
      /\ ToSet(FlattenSeq(ss)) = {cs[n] : n \in {k \in 1..N : ss[k] # <<>>}}
  <2>1. cs \in [1..N -> Columns] /\ N \in Nat
    BY <1>1
  <2>2. FlattenSeq(ss) \in Seq(Columns)
    BY <1>3, <2>1, FlattenChosen
  <2>3. ToSet(FlattenSeq(ss)) = {cs[n] : n \in {k \in 1..N : ss[k] # <<>>}}
    BY <1>3, <2>1, <2>2, FlattenChosen
  <2>4. QED BY <2>2, <2>3
<1>6. ToSet(FlattenSeq(ss))
        = {fields[n].column : n \in {k \in DOMAIN fields : InStrings(Names(fields[k], u), y)}}
  BY <1>1, <1>2, <1>4, <1>5
<1>7. QED BY <1>5, <1>6 DEF Naming, ss

\* Index x is the one the fields declare under its name and its kind.
IsDeclared(x, t, fields) ==
  /\ x \in Index /\ x.table = t /\ x.columns = Naming(fields, x.name, x.unique)
  /\ x.columns # <<>> /\ ToSet(x.columns) # {}
  /\ ToSet(x.columns)
       = {fields[n].column :
            n \in {k \in DOMAIN fields : InStrings(Names(fields[k], x.unique), x.name)}}

LEMMA DeclaredIndexes ==
  ASSUME NEW t \in Tables, NEW fields \in Seq(Field)
  PROVE  /\ \A x \in Declared(t, fields) : IsDeclared(x, t, fields)
         /\ \A x, y \in Declared(t, fields) : x.name = y.name /\ x.unique = y.unique => x = y
         /\ \A n \in DOMAIN fields, u \in BOOLEAN, y \in IndexNames :
              InStrings(Names(fields[n], u), y) =>
                \E x \in Declared(t, fields) : x.name = y /\ x.unique = u
<1> DEFINE D(y, u) == [table |-> t, name |-> y, unique |-> u, columns |-> Naming(fields, y, u)]
<1>1. ASSUME NEW y \in IndexNames, NEW u \in BOOLEAN
      PROVE  /\ D(y, u) \in Index /\ D(y, u).table = t /\ D(y, u).name = y /\ D(y, u).unique = u
             /\ D(y, u).columns = Naming(fields, y, u)
  BY NamingSet DEF Index
<1>2. \A x : x \in Declared(t, fields) <=>
               \E y \in IndexNames, u \in BOOLEAN : x = D(y, u) /\ Naming(fields, y, u) # <<>>
  BY DEF Declared
<1> HIDE DEF D
<1>3. \A s \in Seq(Columns) : s = <<>> <=> ToSet(s) = {}
  <2>1. \A s \in Seq(Columns) : s # <<>> => 1 \in DOMAIN s
    BY Elements
  <2>2. QED BY <2>1 DEF ToSet
<1>4. ASSUME NEW x \in Declared(t, fields) PROVE IsDeclared(x, t, fields)
  <2>1. PICK y \in IndexNames, u \in BOOLEAN : x = D(y, u) /\ Naming(fields, y, u) # <<>>
    BY <1>2
  <2>2. x \in Index /\ x.table = t /\ x.name = y /\ x.unique = u /\ x.columns = Naming(fields, y, u)
    BY <1>1, <2>1
  <2>3. /\ Naming(fields, y, u) \in Seq(Columns)
        /\ ToSet(Naming(fields, y, u))
             = {fields[n].column : n \in {k \in DOMAIN fields : InStrings(Names(fields[k], u), y)}}
    BY NamingSet
  <2>4. ToSet(x.columns) # {}
    BY <1>3, <2>1, <2>2, <2>3
  <2>5. QED BY <2>1, <2>2, <2>3, <2>4 DEF IsDeclared
<1>5. ASSUME NEW n \in DOMAIN fields, NEW u \in BOOLEAN, NEW y \in IndexNames,
             InStrings(Names(fields[n], u), y)
      PROVE  \E x \in Declared(t, fields) : x.name = y /\ x.unique = u
  <2>1. fields[n].column \in ToSet(Naming(fields, y, u)) /\ Naming(fields, y, u) \in Seq(Columns)
    BY <1>5, NamingSet
  <2>2. Naming(fields, y, u) # <<>>
    BY <1>3, <2>1
  <2>3. QED BY <1>1, <1>2, <2>2
<1>6. ASSUME NEW x \in Declared(t, fields), NEW y \in Declared(t, fields),
             x.name = y.name, x.unique = y.unique
      PROVE  x = y
  <2>1. PICK a \in IndexNames, u \in BOOLEAN : x = D(a, u)
    BY <1>2
  <2>2. PICK b \in IndexNames, w \in BOOLEAN : y = D(b, w)
    BY <1>2
  <2>3. x.name = a /\ x.unique = u /\ y.name = b /\ y.unique = w
    BY <1>1, <2>1, <2>2, Zenon
  <2>4. a = b /\ u = w
    BY <1>6, <2>3, Zenon
  <2>5. QED BY <2>1, <2>2, <2>4, Zenon
<1>7. QED BY <1>4, <1>5, <1>6

\* An index without the columns that are not kept.
Shrunk(x, kept) == [x EXCEPT !.columns = Only(@, kept)]

\* The fields were read with the indexes of the columns they have now.
IndexesRead(xs, old, fields) ==
  \A n \in DOMAIN fields, u \in BOOLEAN : \A y :
    InStrings(OldNames(old, fields[n], u), y) <=>
      \E x \in xs : fields[n].column \in ToSet(x.columns) /\ x.unique = u /\ x.name = y

\* The indexes of a table that has them under names of their own, its columns as they were
\* read, and fields that are none of the limits.
IndexCase(t, xs, old, fields) ==
  /\ t \in Tables /\ old \in Seq(Field) /\ fields \in Seq(Field)
  /\ \A x \in xs : x \in Index /\ x.table = t
  /\ \A x, y \in xs : x.name = y.name => x = y
  /\ IndexesRead(xs, old, fields)
  /\ ~Ambiguous(t, fields)
  /\ \A x \in xs, y \in Declared(t, fields) :
       /\ x.name = y.name /\ x.unique = y.unique
       /\ ToSet(x.columns) \intersect ToSet(y.columns) # {}
       => Only(x.columns, ColumnsOf(fields)) = y.columns

LEMMA Unambiguous ==
  ASSUME NEW t, NEW fields, ~Ambiguous(t, fields)
  PROVE  /\ \A m, n \in DOMAIN fields : fields[m].column = fields[n].column => m = n
         /\ \A n \in DOMAIN fields, u \in BOOLEAN : IsInjective(Names(fields[n], u))
         /\ \A x, y \in Declared(t, fields) : x.name = y.name => x.unique = y.unique
<1>1. \A n \in DOMAIN fields, u \in BOOLEAN : IsInjective(Names(fields[n], u))
  BY Zenon DEF Ambiguous
<1>2. \A x, y \in Declared(t, fields) : x.name = y.name => x.unique = y.unique
  BY Zenon DEF Ambiguous
<1>3. ~Repeated(fields)
  BY Zenon DEF Ambiguous
<1>4. \A m, n \in DOMAIN fields : fields[m].column = fields[n].column => m = n
  BY <1>3 DEF Repeated, IsInjective
<1>5. QED BY <1>1, <1>2, <1>4

\* An index that stays has the columns of the declared one, once the others are gone.
LEMMA Reshapes ==
  ASSUME NEW t, NEW xs, NEW old, NEW fields, IndexCase(t, xs, old, fields),
         NEW x \in xs, NEW y \in Declared(t, fields), x.name = y.name, x.unique = y.unique,
         NEW c \in ToSet(x.columns), c \in ToSet(y.columns)
  PROVE  /\ Shrunk(x, ColumnsOf(fields)) = y
         /\ ToSet(x.columns) \intersect ColumnsOf(fields) = ToSet(y.columns)
<1>1. t \in Tables /\ fields \in Seq(Field) /\ x \in Index /\ x.table = t
  BY DEF IndexCase
<1>2. Only(x.columns, ColumnsOf(fields)) = y.columns
  BY DEF IndexCase
<1>3. IsDeclared(y, t, fields)
  BY <1>1, DeclaredIndexes
<1>4. y \in Index /\ y.table = t
  BY <1>3 DEF IsDeclared
<1>5. x.columns \in Seq(Columns)
  BY <1>1 DEF Index
<1>6. ToSet(Only(x.columns, ColumnsOf(fields))) = ToSet(x.columns) \intersect ColumnsOf(fields)
  BY <1>5, OnlyElements
<1>7. Shrunk(x, ColumnsOf(fields)) = y
  BY <1>1, <1>2, <1>4 DEF Shrunk, Index
<1>8. QED BY <1>2, <1>6, <1>7

\* A field that names an index, and one that names the declared index: what was read of it.
LEMMA WantedIndex ==
  ASSUME NEW t, NEW xs, NEW old, NEW fields, IndexCase(t, xs, old, fields),
         NEW n \in DOMAIN fields, NEW u \in BOOLEAN, NEW y, InStrings(Names(fields[n], u), y)
  PROVE  \E d \in Declared(t, fields) :
           d.name = y /\ d.unique = u /\ fields[n].column \in ToSet(d.columns)
<1>1. t \in Tables /\ fields \in Seq(Field) /\ fields[n] \in Field
  BY FieldsOf DEF IndexCase
<1>2. Names(fields[n], u) \in Seq(IndexNames)
  BY <1>1, NamesType
<1>3. y \in IndexNames
  BY <1>2, Elements DEF InStrings
<1>4. PICK d \in Declared(t, fields) : d.name = y /\ d.unique = u
  BY <1>1, <1>3, DeclaredIndexes
<1>5. IsDeclared(d, t, fields)
  BY <1>1, DeclaredIndexes
<1>6. fields[n].column \in ToSet(d.columns)
  BY <1>4, <1>5 DEF IsDeclared
<1>7. QED BY <1>4, <1>6

\* Either all the fields that name an index had it, or none did.
LEMMA AllOrNone ==
  ASSUME NEW t, NEW xs, NEW old, NEW fields, IndexCase(t, xs, old, fields),
         NEW n \in DOMAIN fields, NEW u \in BOOLEAN, NEW y, InStrings(Names(fields[n], u), y),
         NEW m \in DOMAIN fields, NEW w \in BOOLEAN, InStrings(Names(fields[m], w), y)
  PROVE  /\ w = u
         /\ InStrings(OldNames(old, fields[m], w), y) => InStrings(OldNames(old, fields[n], u), y)
<1>1. PICK d \in Declared(t, fields) :
        d.name = y /\ d.unique = u /\ fields[n].column \in ToSet(d.columns)
  BY WantedIndex
<1>2. PICK e \in Declared(t, fields) :
        e.name = y /\ e.unique = w /\ fields[m].column \in ToSet(e.columns)
  BY WantedIndex
<1>3. d.unique = e.unique
  <2>1. ~Ambiguous(t, fields)
    BY DEF IndexCase
  <2>2. QED BY <1>1, <1>2, <2>1, Unambiguous
<1>4. w = u
  BY <1>1, <1>2, <1>3, Zenon
<1>5. d = e
  <2>1. t \in Tables /\ fields \in Seq(Field)
    BY DEF IndexCase
  <2>2. QED BY <1>1, <1>2, <1>3, <2>1, DeclaredIndexes
<1>6. ASSUME InStrings(OldNames(old, fields[m], w), y) PROVE InStrings(OldNames(old, fields[n], u), y)
  <2>1. PICK x \in xs : fields[m].column \in ToSet(x.columns) /\ x.unique = w /\ x.name = y
    <3>1. IndexesRead(xs, old, fields)
      BY DEF IndexCase
    <3>2. QED BY <1>6, <3>1 DEF IndexesRead
  <2>2. x.name = d.name /\ x.unique = d.unique /\ fields[m].column \in ToSet(d.columns)
    BY <1>1, <1>2, <1>3, <1>5, <2>1, Zenon
  <2>3. ToSet(x.columns) \intersect ColumnsOf(fields) = ToSet(d.columns)
    BY <2>1, <2>2, Reshapes
  <2>4. fields[n].column \in ToSet(x.columns)
    BY <1>1, <2>3
  <2>5. x.unique = u /\ x.name = y
    BY <1>4, <2>1, Zenon
  <2>6. IndexesRead(xs, old, fields)
    BY DEF IndexCase
  <2>7. QED BY <2>4, <2>5, <2>6, Zenon DEF IndexesRead
<1>7. QED BY <1>4, <1>6, Zenon

\* What makeIndexes gathers for a table.
LEMMA GatheredVisits ==
  ASSUME NEW t \in Tables, NEW old \in Seq(Field), NEW fields \in Seq(Field), NEW add \in BOOLEAN
  PROVE  /\ Gathering(t, Gathered(t, old, fields, add), AllVisits(old, fields), add)
         /\ TableVisits(AllVisits(old, fields), old, fields)
<1>1. TableVisits(AllVisits(old, fields), old, fields)
  BY VisitsOfAll
<1>2. AllVisits(old, fields) \in Seq(Visit)
  BY <1>1 DEF TableVisits
<1>3. Gathering(t, Gather(t, AllVisits(old, fields), add), AllVisits(old, fields), add)
  BY <1>2, GatherEntries
<1>4. QED BY <1>1, <1>3 DEF Gathered, AllVisits

\* Every index that is created is declared.
LEMMA AddsDeclared ==
  ASSUME NEW t, NEW xs, NEW old, NEW fields, IndexCase(t, xs, old, fields),
         NEW e \in ToSet(Gathered(t, old, fields, TRUE))
  PROVE  e \in Declared(t, fields)
<1> DEFINE adds == Gathered(t, old, fields, TRUE)
           vs   == AllVisits(old, fields)
<1>1. t \in Tables /\ old \in Seq(Field) /\ fields \in Seq(Field) /\ ~Ambiguous(t, fields)
  BY DEF IndexCase
<1>2. Gathering(t, adds, vs, TRUE) /\ TableVisits(vs, old, fields)
  BY <1>1, GatheredVisits
<1> HIDE DEF adds, vs
<1>3. e \in ToSet(adds)
  BY DEF adds
<1>4. GatheredFrom(e, vs, TRUE) /\ adds \in Seq(IndexesOf(t))
  BY <1>2, <1>3 DEF Gathering
<1>5. e \in Index /\ e.table = t
  BY <1>3, <1>4, Elements DEF IndexesOf
<1>6. PICK v \in ToSet(vs) : Asked(v, e.name, TRUE) /\ e.unique = v.unique
  BY <1>4 DEF GatheredFrom
<1>7. PICK n \in DOMAIN fields : IsVisitOf(v, old, fields[n])
  BY <1>2 DEF TableVisits
<1>8. v.add /\ ~v.kept /\ v.name = e.name /\ e.unique \in BOOLEAN
  BY <1>5, <1>6, Zenon DEF Asked, Index
<1>9. e.unique \in BOOLEAN
  BY <1>5 DEF Index
<1>10. /\ InStrings(Names(fields[n], e.unique), e.name)
       /\ ~InStrings(OldNames(old, fields[n], e.unique), e.name)
  BY <1>6, <1>7, <1>8, Zenon DEF IsVisitOf
<1>11. ASSUME NEW m \in DOMAIN fields
       PROVE  /\ IsInjective(Names(fields[m], e.unique))
              /\ \A w \in BOOLEAN : InStrings(Names(fields[m], w), e.name) =>
                   w = e.unique /\ ~InStrings(OldNames(old, fields[m], w), e.name)
  <2>1. IsInjective(Names(fields[m], e.unique))
    BY <1>1, <1>9, Unambiguous
  <2>2. ASSUME NEW w \in BOOLEAN, InStrings(Names(fields[m], w), e.name)
        PROVE  w = e.unique /\ ~InStrings(OldNames(old, fields[m], w), e.name)
    BY <1>9, <1>10, <2>2, AllOrNone
  <2>3. QED BY <2>1, <2>2
<1>12. Collected(vs, AskedColumn(e.name, TRUE)) = Naming(fields, e.name, e.unique)
  BY <1>1, <1>9, <1>11, NamingGathered DEF vs
<1>13. e.columns = Naming(fields, e.name, e.unique)
  BY <1>4, <1>12 DEF GatheredFrom
<1>14. PICK d \in Declared(t, fields) : d.name = e.name /\ d.unique = e.unique
  BY <1>9, <1>10, WantedIndex
<1>15. IsDeclared(d, t, fields)
  BY <1>1, DeclaredIndexes
<1>16. d \in Index /\ d.table = t /\ d.columns = e.columns
  <2>1. d.columns = Naming(fields, d.name, d.unique)
    BY <1>15 DEF IsDeclared
  <2>2. QED BY <1>13, <1>14, <1>15, <2>1, Zenon DEF IsDeclared
<1>17. d = e
  BY <1>5, <1>14, <1>16 DEF Index
<1>18. QED BY <1>17

\* The old index a visit of makeIndexes that drops is about.
IsGone(v, y, xs, fields) ==
  \E x \in xs : \E n \in DOMAIN fields :
    /\ x.name = y /\ x.unique = v.unique
    /\ v.column = fields[n].column /\ fields[n].column \in ToSet(x.columns)
    /\ ~InStrings(Names(fields[n], x.unique), y)

LEMMA GoneIndex ==
  ASSUME NEW t, NEW xs, NEW old, NEW fields, IndexCase(t, xs, old, fields),
         NEW y, NEW v \in ToSet(AllVisits(old, fields)), Asked(v, y, FALSE)
  PROVE  IsGone(v, y, xs, fields)
<1>1. t \in Tables /\ old \in Seq(Field) /\ fields \in Seq(Field)
  BY DEF IndexCase
<1>2. TableVisits(AllVisits(old, fields), old, fields)
  BY <1>1, VisitsOfAll
<1>3. PICK n \in DOMAIN fields : IsVisitOf(v, old, fields[n])
  BY <1>2 DEF TableVisits
<1>4. ~v.add /\ ~v.kept /\ v.name = y
  BY Zenon DEF Asked
<1>5. v.unique \in BOOLEAN /\ v.column = fields[n].column
  BY <1>3 DEF IsVisitOf, Visit
<1>6. InStrings(OldNames(old, fields[n], v.unique), y) /\ ~InStrings(Names(fields[n], v.unique), y)
  BY <1>3, <1>4, Zenon DEF IsVisitOf
<1>7. PICK x \in xs : fields[n].column \in ToSet(x.columns) /\ x.unique = v.unique /\ x.name = y
  <2>1. IndexesRead(xs, old, fields)
    BY DEF IndexCase
  <2>2. QED BY <1>5, <1>6, <2>1 DEF IndexesRead
<1>8. QED BY <1>5, <1>6, <1>7, Zenon DEF IsGone

\* An index of the table goes with its columns, becomes a declared one, or is dropped.
OldServed(x, t, fields, drops) ==
  \/ Only(x.columns, ColumnsOf(fields)) = <<>>
  \/ Shrunk(x, ColumnsOf(fields)) \in Declared(t, fields)
  \/ \E e \in ToSet(drops) : e.name = x.name

\* What is planned for the indexes of a table: those that are dropped, those that are created.
IndexPlan(t, xs, fields, drops, adds) ==
  LET kept == ColumnsOf(fields)
  IN  /\ \A e \in ToSet(adds) : e \in Declared(t, fields)
      /\ \A y \in Declared(t, fields) :
           \/ y \in ToSet(adds)
           \/ \E x \in xs : Shrunk(x, kept) = y /\ \A e \in ToSet(drops) : e.name # y.name
      /\ \A x \in xs : OldServed(x, t, fields, drops)
      /\ \A e \in ToSet(drops) :
           \E x \in xs : e.name = x.name /\ e.columns[1] \in ToSet(x.columns) \intersect kept
      /\ DistinctNames(drops)

\* Every entry of the list that is dropped is an index of the table, and starts with a column
\* of it that stays.
LEMMA DropsOld ==
  ASSUME NEW t, NEW xs, NEW old, NEW fields, IndexCase(t, xs, old, fields),
         NEW e \in ToSet(Gathered(t, old, fields, FALSE))
  PROVE  \E x \in xs : /\ e.name = x.name
                       /\ e.columns[1] \in ToSet(x.columns) \intersect ColumnsOf(fields)
<1> DEFINE drops == Gathered(t, old, fields, FALSE)
           vs    == AllVisits(old, fields)
           g     == AskedColumn(e.name, FALSE)
<1>1. t \in Tables /\ old \in Seq(Field) /\ fields \in Seq(Field)
      /\ \A x, y \in xs : x.name = y.name => x = y
  BY DEF IndexCase
<1>2. Gathering(t, drops, vs, FALSE) /\ TableVisits(vs, old, fields)
  BY <1>1, GatheredVisits
<1>3. e \in ToSet(drops) /\ \A v \in ToSet(vs) : Asked(v, e.name, FALSE) =>
        \E x \in xs : \E n \in DOMAIN fields :
          x.name = e.name /\ v.column = fields[n].column /\ fields[n].column \in ToSet(x.columns)
  <2>1. ASSUME NEW v \in ToSet(vs), Asked(v, e.name, FALSE)
        PROVE  IsGone(v, e.name, xs, fields)
    BY <2>1, GoneIndex
  <2> HIDE DEF vs
  <2>2. QED BY <2>1 DEF IsGone
<1> HIDE DEF drops, vs
<1>4. GatheredFrom(e, vs, FALSE) /\ vs \in Seq(Visit)
  BY <1>2, <1>3 DEF Gathering, TableVisits
<1>5. PICK v \in ToSet(vs) : Asked(v, e.name, FALSE)
  BY <1>4 DEF GatheredFrom
<1>6. PICK x \in xs : x.name = e.name
  BY <1>3, <1>5
<1>7. ToSet(vs) \subseteq Visit
  BY <1>4, Elements
<1>8. /\ Collects(g, Visit, Columns)
      /\ \A w \in Visit : g[w] = IF Asked(w, e.name, FALSE) THEN <<w.column>> ELSE <<>>
  BY AskedCollects DEF AskedColumn
<1>9. e.columns = Collected(vs, g)
  BY <1>4 DEF GatheredFrom
<1> HIDE DEF g
<1>10. /\ e.columns \in Seq(Columns)
       /\ ToSet(e.columns) = UNION {ToSet(g[w]) : w \in ToSet(vs)}
  BY <1>4, <1>8, <1>9, CollectedElements
<1>11. \A a : ToSet(<<a>>) = {a} /\ ToSet(<<>>) = {}
  BY DEF ToSet
<1>12. \A w \in ToSet(vs) :
         ToSet(g[w]) = IF Asked(w, e.name, FALSE) THEN {w.column} ELSE {}
  BY <1>7, <1>8, <1>11
<1>13. v.column \in ToSet(e.columns)
  BY <1>5, <1>10, <1>12
<1>14. e.columns[1] \in ToSet(e.columns)
  <2>1. \E n \in DOMAIN e.columns : TRUE
    BY <1>13 DEF ToSet
  <2>2. 1 \in DOMAIN e.columns
    BY <1>10, <2>1, Elements
  <2>3. QED BY <1>10, <2>2, Elements
<1>15. PICK w \in ToSet(vs) : Asked(w, e.name, FALSE) /\ e.columns[1] = w.column
  <2>1. PICK w \in ToSet(vs) : e.columns[1] \in ToSet(g[w])
    BY <1>10, <1>14
  <2>2. QED BY <1>12, <2>1
<1>16. PICK z \in xs, n \in DOMAIN fields :
         z.name = e.name /\ w.column = fields[n].column /\ fields[n].column \in ToSet(z.columns)
  BY <1>3, <1>15
<1>17. fields[n].column \in ColumnsOf(fields)
  BY <1>1, FieldsOf
<1>18. QED BY <1>15, <1>16, <1>17

\* A declared index is created, or is one of the table that is not dropped.
LEMMA DeclaredIsServed ==
  ASSUME NEW t, NEW xs, NEW old, NEW fields, IndexCase(t, xs, old, fields),
         NEW y \in Declared(t, fields)
  PROVE  \/ y \in ToSet(Gathered(t, old, fields, TRUE))
         \/ \E x \in xs : /\ Shrunk(x, ColumnsOf(fields)) = y
                          /\ \A e \in ToSet(Gathered(t, old, fields, FALSE)) : e.name # y.name
<1> DEFINE adds  == Gathered(t, old, fields, TRUE)
           drops == Gathered(t, old, fields, FALSE)
           vs    == AllVisits(old, fields)
<1>1. t \in Tables /\ old \in Seq(Field) /\ fields \in Seq(Field) /\ ~Ambiguous(t, fields)
      /\ IndexesRead(xs, old, fields)
      /\ \A x, z \in xs : x.name = z.name => x = z
  BY DEF IndexCase
<1>2. /\ Gathering(t, adds, vs, TRUE) /\ Gathering(t, drops, vs, FALSE)
      /\ TableVisits(vs, old, fields)
  BY <1>1, GatheredVisits
<1>3. IsDeclared(y, t, fields)
  BY <1>1, DeclaredIndexes
<1>4. y.unique \in BOOLEAN
  BY <1>3 DEF IsDeclared, Index
<1>5. PICK n \in DOMAIN fields :
        InStrings(Names(fields[n], y.unique), y.name) /\ fields[n].column \in ToSet(y.columns)
  BY <1>3 DEF IsDeclared
<1>6. CASE InStrings(OldNames(old, fields[n], y.unique), y.name)
  <2>1. PICK x \in xs : fields[n].column \in ToSet(x.columns) /\ x.unique = y.unique /\ x.name = y.name
    BY <1>1, <1>4, <1>6 DEF IndexesRead
  <2>2. /\ Shrunk(x, ColumnsOf(fields)) = y
        /\ ToSet(x.columns) \intersect ColumnsOf(fields) = ToSet(y.columns)
    BY <1>5, <2>1, Reshapes
  <2>3. ASSUME NEW e \in ToSet(drops), e.name = y.name PROVE FALSE
    <3>1. PICK v \in ToSet(vs) : Asked(v, y.name, FALSE)
      <4> HIDE DEF drops, vs
      <4>1. QED BY <1>2, <2>3 DEF Gathering, GatheredFrom
    <3>2. PICK z \in xs, m \in DOMAIN fields :
            /\ z.name = y.name /\ fields[m].column \in ToSet(z.columns)
            /\ ~InStrings(Names(fields[m], z.unique), y.name)
      <4>1. IsGone(v, y.name, xs, fields)
        BY <3>1, GoneIndex
      <4>2. QED BY <4>1 DEF IsGone
    <3>3. z = x
      BY <1>1, <2>1, <3>2
    <3>4. fields[m].column \in ToSet(y.columns)
      <4>1. fields[m].column \in ColumnsOf(fields)
        BY <1>1, FieldsOf
      <4>2. QED BY <2>2, <3>2, <3>3, <4>1
    <3>5. PICK k \in DOMAIN fields :
            InStrings(Names(fields[k], y.unique), y.name) /\ fields[k].column = fields[m].column
      BY <1>3, <3>4 DEF IsDeclared
    <3>6. k = m
      BY <1>1, <3>5, Unambiguous
    <3>7. z.unique = y.unique
      BY <2>1, <3>3
    <3>8. QED BY <3>2, <3>5, <3>6, <3>7, Zenon
  <2>4. QED BY <2>2, <2>3
<1>7. CASE ~InStrings(OldNames(old, fields[n], y.unique), y.name)
  <2>1. PICK v \in ToSet(vs) :
          v.add /\ v.unique = y.unique /\ v.name = y.name /\ IsVisitOf(v, old, fields[n])
    <3> HIDE DEF vs
    <3>1. QED BY <1>2, <1>4, <1>5 DEF TableVisits
  <2>2. ~v.kept
    BY <1>7, <2>1, Zenon DEF IsVisitOf
  <2>3. v.add = TRUE
    BY <2>1, Zenon DEF IsVisitOf, Visit
  <2>4. PICK e \in ToSet(adds) : e.name = y.name
    <3> HIDE DEF adds, vs
    <3>1. QED BY <1>2, <2>1, <2>2, <2>3 DEF Gathering
  <2>5. e \in Declared(t, fields)
    BY AddsDeclared
  <2>6. e = y
    <3>1. e.unique = y.unique
      BY <1>1, <2>4, <2>5, Unambiguous
    <3>2. QED BY <1>1, <2>4, <2>5, <3>1, DeclaredIndexes
  <2>7. QED BY <2>4, <2>6
<1>8. QED BY <1>6, <1>7

LEMMA OldIsServed ==
  ASSUME NEW t, NEW xs, NEW old, NEW fields, IndexCase(t, xs, old, fields), NEW x \in xs
  PROVE  OldServed(x, t, fields, Gathered(t, old, fields, FALSE))
<1> DEFINE drops == Gathered(t, old, fields, FALSE)
           vs    == AllVisits(old, fields)
           kept  == ColumnsOf(fields)
<1>1. t \in Tables /\ old \in Seq(Field) /\ fields \in Seq(Field) /\ x \in Index
      /\ IndexesRead(xs, old, fields)
  BY DEF IndexCase
<1>2. Gathering(t, drops, vs, FALSE) /\ TableVisits(vs, old, fields)
  BY <1>1, GatheredVisits
<1>3. x.columns \in Seq(Columns) /\ x.unique \in BOOLEAN
  BY <1>1 DEF Index
<1>4. Only(x.columns, kept) \in Seq(Columns) /\ ToSet(Only(x.columns, kept)) = ToSet(x.columns) \intersect kept
  BY <1>3, OnlyElements
<1> HIDE DEF drops, vs
<1>5. SUFFICES ASSUME Only(x.columns, kept) # <<>>
               PROVE  \/ Shrunk(x, kept) \in Declared(t, fields)
                      \/ \E e \in ToSet(drops) : e.name = x.name
  BY DEF drops, OldServed
<1>6. PICK n \in DOMAIN fields : fields[n].column \in ToSet(x.columns)
  <2>1. 1 \in DOMAIN Only(x.columns, kept)
    BY <1>4, <1>5, Elements
  <2>2. PICK c : c \in ToSet(Only(x.columns, kept))
    BY <1>4, <2>1, Elements
  <2>3. c \in ToSet(x.columns) /\ c \in kept
    BY <1>4, <2>2
  <2>4. QED BY <2>3 DEF ColumnsOf
<1>7. InStrings(OldNames(old, fields[n], x.unique), x.name)
  BY <1>1, <1>3, <1>6 DEF IndexesRead
<1>8. CASE InStrings(Names(fields[n], x.unique), x.name)
  <2>1. PICK d \in Declared(t, fields) :
          d.name = x.name /\ d.unique = x.unique /\ fields[n].column \in ToSet(d.columns)
    BY <1>3, <1>8, WantedIndex
  <2>2. Shrunk(x, kept) = d
    BY <1>6, <2>1, Reshapes
  <2>3. QED BY <2>2
<1>9. CASE ~InStrings(Names(fields[n], x.unique), x.name)
  <2>1. PICK v \in ToSet(vs) :
          ~v.add /\ v.unique = x.unique /\ v.name = x.name /\ IsVisitOf(v, old, fields[n])
    BY <1>2, <1>3, <1>7 DEF TableVisits
  <2>2. ~v.kept
    BY <1>9, <2>1, Zenon DEF IsVisitOf
  <2>3. v.add = FALSE
    BY <2>1, Zenon DEF IsVisitOf, Visit
  <2>4. QED BY <1>2, <2>1, <2>2, <2>3 DEF Gathering
<1>10. QED BY <1>8, <1>9

LEMMA IndexesPlanned ==
  ASSUME NEW t, NEW xs, NEW old, NEW fields, IndexCase(t, xs, old, fields)
  PROVE  IndexPlan(t, xs, fields, Gathered(t, old, fields, FALSE), Gathered(t, old, fields, TRUE))
<1>1. t \in Tables /\ old \in Seq(Field) /\ fields \in Seq(Field)
  BY DEF IndexCase
<1>2. DistinctNames(Gathered(t, old, fields, FALSE))
  BY <1>1, GatheredVisits DEF Gathering
<1>3. \A e \in ToSet(Gathered(t, old, fields, TRUE)) : e \in Declared(t, fields)
  BY AddsDeclared
<1>4. \A y \in Declared(t, fields) :
        \/ y \in ToSet(Gathered(t, old, fields, TRUE))
        \/ \E x \in xs : /\ Shrunk(x, ColumnsOf(fields)) = y
                         /\ \A e \in ToSet(Gathered(t, old, fields, FALSE)) : e.name # y.name
  BY DeclaredIsServed
<1>5. \A x \in xs : OldServed(x, t, fields, Gathered(t, old, fields, FALSE))
  BY OldIsServed
<1>6. \A e \in ToSet(Gathered(t, old, fields, FALSE)) :
        \E x \in xs : e.name = x.name /\ e.columns[1] \in ToSet(x.columns) \intersect ColumnsOf(fields)
  BY DropsOld
<1>7. QED BY <1>2, <1>3, <1>4, <1>5, <1>6 DEF IndexPlan

-----------------------------------------------------------------------------
(* A table, read as it is.                                                 *)

\* Field o is what column col is read as.
NamesRead(o, c, xs) ==
  \A u \in BOOLEAN : \A y :
    InStrings(Names(o, u), y) <=>
      \E x \in xs : c \in ToSet(x.columns) /\ x.unique = u /\ x.name = y
ReadAs(t, tbl, col, o) ==
  /\ o \in Field /\ o.table = t
  /\ o.name = Camel[col.name] /\ o.column = col.name /\ o.def = col.def
  /\ o.pk <=> col.name \in tbl.pk
  /\ NamesRead(o, col.name, tbl.indexes)

\* Each field is read from a column, and each column as a field.
IsReading(t, tbl, old) ==
  /\ old \in Seq(Field)
  /\ \A o \in ToSet(old) : \E col \in ToSet(tbl.columns) : ReadAs(t, tbl, col, o)
  /\ \A col \in ToSet(tbl.columns) : \E o \in ToSet(old) : ReadAs(t, tbl, col, o)

\* At most one member.
Small(S) == S = {} \/ \E a : S = {a}

LEMMA SmallSequence ==
  ASSUME NEW S, Small(S)
  PROVE  \A y : InStrings(SetToSeq(S), y) <=> y \in S
<1>1. CASE S = {}
  <2>1. Cardinality(S) = 0
    BY <1>1, FS_EmptySet
  <2>2. 1..Cardinality(S) = {}
    BY <2>1
  <2>3. [i \in 1..Cardinality(S) |-> 0] \in [1..Cardinality(S) -> S]
        /\ IsInjective([i \in 1..Cardinality(S) |-> 0])
    BY <2>2 DEF IsInjective
  <2>4. SetToSeq(S) \in [1..Cardinality(S) -> S]
    BY <2>3, Zenon DEF SetToSeq
  <2>5. QED BY <1>1, <2>2, <2>4 DEF InStrings
<1>2. ASSUME NEW a, S = {a} PROVE \A y : InStrings(SetToSeq(S), y) <=> y \in S
  <2>1. Cardinality(S) = 1
    BY <1>2, FS_Singleton
  <2>2. 1..Cardinality(S) = {1}
    BY <2>1
  <2>3. [i \in 1..Cardinality(S) |-> a] \in [1..Cardinality(S) -> S]
        /\ IsInjective([i \in 1..Cardinality(S) |-> a])
    BY <1>2, <2>2 DEF IsInjective
  <2>4. SetToSeq(S) \in [1..Cardinality(S) -> S]
    BY <2>3, Zenon DEF SetToSeq
  <2>5. QED BY <1>2, <2>2, <2>4 DEF InStrings
<1>3. QED BY <1>1, <1>2 DEF Small

LEMMA NamedStrings ==
  ASSUME NEW f, NEW raw, NEW y
  PROVE  InStrings(Named(f, raw), y) <=>
           \E z : InStrings(raw, z)
                  /\ y = IF z = Unnamed THEN DefaultIndex[<<f.table, f.column>>] ELSE z
BY DEF InStrings, Named

\* The indexes a field has that was read with one row at most.
LEMMA NamesOfRow ==
  ASSUME NEW t, NEW col, NEW isPk \in BOOLEAN, NEW row, Small(row), row \subseteq Row,
         Snake[Camel[col.name]] = col.name,
         \A r \in row : r.name = AsColumn[col.name] => r.name = DefaultIndex[<<t, col.name>>],
         NEW u \in BOOLEAN, NEW y
  PROVE  InStrings(Names(FieldOf(t, col, isPk, row), u), y)
           <=> ~isPk /\ \E r \in row : r.unique = u /\ r.name = y
<1> DEFINE o == FieldOf(t, col, isPk, row)
           Tag(r) == IF r.name = AsColumn[col.name] THEN Unnamed ELSE r.name
           S(w) == {Tag(r) : r \in {q \in row : q.unique = w}}
           raw(w) == IF isPk THEN <<>> ELSE SetToSeq(S(w))
           Called(z) == IF z = Unnamed THEN DefaultIndex[<<t, col.name>>] ELSE z
<1>1. o.table = t /\ o.column = col.name /\ o.rawIndexes = raw(FALSE) /\ o.rawUniques = raw(TRUE)
  BY DEF FieldOf
<1>2. ASSUME NEW w \in BOOLEAN
      PROVE  InStrings(Named(o, raw(w)), y) <=> \E z : InStrings(raw(w), z) /\ y = Called(z)
  <2> HIDE DEF o, raw
  <2>1. InStrings(Named(o, raw(w)), y) <=>
          \E z : InStrings(raw(w), z)
                 /\ y = IF z = Unnamed THEN DefaultIndex[<<o.table, o.column>>] ELSE z
    BY NamedStrings
  <2>2. QED BY <1>1, <2>1
<1>3. ASSUME NEW w \in BOOLEAN PROVE Small(S(w))
  <2>1. CASE row = {}
    BY <2>1 DEF Small
  <2>2. ASSUME NEW r, row = {r} PROVE Small(S(w))
    <3>1. S(w) = {} \/ S(w) = {Tag(r)}
      <4> HIDE DEF Tag
      <4>1. {q \in row : q.unique = w} = {} \/ {q \in row : q.unique = w} = {r}
        BY <2>2
      <4>2. QED BY <4>1
    <3> HIDE DEF S, Tag
    <3>2. QED BY <3>1 DEF Small
  <2>3. QED BY <2>1, <2>2 DEF Small
<1>4. \A r \in row : Called(Tag(r)) = r.name
  BY UnnamedAssumption DEF Row
<1>5. ASSUME NEW w \in BOOLEAN
      PROVE  InStrings(Named(o, raw(w)), y) <=> ~isPk /\ \E r \in row : r.unique = w /\ r.name = y
  <2>1. CASE isPk
    <3>1. ~\E z : InStrings(raw(w), z)
      BY <2>1 DEF InStrings
    <3> HIDE DEF raw, o, Called
    <3>2. QED BY <1>2, <2>1, <3>1
  <2>2. CASE ~isPk
    <3>1. \A z : InStrings(SetToSeq(S(w)), z) <=> z \in S(w)
      <4> HIDE DEF S
      <4>1. QED BY <1>3, SmallSequence
    <3>2. raw(w) = SetToSeq(S(w))
      BY <2>2
    <3> HIDE DEF raw, o, Called
    <3>3. InStrings(Named(o, raw(w)), y) <=> \E z : z \in S(w) /\ y = Called(z)
      BY <1>2, <3>1, <3>2
    <3> HIDE DEF Tag
    <3>4. (\E z : z \in S(w) /\ y = Called(z)) <=> \E r \in row : r.unique = w /\ y = Called(Tag(r))
      OBVIOUS
    <3>5. QED BY <1>4, <2>2, <3>3, <3>4
  <2>3. QED BY <2>1, <2>2
<1> HIDE DEF o, raw
<1>6. CASE u = TRUE
  <2>1. Names(o, u) = Named(o, raw(TRUE))
    BY <1>1, <1>6 DEF Names, UniqueIndexes
  <2>2. QED BY <1>5, <1>6, <2>1, Zenon DEF o
<1>7. CASE u = FALSE
  <2>1. Names(o, u) = Named(o, raw(FALSE))
    BY <1>1, <1>7 DEF Names, Indexes
  <2>2. QED BY <1>5, <1>7, <2>1, Zenon DEF o
<1>8. QED BY <1>6, <1>7

\* The rows of a column.
LEMMA RowsOfColumn ==
  ASSUME NEW tbl, NEW c
  PROVE  \A r : r \in IndexRows(tbl, c) <=>
           \/ \E x \in tbl.indexes :
                c \in ToSet(x.columns) /\ r = [name |-> x.name, unique |-> x.unique]
           \/ c \in tbl.pk /\ r = [name |-> PrimaryName, unique |-> TRUE]
BY DEF IndexRows

LEMMA RowsType ==
  ASSUME NEW t, NEW tbl, IsTable(tbl), NEW c
  PROVE  IndexRows(tbl, c) \subseteq Row /\ IsFiniteSet(IndexRows(tbl, c))
<1>1. \A x \in tbl.indexes : x \in Index
  BY PartsOfTable
<1>2. ASSUME NEW r \in IndexRows(tbl, c) PROVE r \in Row
  <2>1. ASSUME NEW x \in tbl.indexes PROVE [name |-> x.name, unique |-> x.unique] \in Row
    BY <1>1 DEF Row, Index
  <2>2. [name |-> PrimaryName, unique |-> TRUE] \in Row
    BY IndexNameAssumption DEF Row
  <2>3. \/ \E x \in tbl.indexes : r = [name |-> x.name, unique |-> x.unique]
        \/ r = [name |-> PrimaryName, unique |-> TRUE]
    BY RowsOfColumn
  <2>4. QED BY <2>1, <2>2, <2>3
<1>3. IsFiniteSet(Row)
  <2> DEFINE f == [p \in IndexNames \X BOOLEAN |-> [name |-> p[1], unique |-> p[2]]]
  <2>1. IsFiniteSet(BOOLEAN)
    <3>1. IsFiniteSet({} \union {TRUE}) /\ IsFiniteSet(({} \union {TRUE}) \union {FALSE})
      BY FS_EmptySet, FS_AddElement
    <3>2. BOOLEAN = ({} \union {TRUE}) \union {FALSE}
      OBVIOUS
    <3>3. QED BY <3>1, <3>2
  <2>2. IsFiniteSet(IndexNames \X BOOLEAN)
    BY <2>1, IndexNamesAssumption, FS_Product
  <2>3. f \in Surjection(IndexNames \X BOOLEAN, Row)
    <3>1. f \in [IndexNames \X BOOLEAN -> Row]
      BY DEF Row
    <3>2. ASSUME NEW r \in Row PROVE \E p \in IndexNames \X BOOLEAN : f[p] = r
      <4>1. <<r.name, r.unique>> \in IndexNames \X BOOLEAN
        BY DEF Row
      <4>2. f[<<r.name, r.unique>>] = [name |-> r.name, unique |-> r.unique]
        BY <4>1
      <4>3. [name |-> r.name, unique |-> r.unique] = r
        BY DEF Row
      <4>4. QED BY <4>1, <4>2, <4>3
    <3> HIDE DEF f
    <3>3. QED BY <3>1, <3>2 DEF Surjection
  <2> HIDE DEF f
  <2>4. QED BY <2>2, <2>3, FS_Surjection
<1>4. QED BY <1>2, <1>3, FS_Subset

\* A column that is not in several indexes has one row at most.
LEMMA FewRows ==
  ASSUME NEW t, NEW tbl, IsTable(tbl), ~Shared(tbl), NEW c \in ColumnNames(tbl)
  PROVE  Small(IndexRows(tbl, c))
<1> DEFINE S == IndexRows(tbl, c)
<1>1. IsFiniteSet(S)
  BY RowsType
<1>2. ~(Cardinality(S) > 1)
  BY DEF Shared
<1> HIDE DEF S
<1>3. Cardinality(S) \in Nat
  BY <1>1, FS_CardinalityType
<1>4. Cardinality(S) = 0 \/ Cardinality(S) = 1
  BY <1>2, <1>3
<1>5. S = {} \/ \E a : S = {a}
  BY <1>1, <1>4, FS_EmptySet, FS_Singleton
<1>6. QED BY <1>5 DEF Small, S

\* A column of the key is read without an index.
LEMMA PkHasNoNames ==
  ASSUME NEW t, NEW col, NEW row, NEW u \in BOOLEAN, NEW y
  PROVE  ~InStrings(Names(FieldOf(t, col, TRUE, row), u), y)
<1>1. /\ FieldOf(t, col, TRUE, row).rawIndexes = <<>>
      /\ FieldOf(t, col, TRUE, row).rawUniques = <<>>
  BY DEF FieldOf
<1>2. Names(FieldOf(t, col, TRUE, row), u) = Named(FieldOf(t, col, TRUE, row), <<>>)
  <2> HIDE DEF FieldOf
  <2>1. QED BY <1>1 DEF Names, Indexes, UniqueIndexes
<1>3. ~InStrings(Named(FieldOf(t, col, TRUE, row), <<>>), y)
  <2> HIDE DEF FieldOf
  <2>1. QED BY DEF InStrings, Named
<1>4. QED BY <1>2, <1>3

\* A column, read with the rows it has.
LEMMA FieldIsReadAs ==
  ASSUME NEW t \in Tables, NEW tbl, IsTable(tbl), WellFormed(t, tbl), ~Shared(tbl),
         ~ReadAsDefault(t, tbl), NEW col \in ToSet(tbl.columns), Snake[Camel[col.name]] = col.name,
         NEW isPk \in BOOLEAN, isPk <=> \E r \in IndexRows(tbl, col.name) : r.name = PrimaryName
  PROVE  ReadAs(t, tbl, col, FieldOf(t, col, isPk, IndexRows(tbl, col.name)))
<1> DEFINE row == IndexRows(tbl, col.name)
           o   == FieldOf(t, col, isPk, row)
<1>1. col \in Column /\ col.name \in ColumnNames(tbl) /\ tbl.indexes \subseteq Index
  BY PartsOfTable, Elements
<1>2. row \subseteq Row /\ IsFiniteSet(row) /\ Small(row)
  BY <1>1, RowsType, FewRows
<1>3. \A r : r \in row <=>
        \/ \E x \in tbl.indexes :
             col.name \in ToSet(x.columns) /\ r = [name |-> x.name, unique |-> x.unique]
        \/ col.name \in tbl.pk /\ r = [name |-> PrimaryName, unique |-> TRUE]
  BY RowsOfColumn
<1>4. o \in Field /\ o.table = t /\ o.name = Camel[col.name] /\ o.column = col.name
  BY <1>1, <1>2, FieldOfType DEF o
<1>5. o.def = col.def /\ o.pk = isPk
  BY DEF FieldOf
<1>6. \A x \in tbl.indexes : x.name # PrimaryName
  BY DEF WellFormed
<1>7. isPk <=> col.name \in tbl.pk
  <2> HIDE DEF row
  <2>1. isPk <=> \E r \in row : r.name = PrimaryName
    BY DEF row
  <2>2. ASSUME NEW r \in row, r.name = PrimaryName PROVE col.name \in tbl.pk
    BY <1>3, <1>6, <2>2
  <2>3. ASSUME col.name \in tbl.pk PROVE \E r \in row : r.name = PrimaryName
    <3> DEFINE b == [name |-> PrimaryName, unique |-> TRUE]
    <3>1. b \in row /\ b.name = PrimaryName
      BY <1>3, <2>3
    <3>2. QED BY <3>1
  <2>4. QED BY <2>1, <2>2, <2>3
<1>8. ASSUME NEW r \in row, r.name = AsColumn[col.name]
      PROVE  r.name = DefaultIndex[<<t, col.name>>] \/ isPk
  <2> HIDE DEF row
  <2>1. CASE \E x \in tbl.indexes :
               col.name \in ToSet(x.columns) /\ r = [name |-> x.name, unique |-> x.unique]
    BY <1>8, <2>1 DEF ReadAsDefault
  <2>2. CASE col.name \in tbl.pk
    BY <1>7, <2>2
  <2>3. QED BY <1>3, <2>1, <2>2
<1> HIDE DEF row
<1>9. ASSUME NEW u \in BOOLEAN, NEW y
      PROVE  InStrings(Names(o, u), y) <=>
               \E x \in tbl.indexes : col.name \in ToSet(x.columns) /\ x.unique = u /\ x.name = y
  <2>1. CASE isPk
    <3>1. ~InStrings(Names(o, u), y)
      BY <2>1, PkHasNoNames, Zenon DEF o
    <3>2. ASSUME NEW x \in tbl.indexes, col.name \in ToSet(x.columns) PROVE FALSE
      <4> DEFINE a == [name |-> x.name, unique |-> x.unique]
                 b == [name |-> PrimaryName, unique |-> TRUE]
      <4>1. a \in row /\ b \in row
        BY <1>3, <1>7, <2>1, <3>2
      <4>2. a # b
        BY <1>6
      <4> HIDE DEF a, b
      <4>3. QED BY <1>2, <4>1, <4>2 DEF Small
    <3>3. QED BY <3>1, <3>2
  <2>2. CASE ~isPk
    <3>1. InStrings(Names(o, u), y) <=> ~isPk /\ \E r \in row : r.unique = u /\ r.name = y
      BY <1>2, <1>8, <2>2, NamesOfRow DEF o
    <3>2. ASSUME NEW r \in row, r.unique = u, r.name = y
          PROVE  \E x \in tbl.indexes : col.name \in ToSet(x.columns) /\ x.unique = u /\ x.name = y
      BY <1>3, <1>7, <2>2, <3>2
    <3>3. ASSUME NEW x \in tbl.indexes, col.name \in ToSet(x.columns), x.unique = u, x.name = y
          PROVE  \E r \in row : r.unique = u /\ r.name = y
      <4> DEFINE b == [name |-> x.name, unique |-> x.unique]
      <4>1. b \in row /\ b.name = y /\ b.unique = u
        BY <1>3, <3>3
      <4> HIDE DEF b
      <4>2. QED BY <4>1
    <3>4. QED BY <2>2, <3>1, <3>2, <3>3
  <2>3. QED BY <2>1, <2>2
<1>10. NamesRead(o, col.name, tbl.indexes)
  BY <1>9 DEF NamesRead
<1> HIDE DEF o
<1>11. QED BY <1>4, <1>5, <1>7, <1>10 DEF ReadAs, o, row

\* Outside the limits, the fields of a table that was read as it is have its indexes.
LEMMA TableIndexCase ==
  ASSUME NEW t \in Tables, NEW tbl, IsTable(tbl), WellFormed(t, tbl), NEW old, IsReading(t, tbl, old),
         NEW fields \in Seq(Field), ~Ambiguous(t, fields), ~Reshaped(t, tbl, fields)
  PROVE  IndexCase(t, tbl.indexes, old, fields)
<1>1. old \in Seq(Field) /\ DOMAIN old = 1..Len(old) /\ Len(old) \in Nat
      /\ \A m \in DOMAIN old : old[m] \in ToSet(old)
  BY Elements DEF IsReading
<1>2. \A n \in DOMAIN fields : fields[n] \in Field
  BY FieldsOf
<1>3. ASSUME NEW n \in DOMAIN fields, NEW u \in BOOLEAN, NEW y
      PROVE  InStrings(OldNames(old, fields[n], u), y) <=>
               \E x \in tbl.indexes : fields[n].column \in ToSet(x.columns) /\ x.unique = u /\ x.name = y
  <2> DEFINE S == ByColumn(old, fields[n].column)
  <2>1. CASE S = {}
    <3>1. OldNames(old, fields[n], u) = <<>>
      BY <2>1 DEF OldNames
    <3>2. ~InStrings(OldNames(old, fields[n], u), y)
      BY <3>1 DEF InStrings
    <3>3. ASSUME NEW x \in tbl.indexes, fields[n].column \in ToSet(x.columns) PROVE FALSE
      <4>0. ToSet(x.columns) \subseteq {col.name : col \in ToSet(tbl.columns)}
        BY <3>3, PartsOfTable, Zenon
      <4>1. PICK col \in ToSet(tbl.columns) : col.name = fields[n].column
        BY <3>3, <4>0, Zenon
      <4>2. PICK o \in ToSet(old) : ReadAs(t, tbl, col, o)
        BY Zenon DEF IsReading
      <4>5. o.column = fields[n].column
        BY <4>1, <4>2 DEF ReadAs
      <4>3. PICK m \in DOMAIN old : old[m] = o
        BY DEF ToSet
      <4>4. QED BY <2>1, <4>3, <4>5, Zenon DEF ByColumn
    <3>4. QED BY <3>2, <3>3
  <2>2. CASE S # {}
    <3> DEFINE o == old[LastOf(S)]
    <3>1. S \in SUBSET (1..Len(old))
      BY <1>1 DEF ByColumn
    <3>2. LastOf(S) \in S
      <4> HIDE DEF S
      <4>1. QED BY <1>1, <2>2, <3>1, LastOfIsLast
    <3>3. o \in ToSet(old) /\ o.column = fields[n].column
      BY <1>1, <3>2 DEF ByColumn
    <3>4. OldNames(old, fields[n], u) = Names(o, u)
      BY <2>2 DEF OldNames
    <3> HIDE DEF o, S
    <3>5. PICK col \in ToSet(tbl.columns) : ReadAs(t, tbl, col, o)
      BY <3>3 DEF IsReading
    <3>6. NamesRead(o, fields[n].column, tbl.indexes)
      BY <3>3, <3>5 DEF ReadAs
    <3>7. InStrings(Names(o, u), y) <=>
            \E x \in tbl.indexes : fields[n].column \in ToSet(x.columns) /\ x.unique = u /\ x.name = y
      BY <3>6 DEF NamesRead
    <3>8. QED BY <3>4, <3>7
  <2>3. QED BY <2>1, <2>2
<1>4. IndexesRead(tbl.indexes, old, fields)
  BY <1>3 DEF IndexesRead
<1>5. \A x \in tbl.indexes : x \in Index /\ x.table = t
  BY PartsOfTable DEF WellFormed
<1>6. \A x, y \in tbl.indexes : x.name = y.name => x = y
  BY DEF WellFormed
<1>7. \A x \in tbl.indexes, y \in Declared(t, fields) :
        /\ x.name = y.name /\ x.unique = y.unique
        /\ ToSet(x.columns) \intersect ToSet(y.columns) # {}
        => Only(x.columns, ColumnsOf(fields)) = y.columns
  BY DEF Reshaped
<1>8. QED BY <1>1, <1>4, <1>5, <1>6, <1>7 DEF IndexCase

-----------------------------------------------------------------------------
(* The columns of one table.                                               *)

\* A table outside the limits, read as it is.
ColumnCase(t, tbl, old, fields) ==
  /\ t \in Tables /\ IsTable(tbl) /\ fields \in Seq(Field)
  /\ IsReading(t, tbl, old)
  /\ ~Alias(tbl, fields) /\ ~Respelled(tbl, fields)

\* The old field of a new one: the one of its column, else the one it was renamed from, whose
\* column no field has any more.
Matched(tbl, fields, f, o) ==
  \/ o.column = f.column
  \/ /\ f.column \notin ColumnNames(tbl)
     /\ o.column \in ColumnNames(tbl) \ ColumnsOf(fields) /\ f.name = Camel[o.column]

LEMMA SpelledApart ==
  ASSUME NEW t, NEW tbl, NEW old, NEW fields, ColumnCase(t, tbl, old, fields)
  PROVE  /\ \A o \in ToSet(old) : /\ o.column \in ColumnNames(tbl) /\ o.name = Camel[o.column]
                                  /\ o.column = Snake[o.name] /\ o.column \notin GoNames
         /\ \A c \in ColumnNames(tbl) :
              Snake[Camel[c]] = c /\ \E o \in ToSet(old) : o.column = c /\ o.name = Camel[c]
         /\ \A f \in ToSet(fields) :
              f \in Field /\ f.column \notin GoNames /\ f.name \in GoNames /\ f.column \in ColumnsOf(fields)
<1>1. IsTable(tbl) /\ fields \in Seq(Field) /\ IsReading(t, tbl, old) /\ ~Respelled(tbl, fields)
  BY DEF ColumnCase
<1>2. /\ ColumnNames(tbl) = {col.name : col \in ToSet(tbl.columns)}
      /\ ColumnNames(tbl) \subseteq Columns
  BY <1>1, PartsOfTable, NamesOfColumns
<1>3. \A c \in ColumnNames(tbl) \union ColumnsOf(fields) : Snake[Camel[c]] = c
  BY <1>1 DEF Respelled
<1>4. \A c \in Columns : Snake[Camel[c]] \notin GoNames
  BY CaseAssumption
<1>5. ASSUME NEW o \in ToSet(old)
      PROVE  /\ o.column \in ColumnNames(tbl) /\ o.name = Camel[o.column]
             /\ o.column = Snake[o.name] /\ o.column \notin GoNames
  <2>1. PICK col \in ToSet(tbl.columns) : ReadAs(t, tbl, col, o)
    BY <1>1 DEF IsReading
  <2>2. o.column = col.name /\ o.name = Camel[col.name]
    BY <2>1 DEF ReadAs
  <2>3. QED BY <1>2, <1>3, <1>4, <2>2
<1>6. ASSUME NEW c \in ColumnNames(tbl)
      PROVE  Snake[Camel[c]] = c /\ \E o \in ToSet(old) : o.column = c /\ o.name = Camel[c]
  <2>1. PICK col \in ToSet(tbl.columns) : col.name = c
    BY <1>2
  <2>2. PICK o \in ToSet(old) : ReadAs(t, tbl, col, o)
    BY <1>1 DEF IsReading
  <2>3. QED BY <1>3, <2>1, <2>2 DEF ReadAs
<1>7. ASSUME NEW f \in ToSet(fields)
      PROVE  f \in Field /\ f.column \notin GoNames /\ f.name \in GoNames /\ f.column \in ColumnsOf(fields)
  <2>1. PICK n \in DOMAIN fields : f = fields[n]
    BY DEF ToSet
  <2>2. f \in Field /\ f.column \in ColumnsOf(fields)
    BY <1>1, <2>1, FieldsOf
  <2>3. f.column \in Columns /\ f.name \in GoNames
    BY <2>2 DEF Field
  <2>4. QED BY <1>3, <1>4, <2>2, <2>3
<1>8. QED BY <1>5, <1>6, <1>7

HasOld(old, f) == \E o : OldField(old, f) = {o}

LEMMA FieldIsMatched ==
  ASSUME NEW t, NEW tbl, NEW old, NEW fields, ColumnCase(t, tbl, old, fields), NEW f \in ToSet(fields)
  PROVE  /\ \A o : OldField(old, f) = {o} => o \in ToSet(old) /\ Matched(tbl, fields, f, o)
         /\ f.column \in ColumnNames(tbl) => HasOld(old, f)
         /\ \A c \in ColumnNames(tbl) : Camel[c] = f.name => HasOld(old, f)
         /\ OldField(old, f) # {} => HasOld(old, f)
<1> DEFINE byColumn == Keyed(old, f.column)
           byName   == Keyed(old, f.name)
<1>1. old \in Seq(Field) /\ DOMAIN old = 1..Len(old) /\ Len(old) \in Nat
      /\ \A m \in DOMAIN old : old[m] \in ToSet(old)
  BY Elements DEF IsReading, ColumnCase
<1>2. /\ \A o \in ToSet(old) : /\ o.column \in ColumnNames(tbl) /\ o.name = Camel[o.column]
                               /\ o.column = Snake[o.name] /\ o.column \notin GoNames
                               /\ o.name # f.column /\ o.column # f.name
      /\ \A c \in ColumnNames(tbl) :
           Snake[Camel[c]] = c /\ \E m \in DOMAIN old : old[m].column = c /\ old[m].name = Camel[c]
      /\ f \in Field /\ f.column \notin GoNames /\ f.name \in GoNames /\ f.column \in ColumnsOf(fields)
  <2>1. ASSUME NEW o \in ToSet(old) PROVE o \in Field
    BY <1>1, Elements
  <2>2. \A o \in ToSet(old) : o.name \in GoNames
    BY <2>1 DEF Field
  <2>3. \A o \in ToSet(old) : \E m \in DOMAIN old : old[m] = o
    BY DEF ToSet
  <2>4. QED BY <2>2, <2>3, SpelledApart
<1>3. byColumn \in SUBSET (1..Len(old)) /\ byName \in SUBSET (1..Len(old))
  BY <1>1 DEF Keyed
<1>4. /\ \A n \in byColumn : n \in DOMAIN old /\ old[n].column = f.column
      /\ \A n \in byName : n \in DOMAIN old /\ old[n].name = f.name
  BY <1>1, <1>2 DEF Keyed
<1>5. f.column \in ColumnNames(tbl) <=> byColumn # {}
  <2>1. ASSUME f.column \in ColumnNames(tbl) PROVE byColumn # {}
    BY <1>2, <2>1 DEF Keyed
  <2>2. ASSUME byColumn # {} PROVE f.column \in ColumnNames(tbl)
    <3>1. PICK n \in byColumn : TRUE
      BY <2>2
    <3>2. old[n] \in ToSet(old) /\ old[n].column = f.column
      BY <1>1, <1>4
    <3>3. QED BY <1>2, <3>2
  <2>3. QED BY <2>1, <2>2
<1>6. (\E c \in ColumnNames(tbl) : Camel[c] = f.name) => byName # {}
  BY <1>2 DEF Keyed
<1>7. OldField(old, f) = IF byColumn # {} THEN {old[LastOf(byColumn)]}
                         ELSE IF byName # {} THEN {old[LastOf(byName)]} ELSE {}
  BY DEF OldField
<1> HIDE DEF byColumn, byName
<1>8. byColumn # {} => LastOf(byColumn) \in byColumn
  BY <1>1, <1>3, LastOfIsLast
<1>9. byName # {} => LastOf(byName) \in byName
  BY <1>1, <1>3, LastOfIsLast
<1>10. ASSUME NEW o, OldField(old, f) = {o} PROVE o \in ToSet(old) /\ Matched(tbl, fields, f, o)
  <2>1. CASE byColumn # {}
    <3>1. o = old[LastOf(byColumn)]
      BY <1>7, <1>10, <2>1
    <3>2. o \in ToSet(old) /\ o.column = f.column
      BY <1>1, <1>4, <1>8, <2>1, <3>1
    <3>3. QED BY <3>2 DEF Matched
  <2>2. CASE byColumn = {}
    <3>1. byName # {} /\ o = old[LastOf(byName)]
      BY <1>7, <1>10, <2>2
    <3>2. o \in ToSet(old) /\ o.name = f.name
      BY <1>1, <1>4, <1>9, <3>1
    <3>3. f.column \notin ColumnNames(tbl) /\ o.column \in ColumnNames(tbl) /\ f.name = Camel[o.column]
      BY <1>2, <1>5, <2>2, <3>2
    <3>4. o.column \notin ColumnsOf(fields)
      <4>1. ~Crossed(fields)
        BY DEF ColumnCase, Alias
      <4>2. PICK n \in DOMAIN fields : fields[n] = f
        BY DEF ToSet
      <4>3. ASSUME o.column \in ColumnsOf(fields) PROVE FALSE
        <5>1. PICK m \in DOMAIN fields : fields[m].column = o.column
          BY <4>3 DEF ColumnsOf
        <5>2. QED BY <3>3, <4>1, <4>2, <5>1 DEF Crossed
      <4>4. QED BY <4>3
    <3>5. QED BY <3>2, <3>3, <3>4 DEF Matched
  <2>3. QED BY <2>1, <2>2
<1>11. OldField(old, f) # {} => HasOld(old, f)
  BY <1>7 DEF HasOld
<1>12. byColumn # {} \/ byName # {} => OldField(old, f) # {}
  BY <1>7
<1>13. QED BY <1>5, <1>6, <1>10, <1>11, <1>12

\* Everything emitted for the columns of one table.
LEMMA AlterColumnsSet ==
  ASSUME NEW old \in Seq(Field), NEW fields \in Seq(Field)
  PROVE  LET D == ToSet(AlterColumns(old, fields))
         IN  /\ AlterColumns(old, fields) \in Seq(Change)
             /\ \A c : c \in D <=>
                  \/ \E f \in ToSet(fields) : c \in ToSet(AlterNew(old, f))
                  \/ \E o \in ToSet(old) : c \in ToSet(AlterOld(fields, o))
<1> DEFINE ss == [n \in DOMAIN fields |-> AlterNew(old, fields[n])]
           tt == [m \in DOMAIN old |-> AlterOld(fields, old[m])]
<1>1. DOMAIN fields = 1..Len(fields) /\ Len(fields) \in Nat /\ \A n \in DOMAIN fields : fields[n] \in Field
  BY FieldsOf
<1>2. DOMAIN old = 1..Len(old) /\ Len(old) \in Nat /\ \A m \in DOMAIN old : old[m] \in Field
  BY FieldsOf
<1>3. \A f \in Field : AlterNew(old, f) \in Seq(Change) /\ AlterOld(fields, f) \in Seq(Change)
  BY AlterTypes
<1>4. ss \in [1..Len(fields) -> Seq(Change)]
  BY <1>1, <1>3
<1>5. tt \in [1..Len(old) -> Seq(Change)]
  BY <1>2, <1>3
<1>6. /\ \A n \in 1..Len(fields) : ss[n] = AlterNew(old, fields[n])
      /\ \A m \in 1..Len(old) : tt[m] = AlterOld(fields, old[m])
  BY <1>1, <1>2
<1>7. AlterColumns(old, fields) = FlattenSeq(ss) \o FlattenSeq(tt)
  BY DEF AlterColumns
<1> HIDE DEF ss, tt
<1>8. /\ FlattenSeq(ss) \in Seq(Change)
      /\ ToSet(FlattenSeq(ss)) = UNION {ToSet(ss[n]) : n \in 1..Len(fields)}
  BY <1>1, <1>4, FlattenUnion
<1>9. /\ FlattenSeq(tt) \in Seq(Change)
      /\ ToSet(FlattenSeq(tt)) = UNION {ToSet(tt[m]) : m \in 1..Len(old)}
  BY <1>2, <1>5, FlattenUnion
<1>10. /\ AlterColumns(old, fields) \in Seq(Change)
       /\ ToSet(AlterColumns(old, fields)) = ToSet(FlattenSeq(ss)) \union ToSet(FlattenSeq(tt))
  BY <1>7, <1>8, <1>9, ConcatSet, SMTT(30)
<1>11. ASSUME NEW c
       PROVE  c \in ToSet(FlattenSeq(ss)) <=> \E f \in ToSet(fields) : c \in ToSet(AlterNew(old, f))
  <2>1. ASSUME c \in ToSet(FlattenSeq(ss)) PROVE \E f \in ToSet(fields) : c \in ToSet(AlterNew(old, f))
    <3>1. PICK n \in 1..Len(fields) : c \in ToSet(ss[n])
      BY <1>8, <2>1
    <3>2. fields[n] \in ToSet(fields) /\ c \in ToSet(AlterNew(old, fields[n]))
      BY <1>1, <1>6, <3>1, Elements
    <3>3. QED BY <3>2
  <2>2. ASSUME NEW f \in ToSet(fields), c \in ToSet(AlterNew(old, f)) PROVE c \in ToSet(FlattenSeq(ss))
    <3>1. PICK n \in DOMAIN fields : f = fields[n]
      BY DEF ToSet
    <3>2. n \in 1..Len(fields) /\ c \in ToSet(ss[n])
      BY <1>1, <1>6, <2>2, <3>1
    <3>3. QED BY <1>8, <3>2
  <2>3. QED BY <2>1, <2>2
<1>12. ASSUME NEW c
       PROVE  c \in ToSet(FlattenSeq(tt)) <=> \E o \in ToSet(old) : c \in ToSet(AlterOld(fields, o))
  <2>1. ASSUME c \in ToSet(FlattenSeq(tt)) PROVE \E o \in ToSet(old) : c \in ToSet(AlterOld(fields, o))
    <3>1. PICK m \in 1..Len(old) : c \in ToSet(tt[m])
      BY <1>9, <2>1
    <3>2. old[m] \in ToSet(old) /\ c \in ToSet(AlterOld(fields, old[m]))
      BY <1>2, <1>6, <3>1, Elements
    <3>3. QED BY <3>2
  <2>2. ASSUME NEW o \in ToSet(old), c \in ToSet(AlterOld(fields, o)) PROVE c \in ToSet(FlattenSeq(tt))
    <3>1. PICK m \in DOMAIN old : o = old[m]
      BY DEF ToSet
    <3>2. m \in 1..Len(old) /\ c \in ToSet(tt[m])
      BY <1>2, <1>6, <2>2, <3>1
    <3>3. QED BY <1>9, <3>2
  <2>3. QED BY <2>1, <2>2
<1>13. QED BY <1>10, <1>11, <1>12

\* The members of the lists that have one.
LEMMA OneOrNone ==
  ASSUME NEW x, NEW y
  PROVE  /\ x \in ToSet(<<y>>) <=> x = y
         /\ x \notin ToSet(<<>>)
<1>1. ToSet(<<y>>) = {y}
  <2>1. DOMAIN <<y>> = {1} /\ <<y>>[1] = y
    OBVIOUS
  <2>2. QED BY <2>1 DEF ToSet
<1>2. ToSet(<<>>) = {}
  BY DEF ToSet
<1>3. QED BY <1>1, <1>2

\* The changes of columns, one by one.
IsRenamed(tbl, fields, o, f) ==
  /\ f.column \notin ColumnNames(tbl)
  /\ o.column \in ColumnNames(tbl) \ ColumnsOf(fields)
  /\ f.name = Camel[o.column]
IsColumnChange(c, tbl, old, fields) ==
  \/ \E f \in ToSet(fields) : c = AddColumn(f)
  \/ \E o \in ToSet(old) : c = DropColumn(o) /\ o.column \notin ColumnsOf(fields)
  \/ \E o \in ToSet(old), f \in ToSet(fields) : c = ModifyColumn(o, f) /\ Matched(tbl, fields, f, o)

\* What becomes of an old column, and how a field comes to have its own.
Changes(col, f, D) == \E o : o.column = col.name /\ o.def = col.def /\ ModifyColumn(o, f) \in D
Gives(f, tbl, fields, D) == \E o : IsRenamed(tbl, fields, o, f) /\ ModifyColumn(o, f) \in D
Takes(col, tbl, fields, D) ==
  \E o, f : o.column = col.name /\ IsRenamed(tbl, fields, o, f) /\ ModifyColumn(o, f) \in D
Drops(col, D) == \E o : o.column = col.name /\ DropColumn(o) \in D
ColumnServed(col, tbl, fields, D) ==
  col.name \in ColumnsOf(fields) \/ Drops(col, D) \/ Takes(col, tbl, fields, D)
FieldServed(f, tbl, fields, D) ==
  \/ \E col \in ToSet(tbl.columns) : col.name = f.column /\ (col.def = f.def \/ Changes(col, f, D))
  \/ f.column \notin ColumnNames(tbl) /\ (AddColumn(f) \in D \/ Gives(f, tbl, fields, D))
ColumnPlan(tbl, old, fields, D) ==
  /\ \A c \in D : IsColumnChange(c, tbl, old, fields)
  /\ \A col \in ToSet(tbl.columns) : ColumnServed(col, tbl, fields, D)
  /\ \A f \in ToSet(fields) : FieldServed(f, tbl, fields, D)

LEMMA NewColumnChanges ==
  ASSUME NEW t, NEW tbl, NEW old, NEW fields, ColumnCase(t, tbl, old, fields), NEW f \in ToSet(fields)
  PROVE  \A c \in ToSet(AlterNew(old, f)) : IsColumnChange(c, tbl, old, fields)
<1>1. CASE OldField(old, f) = {}
  <2>1. AlterNew(old, f) = <<AddColumn(f)>>
    BY <1>1 DEF AlterNew
  <2>2. QED BY <2>1, OneOrNone DEF IsColumnChange
<1>2. CASE OldField(old, f) # {}
  <2>1. PICK o : OldField(old, f) = {o}
    BY <1>2, FieldIsMatched DEF HasOld
  <2>2. o \in ToSet(old) /\ Matched(tbl, fields, f, o)
    BY <2>1, FieldIsMatched
  <2>3. AlterNew(old, f) = <<ModifyColumn(o, f)>> \/ AlterNew(old, f) = <<>>
    BY <2>1 DEF AlterNew
  <2>4. \A c \in ToSet(AlterNew(old, f)) : c = ModifyColumn(o, f)
    BY <2>3, OneOrNone
  <2>5. QED BY <2>2, <2>4 DEF IsColumnChange
<1>3. QED BY <1>1, <1>2

LEMMA ColumnsPlanned ==
  ASSUME NEW t, NEW tbl, NEW old, NEW fields, ColumnCase(t, tbl, old, fields)
  PROVE  ColumnPlan(tbl, old, fields, ToSet(AlterColumns(old, fields)))
<1> DEFINE D == ToSet(AlterColumns(old, fields))
<1>1. old \in Seq(Field) /\ fields \in Seq(Field)
  BY DEF ColumnCase, IsReading
<1>2. \A c : c \in D <=>
        \/ \E f \in ToSet(fields) : c \in ToSet(AlterNew(old, f))
        \/ \E o \in ToSet(old) : c \in ToSet(AlterOld(fields, o))
  BY <1>1, AlterColumnsSet, Zenon
<1> HIDE DEF D
<1>3. ASSUME NEW c \in D PROVE IsColumnChange(c, tbl, old, fields)
  <2>1. CASE \E f \in ToSet(fields) : c \in ToSet(AlterNew(old, f))
    BY <2>1, NewColumnChanges
  <2>2. CASE \E o \in ToSet(old) : c \in ToSet(AlterOld(fields, o))
    <3>1. PICK o \in ToSet(old) : c \in ToSet(AlterOld(fields, o))
      BY <2>2
    <3>2. c = DropColumn(o) /\ o.column \notin ColumnsOf(fields)
      BY <3>1, AlterOldCases, OneOrNone
    <3>3. QED BY <3>2 DEF IsColumnChange
  <2>3. QED BY <1>2, <2>1, <2>2
<1>4. ASSUME NEW f \in ToSet(fields), NEW o, OldField(old, f) = {o}, IsDifferent(o, f)
      PROVE  ModifyColumn(o, f) \in D
  <2>1. AlterNew(old, f) = <<ModifyColumn(o, f)>>
    BY <1>4 DEF AlterNew
  <2>2. ModifyColumn(o, f) \in ToSet(AlterNew(old, f))
    BY <2>1, OneOrNone
  <2>3. QED BY <1>2, <2>2
<1>5. /\ \A o \in ToSet(old) : /\ o.column \in ColumnNames(tbl) /\ o.name = Camel[o.column]
                               /\ o.column = Snake[o.name] /\ o.column \notin GoNames
      /\ \A c \in ColumnNames(tbl) :
           Snake[Camel[c]] = c /\ \E o \in ToSet(old) : o.column = c /\ o.name = Camel[c]
      /\ \A f \in ToSet(fields) :
           f \in Field /\ f.column \notin GoNames /\ f.name \in GoNames /\ f.column \in ColumnsOf(fields)
  BY SpelledApart
<1>6. ColumnNames(tbl) = {col.name : col \in ToSet(tbl.columns)}
  BY PartsOfTable DEF ColumnCase
<1>7. ASSUME NEW f \in ToSet(fields) PROVE FieldServed(f, tbl, fields, D)
  <2>1. CASE f.column \in ColumnNames(tbl)
    <3>9. HasOld(old, f)
      BY <2>1, FieldIsMatched
    <3>1. PICK o : OldField(old, f) = {o}
      BY <3>9 DEF HasOld
    <3>8. o \in ToSet(old) /\ Matched(tbl, fields, f, o)
      BY <3>1, FieldIsMatched
    <3>2. o \in ToSet(old) /\ o.column = f.column
      BY <2>1, <3>8 DEF Matched
    <3>3. PICK col \in ToSet(tbl.columns) : ReadAs(t, tbl, col, o)
      BY <3>2 DEF ColumnCase, IsReading
    <3>4. col.name = f.column /\ o.column = col.name /\ o.def = col.def
      BY <3>2, <3>3 DEF ReadAs
    <3>5. CASE col.def = f.def
      BY <3>4, <3>5 DEF FieldServed
    <3>6. CASE col.def # f.def
      <4>1. ModifyColumn(o, f) \in D
        BY <1>4, <3>1, <3>4, <3>6 DEF IsDifferent
      <4>2. Changes(col, f, D)
        BY <3>4, <4>1, Zenon DEF Changes
      <4>3. QED BY <3>4, <4>2 DEF FieldServed
    <3>7. QED BY <3>5, <3>6
  <2>2. CASE f.column \notin ColumnNames(tbl)
    <3>1. CASE OldField(old, f) = {}
      <4>1. AlterNew(old, f) = <<AddColumn(f)>>
        BY <3>1 DEF AlterNew
      <4>2. AddColumn(f) \in D
        BY <1>2, <4>1, OneOrNone
      <4>3. QED BY <2>2, <4>2 DEF FieldServed
    <3>2. CASE OldField(old, f) # {}
      <4>1. PICK o : OldField(old, f) = {o}
        BY <3>2, FieldIsMatched DEF HasOld
      <4>2. o \in ToSet(old) /\ Matched(tbl, fields, f, o)
        BY <4>1, FieldIsMatched
      <4>3. o.column \in ColumnNames(tbl)
        BY <1>5, <4>2
      <4>4. IsRenamed(tbl, fields, o, f)
        BY <2>2, <4>2, <4>3 DEF Matched, IsRenamed
      <4>5. ModifyColumn(o, f) \in D
        BY <1>4, <2>2, <4>1, <4>3 DEF IsDifferent
      <4>6. Gives(f, tbl, fields, D)
        BY <4>4, <4>5, Zenon DEF Gives
      <4>7. QED BY <2>2, <4>6 DEF FieldServed
    <3>3. QED BY <3>1, <3>2
  <2>3. QED BY <2>1, <2>2
<1>8. ASSUME NEW col \in ToSet(tbl.columns) PROVE ColumnServed(col, tbl, fields, D)
  <2>1. CASE col.name \in ColumnsOf(fields)
    BY <2>1 DEF ColumnServed
  <2>2. CASE col.name \notin ColumnsOf(fields)
    <3>1. PICK o \in ToSet(old) : o.column = col.name /\ o.name = Camel[col.name]
      BY <1>5, <1>6
    <3>2. CASE IsDropped(fields, o)
      <4>1. AlterOld(fields, o) = <<DropColumn(o)>>
        BY <3>2 DEF AlterOld
      <4>2. DropColumn(o) \in D
        BY <1>2, <4>1, OneOrNone
      <4>3. Drops(col, D)
        BY <3>1, <4>2, Zenon DEF Drops
      <4>4. QED BY <4>3 DEF ColumnServed
    <3>3. CASE ~IsDropped(fields, o)
      <4>1. \A n \in DOMAIN fields : fields[n] \in ToSet(fields)
        BY <1>1, Elements
      <4>2. \A n \in DOMAIN fields : fields[n].column # o.column
        BY <2>2, <3>1 DEF ColumnsOf
      <4>3. \A n \in DOMAIN fields : fields[n].name # o.column
        BY <1>5, <3>1, <4>1
      <4>4. Keyed(fields, o.column) = {}
        BY <4>2, <4>3 DEF Keyed
      <4>5. Keyed(fields, o.name) # {}
        BY <3>3, <4>4 DEF IsDropped
      <4>6. PICK n \in DOMAIN fields : fields[n].column = o.name \/ fields[n].name = o.name
        BY <4>5 DEF Keyed
      <4>7. o.name \in GoNames
        <5>1. o \in Field
          BY <1>1, Elements
        <5>2. QED BY <5>1 DEF Field
      <4>8. fields[n].name = o.name /\ fields[n] \in ToSet(fields)
        BY <1>5, <4>1, <4>6, <4>7
      <4> DEFINE f == fields[n]
      <4>9. f.column \notin ColumnNames(tbl)
        <5>1. ~Alias(tbl, fields) /\ col.name \in ColumnNames(tbl) /\ f.column # col.name
          BY <1>6, <3>1, <4>2 DEF ColumnCase
        <5>2. QED BY <3>1, <4>8, <5>1 DEF Alias
      <4>20. Camel[col.name] = f.name /\ col.name \in ColumnNames(tbl)
        BY <1>6, <3>1, <4>8
      <4>21. f \in ToSet(fields)
        BY <4>8
      <4> HIDE DEF f
      <4>22. HasOld(old, f)
        BY <4>20, <4>21, FieldIsMatched
      <4>10. PICK p : OldField(old, f) = {p}
        BY <4>22 DEF HasOld
      <4>11. p \in ToSet(old) /\ Matched(tbl, fields, f, p)
        BY <4>10, <4>21, FieldIsMatched
      <4>12. p.column \in ColumnNames(tbl)
        BY <1>5, <4>11
      <4>13. IsRenamed(tbl, fields, p, f)
        BY <4>9, <4>11, <4>12 DEF Matched, IsRenamed
      <4>14. p.column = col.name
        BY <1>5, <4>12, <4>13, <4>20 DEF IsRenamed
      <4>15. ModifyColumn(p, f) \in D
        BY <1>4, <4>9, <4>10, <4>12, <4>21 DEF IsDifferent
      <4>16. Takes(col, tbl, fields, D)
        BY <4>13, <4>14, <4>15, Zenon DEF Takes
      <4>17. QED BY <4>16 DEF ColumnServed
    <3>4. QED BY <3>2, <3>3
  <2>3. QED BY <2>1, <2>2
<1>9. QED BY <1>3, <1>7, <1>8 DEF ColumnPlan, D

\* The key of a table that was read as it is.
LEMMA KeyRead ==
  ASSUME NEW t, NEW tbl, IsTable(tbl), NEW old, IsReading(t, tbl, old)
  PROVE  PkColumns(old) = tbl.pk
<1>1. tbl.pk \subseteq {col.name : col \in ToSet(tbl.columns)}
  BY PartsOfTable
<1>2. \A m \in DOMAIN old : old[m] \in ToSet(old)
  BY Elements DEF IsReading
<1>3. \A o \in ToSet(old) : \E m \in DOMAIN old : old[m] = o
  BY DEF ToSet
<1>4. ASSUME NEW c \in PkColumns(old) PROVE c \in tbl.pk
  <2>1. PICK m \in DOMAIN old : old[m].pk /\ old[m].column = c
    BY DEF PkColumns, KeyFields
  <2>2. PICK col \in ToSet(tbl.columns) : ReadAs(t, tbl, col, old[m])
    BY <1>2 DEF IsReading
  <2>3. QED BY <2>1, <2>2 DEF ReadAs
<1>5. ASSUME NEW c \in tbl.pk PROVE c \in PkColumns(old)
  <2>1. PICK col \in ToSet(tbl.columns) : col.name = c
    BY <1>1
  <2>2. PICK o \in ToSet(old) : ReadAs(t, tbl, col, o)
    BY DEF IsReading
  <2>3. o.pk /\ o.column = c
    BY <2>1, <2>2 DEF ReadAs
  <2>4. QED BY <1>3, <2>3 DEF PkColumns, KeyFields
<1>6. QED BY <1>4, <1>5

-----------------------------------------------------------------------------
(* A plan as the changes of its tables, one table after the other.          *)

\* droppedColumn when the indexes of a table are compared.
LostBy(t, source, tables) ==
  UNION {DroppedColumns(OldOf(tables, u), source[u]) :
           u \in {w \in DOMAIN source : Rank[w] <= Rank[t]}}

ChangesOf(t, source, tables, pkModifier) ==
  TableChanges(t, OldOf(tables, t), source[t], t \in DOMAIN tables,
               LostBy(t, source, tables), pkModifier)

LEMMA OrderOfAll ==
  ASSUME NEW S \in SUBSET Tables, NEW order \in SetToSeqs(S)
  PROVE  /\ order \in Seq(S) /\ DOMAIN order = 1..Len(order) /\ Len(order) \in Nat
         /\ ToSet(order) = S
         /\ \A m, n \in DOMAIN order : m # n => order[m] # order[n]
<1> DEFINE N == Cardinality(S)
<1>1. IsFiniteSet(S) /\ N \in Nat
  BY TablesAssumption, FS_Subset, FS_CardinalityType
<1>2. order \in [1..N -> S] /\ \A m, n \in 1..N : m # n => order[m] # order[n]
  BY DEF SetToSeqs
<1>3. order \in Seq(S) /\ DOMAIN order = 1..Len(order) /\ Len(order) \in Nat
  BY OrderType, LenProperties
<1>4. IsFiniteSet(1..N) /\ Cardinality(1..N) = N
  <2> HIDE DEF N
  <2>1. IsFiniteSet(1..N) /\ Cardinality(1..N) = IF 1 > N THEN 0 ELSE N - 1 + 1
    BY <1>1, FS_Interval
  <2>2. QED BY <1>1, <2>1
<1>5. order \in Injection(1..N, S)
  BY <1>2 DEF Injection, IsInjective
<1>6. order \in Surjection(1..N, S)
  BY <1>1, <1>4, <1>5, FS_Injection
<1>7. ToSet(order) = S
  BY <1>2, <1>6 DEF Surjection, ToSet
<1>8. QED BY <1>2, <1>3, <1>7

\* The columns dropped so far are those of the tables with smaller names.
LEMMA SortedLoses ==
  ASSUME NEW source, IsSchema(source), NEW tables, NEW order \in Sorted(DOMAIN source),
         NEW n \in DOMAIN order
  PROVE  UNION {DroppedColumns(OldOf(tables, order[m]), source[order[m]]) : m \in 1..n}
           = LostBy(order[n], source, tables)
<1> DEFINE T     == {order[m] : m \in 1..n}
           lost(u) == DroppedColumns(OldOf(tables, u), source[u])
<1>1. DOMAIN source \subseteq Tables
  BY DEF IsSchema
<1>2. order \in SetToSeqs(DOMAIN source)
      /\ \A m, k \in DOMAIN order : m < k => Rank[order[m]] < Rank[order[k]]
  BY DEF Sorted
<1>3. /\ order \in Seq(DOMAIN source) /\ DOMAIN order = 1..Len(order) /\ Len(order) \in Nat
      /\ ToSet(order) = DOMAIN source
  BY <1>1, <1>2, OrderOfAll
<1>4. \A m \in DOMAIN order : order[m] \in DOMAIN source /\ Rank[order[m]] \in Nat
  BY <1>1, <1>3, ElementOfSeq, RankAssumption
<1>5. \A m \in 1..n : m \in DOMAIN order
  BY <1>3
<1>6. ASSUME NEW u \in T PROVE u \in DOMAIN source /\ Rank[u] <= Rank[order[n]]
  <2>1. PICK m \in 1..n : u = order[m]
    OBVIOUS
  <2>2. m < n \/ m = n
    BY <1>3, <2>1
  <2>3. QED BY <1>2, <1>4, <1>5, <2>1, <2>2
<1>7. ASSUME NEW u \in DOMAIN source, Rank[u] <= Rank[order[n]] PROVE u \in T
  <2>1. PICK m \in DOMAIN order : u = order[m]
    BY <1>3 DEF ToSet
  <2>2. ~(n < m)
    BY <1>2, <1>4, <1>7, <2>1
  <2>3. m \in 1..n
    BY <1>3, <2>2
  <2>4. QED BY <2>1, <2>3
<1>8. T = {w \in DOMAIN source : Rank[w] <= Rank[order[n]]}
  BY <1>6, <1>7
<1>9. {lost(order[m]) : m \in 1..n} = {lost(u) : u \in T}
  <2> HIDE DEF lost
  <2>1. QED OBVIOUS
<1> HIDE DEF T
<1>10. QED BY <1>8, <1>9 DEF LostBy

\* What a plan is made of: the tables that go, or the changes of the declared ones.
DropsAll(d, tables) ==
  \E order \in SetToSeqs(DOMAIN tables) : d = [n \in DOMAIN order |-> DropTable(order[n])]
ChangesAll(d, source, tables, pkModifier) ==
  \E order \in Sorted(DOMAIN source) :
    d = FlattenSeq([n \in DOMAIN order |-> ChangesOf(order[n], source, tables, pkModifier)])

LEMMA DiffShape ==
  ASSUME NEW source, IsSchema(source), NEW tables, IsSchema(tables), NEW pkModifier,
         NEW d \in Diff(source, tables, pkModifier)
  PROVE  /\ DOMAIN source = {} => DropsAll(d, tables)
         /\ DOMAIN source # {} => ChangesAll(d, source, tables, pkModifier)
<1> DEFINE read == Read(source, tables)
           rest == DOMAIN read \ DOMAIN source
           lists(order, ts) == [n \in DOMAIN order |-> ChangesOf(order[n], source, ts, pkModifier)]
<1>1. DOMAIN source \subseteq Tables /\ DOMAIN tables \subseteq Tables
  BY DEF IsSchema
<1>2. PICK order \in Sorted(DOMAIN source), o \in SetToSeqs(rest) :
        d = ChangesInOrder(order, source, read, pkModifier) \o [n \in DOMAIN o |-> DropTable(o[n])]
  <2>2. PICK declared \in DeclaredChanges(source, read, pkModifier), drops \in DropTables(source, read) :
          d = declared \o drops
    BY DEF Diff
  <2>3. QED BY <2>2 DEF DeclaredChanges, DropTables
<1>3. order \in SetToSeqs(DOMAIN source)
  BY <1>2 DEF Sorted
<1>4. ChangesInOrder(order, source, read, pkModifier) = FlattenSeq(lists(order, read))
  <2> HIDE DEF read
  <2>1. \A n \in DOMAIN order :
          UNION {DroppedColumns(OldOf(read, order[m]), source[order[m]]) : m \in 1..n}
            = LostBy(order[n], source, read)
    BY <1>2, SortedLoses
  <2>2. QED BY <2>1 DEF ChangesInOrder, ChangesOf
<1>5. DOMAIN read \subseteq Tables /\ rest \subseteq Tables
  BY <1>1 DEF Read
<1>6. CASE DOMAIN source = {}
  <2>1. read = tables
    BY <1>1, <1>6 DEF Read, IsSchema
  <2>2. rest = DOMAIN tables
    BY <1>6, <2>1
  <2>3. order = <<>>
    <3>1. /\ order \in Seq(DOMAIN source) /\ DOMAIN order = 1..Len(order) /\ Len(order) \in Nat
          /\ ToSet(order) = {}
      BY <1>1, <1>3, <1>6, OrderOfAll
    <3>2. DOMAIN order = {}
      BY <3>1 DEF ToSet
    <3>3. QED BY <3>1, <3>2, EmptySeq
  <2>4. FlattenSeq(lists(order, read)) = <<>>
    <3>1. lists(order, read) = <<>>
      BY <2>3
    <3> HIDE DEF read
    <3>2. FlattenSeq(<<>>) = <<>>
      BY DEF FlattenSeq
    <3>3. QED BY <3>1, <3>2
  <2> DEFINE drops == [n \in DOMAIN o |-> DropTable(o[n])]
  <2>5. drops \in Seq(Change)
    <3>1. /\ o \in Seq(rest) /\ DOMAIN o = 1..Len(o) /\ Len(o) \in Nat
      BY <1>2, <1>5, OrderOfAll
    <3>2. \A n \in DOMAIN o : DropTable(o[n]) \in Change
      <4>1. \A n \in DOMAIN o : o[n] \in Tables
        BY <1>5, <3>1, ElementOfSeq
      <4>2. QED BY <4>1, ChangeTypes
    <3>3. drops \in [1..Len(o) -> Change]
      BY <3>1, <3>2
    <3>4. QED BY <3>1, <3>3, SeqDef
  <2>6. d = <<>> \o drops
    BY <1>2, <1>4, <2>4
  <2> HIDE DEF drops
  <2>7. d = drops
    BY <2>5, <2>6, ConcatEmptySeq
  <2>8. QED BY <1>2, <1>6, <2>2, <2>7 DEF drops, DropsAll
<1>7. CASE DOMAIN source # {}
  <2>1. /\ \A t \in DOMAIN source : (t \in DOMAIN read <=> t \in DOMAIN tables)
        /\ \A t \in DOMAIN source : OldOf(read, t) = OldOf(tables, t)
        /\ rest = {}
    BY <1>1, <1>7 DEF Read, OldOf
  <2> HIDE DEF read, rest
  <2>2. \A t \in DOMAIN source : LostBy(t, source, read) = LostBy(t, source, tables)
    BY <2>1 DEF LostBy
  <2>3. \A t \in DOMAIN source :
          ChangesOf(t, source, read, pkModifier) = ChangesOf(t, source, tables, pkModifier)
    BY <2>1, <2>2 DEF ChangesOf
  <2>4. /\ order \in Seq(DOMAIN source)
        /\ \A n \in DOMAIN order : order[n] \in DOMAIN source
    BY <1>1, <1>3, OrderOfAll, ElementOfSeq
  <2>5. lists(order, read) = lists(order, tables)
    BY <2>3, <2>4
  <2>6. o = <<>>
    <3>1. o \in Seq({}) /\ DOMAIN o = 1..Len(o) /\ Len(o) \in Nat /\ ToSet(o) = {}
      BY <1>2, <2>1, OrderOfAll
    <3>2. DOMAIN o = {}
      BY <3>1 DEF ToSet
    <3>3. QED BY <3>1, <3>2, EmptySeq
  <2>7. FlattenSeq(lists(order, tables)) \in Seq(Change)
    <3>1. DOMAIN order = 1..Len(order) /\ Len(order) \in Nat
      BY <1>1, <1>3, OrderOfAll
    <3>2. \A n \in DOMAIN order : ChangesOf(order[n], source, tables, pkModifier) \in Seq(Change)
      <4>1. \A t \in DOMAIN source :
              ChangesOf(t, source, tables, pkModifier) \in Seq(Plans(source, tables, pkModifier))
        BY TableChangesPlanned DEF ChangesOf
      <4>2. Plans(source, tables, pkModifier) \subseteq Change
        BY DEF Plans
      <4>3. QED BY <2>4, <4>1, <4>2, SeqMonotonic
    <3>3. lists(order, tables) \in [1..Len(order) -> Seq(Change)]
      BY <3>1, <3>2
    <3> HIDE DEF lists
    <3>4. QED BY <3>1, <3>3, FlattenFunction
  <2>8. d = FlattenSeq(lists(order, tables)) \o <<>>
    <3>1. [n \in DOMAIN o |-> DropTable(o[n])] = <<>>
      BY <2>6
    <3>2. QED BY <1>2, <1>4, <2>5, <3>1
  <2>9. d = FlattenSeq(lists(order, tables))
    <3> HIDE DEF lists
    <3>1. QED BY <2>7, <2>8, ConcatEmptySeq
  <2>10. QED BY <1>2, <1>7, <2>9 DEF ChangesAll
<1>8. QED BY <1>6, <1>7

\* The changes of one table: its columns and its key, or the table itself, and its indexes.
IsTableChange(c, t, old, new, exists, dropped, pkModifier) ==
  \/ exists /\ c \in ToSet(AlterColumns(old, new))
  \/ exists /\ pkModifier /\ PkChanged(old, new) /\ c = ModifyPrimaryKey(t, old, new)
  \/ ~exists /\ c = CreateTable(t, new)
  \/ \E e \in ToSet(Gathered(t, old, new, FALSE)) : e.columns[1] \notin dropped /\ c = DropIndex(e)
  \/ \E e \in ToSet(Gathered(t, old, new, TRUE)) : c = CreateIndex(e)

\* An index is dropped after one of its table was created, or a name of a table is dropped twice.
Misplaced ==
  {p \in Change \X Change :
     /\ p[2].op = "dropIndex" /\ p[1].table = p[2].table
     /\ p[1].op = "createIndex" \/ (p[1].op = "dropIndex" /\ p[1].index.name = p[2].index.name)}

LEMMA OneElement ==
  ASSUME NEW S, NEW x \in S
  PROVE  <<x>> \in Seq(S) /\ <<>> \in Seq(S) /\ ToSet(<<x>>) = {x} /\ ToSet(<<>>) = {}
<1>1. <<x>> \in Seq(S) /\ <<>> \in Seq(S)
  OBVIOUS
<1>2. DOMAIN <<x>> = {1} /\ <<x>>[1] = x /\ DOMAIN <<>> = {}
  OBVIOUS
<1>3. QED BY <1>1, <1>2 DEF ToSet

\* The first part of the changes of a table has no statement about an index.
KeyChanges(t, old, new, pkModifier) ==
  IF pkModifier /\ PkChanged(old, new) THEN <<ModifyPrimaryKey(t, old, new)>> ELSE <<>>
FirstOf(t, old, new, exists, pkModifier) ==
  IF exists THEN AlterColumns(old, new) \o KeyChanges(t, old, new, pkModifier)
  ELSE <<CreateTable(t, new)>>

LEMMA FirstChanges ==
  ASSUME NEW t \in Tables, NEW old \in Seq(Field), NEW new \in Seq(Field), NEW exists \in BOOLEAN,
         NEW pkModifier \in BOOLEAN
  PROVE  LET s == FirstOf(t, old, new, exists, pkModifier)
         IN  /\ s \in Seq(Change)
             /\ \A c : c \in ToSet(s) <=>
                  \/ exists /\ c \in ToSet(AlterColumns(old, new))
                  \/ exists /\ pkModifier /\ PkChanged(old, new) /\ c = ModifyPrimaryKey(t, old, new)
                  \/ ~exists /\ c = CreateTable(t, new)
             /\ \A c \in ToSet(s) : c.op \notin {"dropIndex", "createIndex"}
<1> DEFINE alter == AlterColumns(old, new)
           key   == ModifyPrimaryKey(t, old, new)
           made  == CreateTable(t, new)
           pk    == KeyChanges(t, old, new, pkModifier)
           s     == FirstOf(t, old, new, exists, pkModifier)
<1>1. /\ alter \in Seq(Change)
      /\ \A c : c \in ToSet(alter) =>
           \/ \E f \in ToSet(new) : c \in ToSet(AlterNew(old, f))
           \/ \E o \in ToSet(old) : c \in ToSet(AlterOld(new, o))
  BY AlterColumnsSet
<1>2. ASSUME NEW c \in ToSet(alter) PROVE c.op \notin {"dropIndex", "createIndex"}
  <2>1. CASE \E f \in ToSet(new) : c \in ToSet(AlterNew(old, f))
    <3>1. PICK f \in ToSet(new) : c \in ToSet(AlterNew(old, f))
      BY <2>1
    <3>2. f \in Field
      BY Elements
    <3>3. CASE AlterNew(old, f) = <<>>
      BY <3>1, <3>3, OneOrNone
    <3>4. CASE AlterNew(old, f) = <<AddColumn(f)>>
      <4>1. c = AddColumn(f)
        BY <3>1, <3>4, OneOrNone
      <4>2. QED BY <4>1 DEF AddColumn
    <3>5. ASSUME NEW n \in DOMAIN old, AlterNew(old, f) = <<ModifyColumn(old[n], f)>>
          PROVE  c.op \notin {"dropIndex", "createIndex"}
      <4>1. c = ModifyColumn(old[n], f)
        BY <3>1, <3>5, OneOrNone
      <4>2. QED BY <4>1 DEF ModifyColumn
    <3>6. QED BY <3>2, <3>3, <3>4, <3>5, AlterNewCases
  <2>2. CASE \E o \in ToSet(old) : c \in ToSet(AlterOld(new, o))
    <3>1. PICK o \in ToSet(old) : c \in ToSet(AlterOld(new, o))
      BY <2>2
    <3>2. c = DropColumn(o)
      BY <3>1, AlterOldCases, OneOrNone
    <3>3. QED BY <3>2 DEF DropColumn
  <2>3. QED BY <1>1, <2>1, <2>2
<1>3. key \in Change /\ made \in Change
  BY ChangeTypes
<1>4. key.op = "modifyPrimaryKey" /\ made.op = "createTable"
  BY DEF ModifyPrimaryKey, CreateTable
<1> HIDE DEF alter, key, made
<1>5. /\ <<key>> \in Seq(Change) /\ <<>> \in Seq(Change) /\ ToSet(<<key>>) = {key} /\ ToSet(<<>>) = {}
      /\ <<made>> \in Seq(Change) /\ ToSet(<<made>>) = {made}
  BY <1>3, OneElement
<1>6. CASE exists
  <2>1. pk \in Seq(Change)
        /\ ToSet(pk) = IF pkModifier /\ PkChanged(old, new) THEN {key} ELSE {}
    BY <1>5 DEF key, KeyChanges
  <2>2. s = alter \o pk
    BY <1>6 DEF alter, FirstOf
  <2> HIDE DEF s, pk
  <2>3. s \in Seq(Change) /\ ToSet(s) = ToSet(alter) \union ToSet(pk)
    BY <1>1, <2>1, <2>2, ConcatSet
  <2>4. \A c : c \in ToSet(s) <=>
          c \in ToSet(alter) \/ (pkModifier /\ PkChanged(old, new) /\ c = key)
    BY <2>1, <2>3
  <2>5. \A c \in ToSet(s) : c.op \notin {"dropIndex", "createIndex"}
    BY <1>2, <1>4, <2>4
  <2>6. QED BY <1>6, <2>3, <2>4, <2>5, Zenon DEF alter, key, s
<1>7. CASE ~exists
  <2>1. s = <<made>>
    BY <1>7 DEF made, FirstOf
  <2>2. QED BY <1>4, <1>5, <1>7, <2>1 DEF made
<1>8. QED BY <1>6, <1>7

\* The indexes that are dropped are those gathered but for the ones that go with a column.
DropLists(drops, dropped) ==
  [n \in DOMAIN drops |->
     IF drops[n].columns[1] \in dropped THEN <<>> ELSE <<DropIndex(drops[n])>>]

LEMMA DropChanges ==
  ASSUME NEW drops \in Seq(Index), DistinctNames(drops), NEW dropped
  PROVE  LET s == FlattenSeq(DropLists(drops, dropped))
         IN  /\ s \in Seq(Change)
             /\ \A c : c \in ToSet(s) <=>
                  \E e \in ToSet(drops) : e.columns[1] \notin dropped /\ c = DropIndex(e)
             /\ Ordered(s, Misplaced)
<1> DEFINE N  == Len(drops)
           ss == DropLists(drops, dropped)
<1>1. /\ DOMAIN drops = 1..N /\ N \in Nat
      /\ \A n \in 1..N : drops[n] \in Index /\ drops[n] \in ToSet(drops)
  BY Elements
<1>2. \A n \in 1..N : DropIndex(drops[n]) \in Change
  BY <1>1, ChangeTypes
<1> HIDE DEF N
<1>3. \A n \in 1..N :
        /\ ss[n] \in Seq(Change)
        /\ ToSet(ss[n]) = IF drops[n].columns[1] \in dropped THEN {} ELSE {DropIndex(drops[n])}
        /\ ss[n] = <<>> \/ ss[n] = <<DropIndex(drops[n])>>
  BY <1>1, <1>2, OneElement DEF DropLists
<1>4. ss \in [1..N -> Seq(Change)]
  <2>1. DOMAIN ss = 1..N /\ ss = [n \in 1..N |-> ss[n]]
    BY <1>1 DEF DropLists
  <2> HIDE DEF ss
  <2>2. QED BY <1>3, <2>1
<1> HIDE DEF ss
<1>5. /\ FlattenSeq(ss) \in Seq(Change)
      /\ ToSet(FlattenSeq(ss)) = UNION {ToSet(ss[n]) : n \in 1..N}
  BY <1>1, <1>4, FlattenUnion
<1>6. ASSUME NEW c
      PROVE  c \in ToSet(FlattenSeq(ss)) <=>
               \E e \in ToSet(drops) : e.columns[1] \notin dropped /\ c = DropIndex(e)
  <2>1. ASSUME c \in ToSet(FlattenSeq(ss))
        PROVE  \E e \in ToSet(drops) : e.columns[1] \notin dropped /\ c = DropIndex(e)
    <3>1. PICK n \in 1..N : c \in ToSet(ss[n])
      BY <1>5, <2>1
    <3>2. drops[n].columns[1] \notin dropped /\ c = DropIndex(drops[n])
      BY <1>3, <3>1
    <3>3. QED BY <1>1, <3>2
  <2>2. ASSUME NEW e \in ToSet(drops), e.columns[1] \notin dropped, c = DropIndex(e)
        PROVE  c \in ToSet(FlattenSeq(ss))
    <3>1. PICK n \in 1..N : e = drops[n]
      BY <1>1 DEF ToSet
    <3>2. c \in ToSet(ss[n])
      BY <1>3, <2>2, <3>1
    <3>3. QED BY <1>5, <3>2
  <2>3. QED BY <2>1, <2>2
<1>7. ASSUME NEW n \in 1..N PROVE Ordered(ss[n], Misplaced)
  <2>1. ss[n] = <<>> \/ ss[n] = <<DropIndex(drops[n])>>
    BY <1>3
  <2>2. \A m, k \in DOMAIN ss[n] : ~(m < k)
    BY <2>1
  <2>3. QED BY <2>2 DEF Ordered
<1>8. ASSUME NEW m \in 1..N, NEW n \in 1..N, m < n, NEW x \in ToSet(ss[m]), NEW y \in ToSet(ss[n])
      PROVE  <<x, y>> \notin Misplaced
  <2>1. x = DropIndex(drops[m]) /\ y = DropIndex(drops[n])
    BY <1>3, <1>8
  <2>2. drops[m].name # drops[n].name
    BY <1>1, <1>8 DEF DistinctNames
  <2>3. QED BY <2>1, <2>2 DEF Misplaced, DropIndex
<1>9. Ordered(FlattenSeq(ss), Misplaced)
  BY <1>1, <1>4, <1>7, <1>8, OrderedFlatten
<1>10. QED BY <1>5, <1>6, <1>9 DEF ss

LEMMA CreateChanges ==
  ASSUME NEW adds \in Seq(Index), NEW s, s = [n \in DOMAIN adds |-> CreateIndex(adds[n])]
  PROVE  /\ s \in Seq(Change)
         /\ \A c : c \in ToSet(s) <=> \E e \in ToSet(adds) : c = CreateIndex(e)
         /\ \A c \in ToSet(s) : c.op = "createIndex"
<1>1. DOMAIN adds = 1..Len(adds) /\ Len(adds) \in Nat /\ \A n \in DOMAIN adds : adds[n] \in Index
  BY Elements
<1>2. \A n \in DOMAIN adds : CreateIndex(adds[n]) \in Change
  BY <1>1, ChangeTypes
<1>3. s \in [1..Len(adds) -> Change]
  BY <1>1, <1>2
<1>4. s \in Seq(Change)
  BY <1>1, <1>3, SeqDef
<1>5. \A c : c \in ToSet(s) <=> \E e \in ToSet(adds) : c = CreateIndex(e)
  BY DEF ToSet
<1>6. QED BY <1>4, <1>5 DEF CreateIndex

LEMMA TableChangesSet ==
  ASSUME NEW t \in Tables, NEW old \in Seq(Field), NEW new \in Seq(Field), NEW exists \in BOOLEAN,
         NEW dropped, NEW pkModifier \in BOOLEAN
  PROVE  LET s == TableChanges(t, old, new, exists, dropped, pkModifier)
         IN  /\ s \in Seq(Change)
             /\ \A c : c \in ToSet(s) <=> IsTableChange(c, t, old, new, exists, dropped, pkModifier)
             /\ Ordered(s, Misplaced)
<1> DEFINE first == FirstOf(t, old, new, exists, pkModifier)
           drops == Gathered(t, old, new, FALSE)
           adds  == Gathered(t, old, new, TRUE)
           gone  == FlattenSeq(DropLists(drops, dropped))
           made  == [n \in DOMAIN adds |-> CreateIndex(adds[n])]
           s     == TableChanges(t, old, new, exists, dropped, pkModifier)
<1>1. s = first \o gone \o made
  BY DEF TableChanges, FirstOf, KeyChanges, DropLists
<1>2. drops \in Seq(Index) /\ adds \in Seq(Index) /\ DistinctNames(drops)
  <2>1. drops \in Seq(IndexesOf(t)) /\ adds \in Seq(IndexesOf(t))
    BY GatheredType
  <2>2. IndexesOf(t) \subseteq Index
    BY DEF IndexesOf
  <2>3. DistinctNames(drops)
    BY GatheredVisits DEF Gathering
  <2> HIDE DEF drops, adds
  <2>4. QED BY <2>1, <2>2, <2>3, SeqMonotonic
<1>3. /\ first \in Seq(Change)
      /\ \A c : c \in ToSet(first) <=>
           \/ exists /\ c \in ToSet(AlterColumns(old, new))
           \/ exists /\ pkModifier /\ PkChanged(old, new) /\ c = ModifyPrimaryKey(t, old, new)
           \/ ~exists /\ c = CreateTable(t, new)
      /\ \A c \in ToSet(first) : c.op \notin {"dropIndex", "createIndex"}
  BY FirstChanges, SMTT(30)
<1>4. /\ gone \in Seq(Change)
      /\ \A c : c \in ToSet(gone) <=>
           \E e \in ToSet(drops) : e.columns[1] \notin dropped /\ c = DropIndex(e)
      /\ Ordered(gone, Misplaced)
  <2> HIDE DEF drops
  <2>1. QED BY <1>2, DropChanges
<1>5. /\ made \in Seq(Change)
      /\ \A c : c \in ToSet(made) <=> \E e \in ToSet(adds) : c = CreateIndex(e)
      /\ \A c \in ToSet(made) : c.op = "createIndex"
  <2> HIDE DEF adds
  <2>1. QED BY <1>2, CreateChanges
<1> HIDE DEF first, gone, made, s
<1>6. /\ first \o gone \in Seq(Change) /\ ToSet(first \o gone) = ToSet(first) \union ToSet(gone)
  BY <1>3, <1>4, ConcatSet
<1>7. s \in Seq(Change) /\ ToSet(s) = ToSet(first) \union ToSet(gone) \union ToSet(made)
  <2> DEFINE both == first \o gone
  <2>1. both \in Seq(Change) /\ ToSet(both) = ToSet(first) \union ToSet(gone)
    BY <1>6
  <2>2. s = both \o made
    BY <1>1
  <2>3. made \in Seq(Change)
    BY <1>5
  <2> HIDE DEF both, drops, adds
  <2>4. both \o made \in Seq(Change) /\ ToSet(both \o made) = ToSet(both) \union ToSet(made)
    BY <2>1, <2>3, ConcatSet
  <2>5. QED BY <2>1, <2>2, <2>4
<1>8. \A c : c \in ToSet(s) <=> IsTableChange(c, t, old, new, exists, dropped, pkModifier)
  <2>1. ASSUME NEW c
        PROVE  c \in ToSet(s) <=> IsTableChange(c, t, old, new, exists, dropped, pkModifier)
    <3>1. c \in ToSet(s) <=> c \in ToSet(first) \/ c \in ToSet(gone) \/ c \in ToSet(made)
      BY <1>7
    <3> HIDE DEF drops, adds
    <3>2. QED BY <1>3, <1>4, <1>5, <3>1, Zenon DEF IsTableChange, drops, adds
  <2>2. QED BY <2>1
<1> HIDE DEF drops, adds
<1>9. \A c \in ToSet(gone) : c.op = "dropIndex"
  BY <1>4 DEF DropIndex
<1>10. Ordered(first, Misplaced)
  <2>1. \A n \in DOMAIN first : first[n] \in ToSet(first)
    BY <1>3, Elements
  <2>2. \A m, n \in DOMAIN first : <<first[m], first[n]>> \notin Misplaced
    BY <1>3, <2>1 DEF Misplaced
  <2>3. QED BY <2>2 DEF Ordered
<1>11. Ordered(made, Misplaced)
  <2>1. \A n \in DOMAIN made : made[n] \in ToSet(made)
    BY <1>5, Elements
  <2>2. \A m, n \in DOMAIN made : <<made[m], made[n]>> \notin Misplaced
    BY <1>5, <2>1 DEF Misplaced
  <2>3. QED BY <2>2 DEF Ordered
<1>12. \A x \in ToSet(first), y \in ToSet(gone) : <<x, y>> \notin Misplaced
  BY <1>3 DEF Misplaced
<1>13. Ordered(first \o gone, Misplaced)
  BY <1>3, <1>4, <1>10, <1>12, OrderedConcat
<1>14. \A x \in ToSet(first \o gone), y \in ToSet(made) : <<x, y>> \notin Misplaced
  BY <1>5 DEF Misplaced
<1>15. Ordered(s, Misplaced)
  BY <1>1, <1>5, <1>6, <1>11, <1>13, <1>14, OrderedConcat
<1>16. QED BY <1>7, <1>8, <1>15 DEF s

\* What a plan holds, and in which order.
IsDiffChange(c, source, tables, pkModifier) ==
  \/ DOMAIN source = {} /\ \E t \in DOMAIN tables : c = DropTable(t)
  \/ \E t \in DOMAIN source :
       IsTableChange(c, t, OldOf(tables, t), source[t], t \in DOMAIN tables,
                     LostBy(t, source, tables), pkModifier)

\* A change of a table is about that table.
LEMMA ChangeIsOfTable ==
  ASSUME NEW source, IsSchema(source), NEW tables, IsSchema(tables), NEW pkModifier \in BOOLEAN,
         NEW t \in DOMAIN source, NEW dropped, NEW c,
         IsTableChange(c, t, OldOf(tables, t), source[t], t \in DOMAIN tables, dropped, pkModifier)
  PROVE  c.table = t
<1> DEFINE old == OldOf(tables, t)
           new == source[t]
<1>1. t \in Tables /\ new \in Seq(Field) /\ \A f \in ToSet(new) : f \in Field /\ f.table = t
  BY SchemaFields
<1>2. old \in Seq(Field) /\ \A o \in ToSet(old) : o.table = t
  <2>1. CASE t \in DOMAIN tables
    BY <2>1, SchemaFields DEF OldOf
  <2>2. CASE t \notin DOMAIN tables
    <3>1. old = <<>>
      BY <2>2 DEF OldOf
    <3>2. QED BY <3>1 DEF ToSet
  <2>3. QED BY <2>1, <2>2
<1>3. \A add \in BOOLEAN : \A e \in ToSet(Gathered(t, old, new, add)) : e.table = t
  <2> HIDE DEF old, new
  <2>1. ASSUME NEW add \in BOOLEAN, NEW e \in ToSet(Gathered(t, old, new, add)) PROVE e.table = t
    <3>1. Gathered(t, old, new, add) \in Seq(IndexesOf(t))
      BY <1>1, <1>2, GatheredType
    <3>2. e \in IndexesOf(t)
      BY <3>1, Elements
    <3>3. QED BY <3>2 DEF IndexesOf
  <2>2. QED BY <2>1
<1> HIDE DEF old, new
<1>4. CASE c \in ToSet(AlterColumns(old, new))
  <2>1. \/ \E f \in ToSet(new) : c \in ToSet(AlterNew(old, f))
        \/ \E o \in ToSet(old) : c \in ToSet(AlterOld(new, o))
    BY <1>1, <1>2, <1>4, AlterColumnsSet, Zenon
  <2>2. CASE \E f \in ToSet(new) : c \in ToSet(AlterNew(old, f))
    <3>1. PICK f \in ToSet(new) : c \in ToSet(AlterNew(old, f))
      BY <2>2
    <3>2. f \in Field /\ f.table = t
      BY <1>1
    <3>3. CASE AlterNew(old, f) = <<>>
      BY <3>1, <3>3, OneOrNone
    <3>4. CASE AlterNew(old, f) = <<AddColumn(f)>>
      <4>1. c = AddColumn(f)
        BY <3>1, <3>4, OneOrNone
      <4>2. QED BY <3>2, <4>1 DEF AddColumn
    <3>5. ASSUME NEW n \in DOMAIN old, AlterNew(old, f) = <<ModifyColumn(old[n], f)>>
          PROVE  c.table = t
      <4>1. c = ModifyColumn(old[n], f)
        BY <3>1, <3>5, OneOrNone
      <4>2. QED BY <3>2, <4>1 DEF ModifyColumn
    <3>6. QED BY <1>2, <3>2, <3>3, <3>4, <3>5, AlterNewCases
  <2>3. CASE \E o \in ToSet(old) : c \in ToSet(AlterOld(new, o))
    <3>1. PICK o \in ToSet(old) : c \in ToSet(AlterOld(new, o))
      BY <2>3
    <3>2. c = DropColumn(o) /\ o.table = t
      BY <1>2, <3>1, AlterOldCases, OneOrNone
    <3>3. QED BY <3>2 DEF DropColumn
  <2>4. QED BY <2>1, <2>2, <2>3
<1>5. CASE c = ModifyPrimaryKey(t, old, new)
  BY <1>5 DEF ModifyPrimaryKey
<1>6. CASE c = CreateTable(t, new)
  BY <1>6 DEF CreateTable
<1>7. CASE \E e \in ToSet(Gathered(t, old, new, FALSE)) : c = DropIndex(e)
  <2>1. PICK e \in ToSet(Gathered(t, old, new, FALSE)) : c = DropIndex(e)
    BY <1>7
  <2>2. FALSE \in BOOLEAN
    OBVIOUS
  <2>3. e.table = t
    BY <1>3, <2>2, Zenon
  <2>4. QED BY <2>1, <2>3 DEF DropIndex
<1>8. CASE \E e \in ToSet(Gathered(t, old, new, TRUE)) : c = CreateIndex(e)
  <2>1. PICK e \in ToSet(Gathered(t, old, new, TRUE)) : c = CreateIndex(e)
    BY <1>8
  <2>2. TRUE \in BOOLEAN
    OBVIOUS
  <2>3. e.table = t
    BY <1>3, <2>2, Zenon
  <2>4. QED BY <2>1, <2>3 DEF CreateIndex
<1>9. \/ c \in ToSet(AlterColumns(old, new))
      \/ c = ModifyPrimaryKey(t, old, new)
      \/ c = CreateTable(t, new)
      \/ \E e \in ToSet(Gathered(t, old, new, FALSE)) : c = DropIndex(e)
      \/ \E e \in ToSet(Gathered(t, old, new, TRUE)) : c = CreateIndex(e)
  BY Zenon DEF IsTableChange, old, new
<1>10. QED BY <1>4, <1>5, <1>6, <1>7, <1>8, <1>9, Zenon

LEMMA DiffContents ==
  ASSUME NEW source, IsSchema(source), NEW tables, IsSchema(tables), NEW pkModifier \in BOOLEAN,
         NEW d \in Diff(source, tables, pkModifier)
  PROVE  /\ d \in Seq(Change)
         /\ \A c : c \in ToSet(d) <=> IsDiffChange(c, source, tables, pkModifier)
         /\ Ordered(d, Misplaced)
<1>1. DOMAIN source \subseteq Tables /\ DOMAIN tables \subseteq Tables
  BY DEF IsSchema
<1>2. CASE DOMAIN source = {}
  <2>1. PICK o \in SetToSeqs(DOMAIN tables) : d = [n \in DOMAIN o |-> DropTable(o[n])]
    BY <1>2, DiffShape DEF DropsAll
  <2>2. o \in Seq(DOMAIN tables) /\ DOMAIN o = 1..Len(o) /\ Len(o) \in Nat /\ ToSet(o) = DOMAIN tables
    BY <1>1, <2>1, OrderOfAll
  <2>3. \A t \in DOMAIN tables : DropTable(t) \in Change
    BY <1>1, ChangeTypes
  <2>4. d \in Seq(Change)
    <3>1. d \in [1..Len(o) -> Change]
      BY <2>1, <2>2, <2>3, ElementOfSeq
    <3>2. QED BY <2>2, <3>1, SeqDef
  <2>5. \A c : c \in ToSet(d) <=> \E t \in DOMAIN tables : c = DropTable(t)
    <3>1. ToSet(d) = {DropTable(o[n]) : n \in DOMAIN o}
      BY <2>1 DEF ToSet
    <3>2. DOMAIN tables = {o[n] : n \in DOMAIN o}
      BY <2>2 DEF ToSet
    <3>3. QED BY <3>1, <3>2
  <2>6. \A c : c \in ToSet(d) <=> IsDiffChange(c, source, tables, pkModifier)
    BY <1>2, <2>5 DEF IsDiffChange
  <2>7. \A n \in DOMAIN d : d[n].op = "dropTable"
    BY <2>1 DEF DropTable
  <2>8. Ordered(d, Misplaced)
    BY <2>7 DEF Ordered, Misplaced
  <2>9. QED BY <2>4, <2>6, <2>8
<1>3. CASE DOMAIN source # {}
  <2> DEFINE Of(t) == ChangesOf(t, source, tables, pkModifier)
             Is(c, t) == IsTableChange(c, t, OldOf(tables, t), source[t], t \in DOMAIN tables,
                                       LostBy(t, source, tables), pkModifier)
  <2>1. PICK order \in Sorted(DOMAIN source) : d = FlattenSeq([n \in DOMAIN order |-> Of(order[n])])
    BY <1>3, DiffShape DEF ChangesAll
  <2>2. /\ order \in Seq(DOMAIN source) /\ DOMAIN order = 1..Len(order) /\ Len(order) \in Nat
        /\ ToSet(order) = DOMAIN source
        /\ \A m, n \in DOMAIN order : m # n => order[m] # order[n]
        /\ \A n \in DOMAIN order : order[n] \in DOMAIN source
    <3>1. order \in SetToSeqs(DOMAIN source)
      BY <2>1 DEF Sorted
    <3>2. QED BY <1>1, <3>1, OrderOfAll, ElementOfSeq
  <2>3. ASSUME NEW t \in DOMAIN source
        PROVE  /\ Of(t) \in Seq(Change)
               /\ \A c : c \in ToSet(Of(t)) <=> Is(c, t)
               /\ Ordered(Of(t), Misplaced)
    <3>1. t \in Tables /\ source[t] \in Seq(Field)
      BY SchemaFields
    <3>2. OldOf(tables, t) \in Seq(Field)
      <4>1. CASE t \in DOMAIN tables
        BY <4>1, SchemaFields DEF OldOf
      <4>2. CASE t \notin DOMAIN tables
        BY <4>2, EmptySeq DEF OldOf
      <4>3. QED BY <4>1, <4>2
    <3>3. (t \in DOMAIN tables) \in BOOLEAN
      OBVIOUS
    <3> DEFINE old     == OldOf(tables, t)
               new     == source[t]
               exists  == t \in DOMAIN tables
               dropped == LostBy(t, source, tables)
    <3>4. old \in Seq(Field) /\ new \in Seq(Field) /\ exists \in BOOLEAN
      BY <3>1, <3>2
    <3>5. Of(t) = TableChanges(t, old, new, exists, dropped, pkModifier)
      BY DEF ChangesOf
    <3>6. \A c : Is(c, t) <=> IsTableChange(c, t, old, new, exists, dropped, pkModifier)
      OBVIOUS
    <3> HIDE DEF old, new, exists, dropped, Of, Is
    <3>7. /\ TableChanges(t, old, new, exists, dropped, pkModifier) \in Seq(Change)
          /\ \A c : c \in ToSet(TableChanges(t, old, new, exists, dropped, pkModifier)) <=>
               IsTableChange(c, t, old, new, exists, dropped, pkModifier)
          /\ Ordered(TableChanges(t, old, new, exists, dropped, pkModifier), Misplaced)
      BY <3>1, <3>4, TableChangesSet, Zenon
    <3>8. QED BY <3>5, <3>6, <3>7
  <2>4. ASSUME NEW t \in DOMAIN source, NEW c, Is(c, t) PROVE c.table = t
    BY <2>4, ChangeIsOfTable
  <2>5. \A c : IsDiffChange(c, source, tables, pkModifier) <=> \E t \in DOMAIN source : Is(c, t)
    BY <1>3 DEF IsDiffChange
  <2> DEFINE ss == [n \in DOMAIN order |-> Of(order[n])]
  <2>6. /\ \A n \in 1..Len(order) : ss[n] = Of(order[n])
        /\ d = FlattenSeq(ss)
    BY <2>1, <2>2
  <2>7. ss \in [1..Len(order) -> Seq(Change)]
    <3> HIDE DEF Of, Is
    <3>1. QED BY <2>2, <2>3
  <2> HIDE DEF ss, Of, Is
  <2>8. d \in Seq(Change) /\ ToSet(d) = UNION {ToSet(ss[n]) : n \in 1..Len(order)}
    BY <2>2, <2>6, <2>7, FlattenUnion
  <2>9. ASSUME NEW c PROVE c \in ToSet(d) <=> \E t \in DOMAIN source : Is(c, t)
    <3>1. ASSUME c \in ToSet(d) PROVE \E t \in DOMAIN source : Is(c, t)
      <4>1. PICK n \in 1..Len(order) : c \in ToSet(ss[n])
        BY <2>8, <3>1
      <4>2. QED BY <2>2, <2>3, <2>6, <4>1
    <3>2. ASSUME NEW t \in DOMAIN source, Is(c, t) PROVE c \in ToSet(d)
      <4>1. PICK n \in DOMAIN order : t = order[n]
        BY <2>2 DEF ToSet
      <4>2. n \in 1..Len(order) /\ c \in ToSet(ss[n])
        BY <2>2, <2>3, <2>6, <3>2, <4>1
      <4>3. QED BY <2>8, <4>2
    <3>3. QED BY <3>1, <3>2
  <2>10. \A n \in 1..Len(order) : Ordered(ss[n], Misplaced)
    BY <2>2, <2>3, <2>6
  <2>11. ASSUME NEW m \in 1..Len(order), NEW n \in 1..Len(order), m < n,
                NEW x \in ToSet(ss[m]), NEW y \in ToSet(ss[n])
         PROVE  <<x, y>> \notin Misplaced
    <3>1. x.table = order[m] /\ y.table = order[n]
      BY <2>2, <2>3, <2>4, <2>6
    <3>2. order[m] # order[n]
      BY <2>2, <2>11
    <3>3. QED BY <3>1, <3>2 DEF Misplaced
  <2>12. Ordered(d, Misplaced)
    BY <2>2, <2>6, <2>7, <2>10, <2>11, OrderedFlatten
  <2>13. QED BY <2>5, <2>8, <2>9, <2>12
<1>4. QED BY <1>2, <1>3

-----------------------------------------------------------------------------
(* What a plan holds for each table, outside the limits.                   *)

\* A table, what was read of it and the fields it is compared with, outside the limits.
TableOutside(t, tbl, old, fields) ==
  /\ t \in Tables /\ IsTable(tbl) /\ WellFormed(t, tbl) /\ fields \in Seq(Field)
  /\ IsReading(t, tbl, old)
  /\ ~Ambiguous(t, fields) /\ ~Reshaped(t, tbl, fields)
  /\ ~Alias(tbl, fields) /\ ~Respelled(tbl, fields)

DiffOutside(d, tables, s) ==
  /\ IsSchema(s) /\ IsSchema(tables) /\ DOMAIN tables = DOMAIN d
  /\ ~Leaked(d, s)
  /\ \A t \in DOMAIN s : ~Ambiguous(t, s[t])
  /\ \A t \in DOMAIN s \intersect DOMAIN d : TableOutside(t, d[t], tables[t], s[t])

\* The names of the indexes that are dropped from a table, and the indexes made on it.
DroppedNames(D, t) == {c.index.name : c \in {e \in D : e.op = "dropIndex" /\ e.table = t}}
CreatedIndexes(D, t) == {c.index : c \in {e \in D : e.op = "createIndex" /\ e.table = t}}

\* Every index of a table loses all its columns, becomes a declared one, or is dropped; every
\* declared index is made, or is one that stays.
IndexesServed(xs, ys, kept, drops, creates) ==
  /\ \A x \in xs : Only(x.columns, kept) = <<>> \/ Shrunk(x, kept) \in ys \/ x.name \in drops
  /\ \A y \in ys : y \in creates \/ \E x \in xs : Shrunk(x, kept) = y /\ y.name \notin drops

\* The changes of one table.
Of(D, t) == {c \in D : c.table = t}

\* The changes of a table that does not exist, and of one that does.
IsAbsentChange(c, t, fields) ==
  c = CreateTable(t, fields) \/ \E y \in Declared(t, fields) : c = CreateIndex(y)
AbsentPlan(t, fields, D) ==
  /\ CreateTable(t, fields) \in D
  /\ \A y \in Declared(t, fields) : CreateIndex(y) \in D
  /\ \A c \in D : c.table = t => IsAbsentChange(c, t, fields)
IsPresentChange(c, t, tbl, old, fields, pkModifier) ==
  \/ IsColumnChange(c, tbl, old, fields)
  \/ pkModifier /\ c = ModifyPrimaryKey(t, old, fields)
  \/ \E e : c = DropIndex(e) /\ e.table = t /\ \E x \in tbl.indexes : e.name = x.name
  \/ \E y \in Declared(t, fields) : c = CreateIndex(y)
PresentPlan(t, tbl, old, fields, pkModifier, D) ==
  /\ \A c \in D : c.table = t => IsPresentChange(c, t, tbl, old, fields, pkModifier)
  /\ \A col \in ToSet(tbl.columns) : ColumnServed(col, tbl, fields, D)
  /\ \A f \in ToSet(fields) : FieldServed(f, tbl, fields, D)
  /\ pkModifier /\ tbl.pk # PkColumns(fields) => ModifyPrimaryKey(t, old, fields) \in D
  /\ IndexesServed(tbl.indexes, Declared(t, fields), ColumnsOf(fields),
                   DroppedNames(D, t), CreatedIndexes(D, t))
PlannedFor(d, tables, s, pkModifier, D) ==
  /\ \A c \in D : c.op = "dropTable" => DOMAIN s = {}
  /\ \A c \in D : c.op # "dropTable" => c.table \in DOMAIN s
  /\ DOMAIN s = {} => \A t \in DOMAIN d : DropTable(t) \in D
  /\ \A t \in DOMAIN s \ DOMAIN d : AbsentPlan(t, s[t], D)
  /\ \A t \in DOMAIN s \intersect DOMAIN d :
       PresentPlan(t, d[t], tables[t], s[t], pkModifier, Of(D, t))

\* The column an index goes by is not one that went with a table before it.
LEMMA LostElsewhere ==
  ASSUME NEW d, NEW tables, NEW s, DiffOutside(d, tables, s), NEW t \in DOMAIN s \intersect DOMAIN d,
         NEW x \in d[t].indexes, NEW k \in ToSet(x.columns) \intersect ColumnsOf(s[t])
  PROVE  k \notin LostBy(t, s, tables)
<1>1. SUFFICES ASSUME NEW u \in DOMAIN s, Rank[u] <= Rank[t],
                      k \in DroppedColumns(OldOf(tables, u), s[u])
               PROVE  FALSE
  BY DEF LostBy
<1>2. u \in DOMAIN d /\ u \in DOMAIN tables
  <2>1. CASE u \notin DOMAIN tables
    <3>1. OldOf(tables, u) = <<>>
      BY <2>1 DEF OldOf
    <3>2. ToSet(<<>>) = {}
      BY DEF ToSet
    <3>3. QED BY <1>1, <3>1, <3>2 DEF DroppedColumns
  <2>2. QED BY <2>1 DEF DiffOutside
<1>3. PICK o \in ToSet(tables[u]) : o.column = k /\ IsDropped(s[u], o)
  BY <1>1, <1>2 DEF DroppedColumns, OldOf
<1>4. k \notin ColumnsOf(s[u])
  BY <1>3 DEF IsDropped, Keyed, ColumnsOf
<1>5. TableOutside(u, d[u], tables[u], s[u])
  BY <1>2 DEF DiffOutside
<1>6. k \in ColumnNames(d[u])
  <2>1. PICK col \in ToSet(d[u].columns) : ReadAs(u, d[u], col, o)
    BY <1>3, <1>5 DEF TableOutside, IsReading
  <2>2. ColumnNames(d[u]) = {c.name : c \in ToSet(d[u].columns)}
    BY <1>5, PartsOfTable DEF TableOutside
  <2>3. QED BY <1>3, <2>1, <2>2 DEF ReadAs
<1>7. Rank[u] < Rank[t]
  <2>1. u # t
    BY <1>4
  <2>2. u \in Tables /\ t \in Tables
    BY <1>2 DEF DiffOutside, IsSchema
  <2>3. QED BY <1>1, <2>1, <2>2, RankAssumption
<1>8. QED BY <1>2, <1>4, <1>6, <1>7 DEF DiffOutside, Leaked

\* The changes a plan holds for the indexes of a table that exists.
LEMMA PresentIndexes ==
  ASSUME NEW d, NEW tables, NEW s, DiffOutside(d, tables, s), NEW t \in DOMAIN s \intersect DOMAIN d,
         NEW drops, NEW adds, IndexPlan(t, d[t].indexes, s[t], drops, adds),
         NEW D, \A e \in ToSet(adds) : CreateIndex(e) \in D,
         \A e \in ToSet(drops) : e.columns[1] \notin LostBy(t, s, tables) => DropIndex(e) \in D,
         \A c \in D : c.op = "dropIndex" /\ c.table = t => \E e \in ToSet(drops) : c = DropIndex(e),
         \A e \in ToSet(drops) : e.table = t
  PROVE  /\ IndexesServed(d[t].indexes, Declared(t, s[t]), ColumnsOf(s[t]),
                          DroppedNames(D, t), CreatedIndexes(D, t))
<1> DEFINE kept == ColumnsOf(s[t])
           xs   == d[t].indexes
<1>1. /\ \A e \in ToSet(adds) : e \in Declared(t, s[t])
      /\ \A y \in Declared(t, s[t]) :
           \/ y \in ToSet(adds)
           \/ \E x \in xs : Shrunk(x, kept) = y /\ \A e \in ToSet(drops) : e.name # y.name
      /\ \A x \in xs : OldServed(x, t, s[t], drops)
      /\ \A e \in ToSet(drops) :
           \E x \in xs : e.name = x.name /\ e.columns[1] \in ToSet(x.columns) \intersect kept
  BY DEF IndexPlan
<1>2. ASSUME NEW e \in ToSet(drops) PROVE DropIndex(e) \in D
  <2>1. PICK x \in xs : e.columns[1] \in ToSet(x.columns) \intersect kept
    BY <1>1
  <2>2. QED BY <2>1, LostElsewhere
<1>3. DroppedNames(D, t) = {e.name : e \in ToSet(drops)}
  <2>1. ASSUME NEW e \in ToSet(drops) PROVE e.name \in DroppedNames(D, t)
    <3>1. DropIndex(e).op = "dropIndex" /\ DropIndex(e).table = t /\ DropIndex(e).index = e
      BY DEF DropIndex
    <3>2. QED BY <1>2, <3>1 DEF DroppedNames
  <2>2. ASSUME NEW n \in DroppedNames(D, t) PROVE \E e \in ToSet(drops) : e.name = n
    <3>1. PICK c \in D : c.op = "dropIndex" /\ c.table = t /\ c.index.name = n
      BY DEF DroppedNames
    <3>2. PICK e \in ToSet(drops) : c = DropIndex(e)
      BY <3>1
    <3>3. QED BY <3>1, <3>2 DEF DropIndex
  <2>3. QED BY <2>1, <2>2
<1>4. ASSUME NEW e \in ToSet(adds) PROVE e \in CreatedIndexes(D, t)
  <2>1. e.table = t
    BY <1>1 DEF Declared
  <2>2. CreateIndex(e).op = "createIndex" /\ CreateIndex(e).table = t /\ CreateIndex(e).index = e
    BY <2>1 DEF CreateIndex
  <2>3. QED BY <2>2 DEF CreatedIndexes
<1>5. ASSUME NEW x \in xs
      PROVE  \/ Only(x.columns, kept) = <<>> \/ Shrunk(x, kept) \in Declared(t, s[t])
             \/ x.name \in DroppedNames(D, t)
  BY <1>1, <1>3 DEF OldServed
<1>6. ASSUME NEW y \in Declared(t, s[t])
      PROVE  \/ y \in CreatedIndexes(D, t)
             \/ \E x \in xs : Shrunk(x, kept) = y /\ y.name \notin DroppedNames(D, t)
  BY <1>1, <1>3, <1>4
<1>7. QED BY <1>5, <1>6 DEF IndexesServed

\* A table that is there is planned for.
LEMMA PresentPlanned ==
  ASSUME NEW d, NEW tables, NEW s, DiffOutside(d, tables, s), NEW t \in DOMAIN s \intersect DOMAIN d,
         NEW pkModifier \in BOOLEAN, NEW D,
         \A c : IsTableChange(c, t, OldOf(tables, t), s[t], t \in DOMAIN tables,
                              LostBy(t, s, tables), pkModifier)
                  <=> c \in D /\ c.table = t
  PROVE  PresentPlan(t, d[t], tables[t], s[t], pkModifier, D)
<1> DEFINE tbl    == d[t]
           old    == tables[t]
           fields == s[t]
           alter  == ToSet(AlterColumns(old, fields))
           drops  == Gathered(t, old, fields, FALSE)
           adds   == Gathered(t, old, fields, TRUE)
           lost   == LostBy(t, s, tables)
           Is(c)  == \/ c \in alter
                     \/ pkModifier /\ PkChanged(old, fields) /\ c = ModifyPrimaryKey(t, old, fields)
                     \/ \E e \in ToSet(drops) : e.columns[1] \notin lost /\ c = DropIndex(e)
                     \/ \E e \in ToSet(adds) : c = CreateIndex(e)
<1>1. t \in DOMAIN tables /\ OldOf(tables, t) = old
  BY DEF DiffOutside, OldOf
<1>2. \A c : Is(c) <=> c \in D /\ c.table = t
  BY <1>1 DEF IsTableChange
<1>3. TableOutside(t, tbl, old, fields)
  BY DEF DiffOutside
<1>4. IndexPlan(t, tbl.indexes, fields, drops, adds)
  <2> HIDE DEF tbl, old, fields
  <2>1. IndexCase(t, tbl.indexes, old, fields)
    BY <1>3, TableIndexCase DEF TableOutside
  <2>2. QED BY <2>1, IndexesPlanned
<1>5. ColumnPlan(tbl, old, fields, alter)
  <2> HIDE DEF tbl, old, fields
  <2>1. ColumnCase(t, tbl, old, fields)
    BY <1>3 DEF TableOutside, ColumnCase
  <2>2. QED BY <2>1, ColumnsPlanned
<1>6. PkColumns(old) = tbl.pk
  <2> HIDE DEF tbl, old
  <2>1. QED BY <1>3, KeyRead DEF TableOutside
<1>7. \A e \in ToSet(drops) : e.table = t
  <2> HIDE DEF tbl, old, fields
  <2>1. t \in Tables /\ old \in Seq(Field) /\ fields \in Seq(Field)
    BY <1>3 DEF TableOutside, IsReading
  <2>2. drops \in Seq(IndexesOf(t))
    BY <2>1, GatheredType
  <2>3. \A e \in ToSet(drops) : e \in IndexesOf(t)
    BY <2>2, Elements
  <2>4. QED BY <2>3 DEF IndexesOf
<1> HIDE DEF alter, drops, adds, lost, tbl, old, fields
<1>8. alter \subseteq D
  BY <1>2
<1>9. ASSUME NEW col \in ToSet(tbl.columns) PROVE ColumnServed(col, tbl, fields, D)
  <2>1. ColumnServed(col, tbl, fields, alter)
    BY <1>5 DEF ColumnPlan
  <2>2. QED BY <1>8, <2>1 DEF ColumnServed, Drops, Takes
<1>10. ASSUME NEW f \in ToSet(fields) PROVE FieldServed(f, tbl, fields, D)
  <2>1. FieldServed(f, tbl, fields, alter)
    BY <1>5 DEF ColumnPlan
  <2>2. QED BY <1>8, <2>1 DEF FieldServed, Changes, Gives
<1>11. pkModifier /\ tbl.pk # PkColumns(fields) => ModifyPrimaryKey(t, old, fields) \in D
  <2>1. old \in Seq(Field) /\ fields \in Seq(Field) /\ ~Repeated(fields)
    BY <1>3 DEF TableOutside, IsReading, Ambiguous
  <2>2. ~RepeatsKey(fields)
    BY <2>1 DEF RepeatsKey, Repeated, IsInjective, KeyFields
  <2>3. tbl.pk # PkColumns(fields) => PkChanged(old, fields)
    BY <1>6, <2>1, <2>2, UnchangedKey
  <2>4. QED BY <1>2, <2>3
<1>12. \A e \in ToSet(drops) : \E x \in tbl.indexes : e.name = x.name
  BY <1>4 DEF IndexPlan
<1>13. \A e \in ToSet(adds) : e \in Declared(t, fields)
  BY <1>4 DEF IndexPlan
<1>14. ASSUME NEW c \in D, c.table = t
       PROVE  IsPresentChange(c, t, tbl, old, fields, pkModifier)
  <2>1. Is(c)
    BY <1>2, <1>14
  <2>2. CASE c \in alter
    BY <1>5, <2>2 DEF ColumnPlan, IsPresentChange
  <2>3. CASE pkModifier /\ c = ModifyPrimaryKey(t, old, fields)
    BY <2>3 DEF IsPresentChange
  <2>4. CASE \E e \in ToSet(drops) : c = DropIndex(e)
    BY <1>7, <1>12, <2>4 DEF IsPresentChange
  <2>5. CASE \E e \in ToSet(adds) : c = CreateIndex(e)
    BY <1>13, <2>5 DEF IsPresentChange
  <2>6. QED BY <2>1, <2>2, <2>3, <2>4, <2>5
<1>15. ASSUME NEW c \in D, c.op = "dropIndex", c.table = t
       PROVE  \E e \in ToSet(drops) : c = DropIndex(e)
  <2>1. Is(c)
    BY <1>2, <1>15
  <2>2. CASE c \in alter
    <3>1. IsColumnChange(c, tbl, old, fields)
      BY <1>5, <2>2 DEF ColumnPlan
    <3>2. QED BY <1>15, <3>1 DEF IsColumnChange, AddColumn, DropColumn, ModifyColumn
  <2>3. CASE c = ModifyPrimaryKey(t, old, fields)
    BY <1>15, <2>3 DEF ModifyPrimaryKey
  <2>4. CASE \E e \in ToSet(adds) : c = CreateIndex(e)
    BY <1>15, <2>4 DEF CreateIndex
  <2>5. QED BY <2>1, <2>2, <2>3, <2>4
<1>16. \A e \in ToSet(adds) : CreateIndex(e) \in D
  BY <1>2
<1>17. \A e \in ToSet(drops) : e.columns[1] \notin lost => DropIndex(e) \in D
  BY <1>2
<1>18. IndexesServed(tbl.indexes, Declared(t, fields), ColumnsOf(fields),
                     DroppedNames(D, t), CreatedIndexes(D, t))
  BY <1>4, <1>7, <1>15, <1>16, <1>17, PresentIndexes DEF tbl, fields, lost
<1>19. PresentPlan(t, tbl, old, fields, pkModifier, D)
  BY <1>9, <1>10, <1>11, <1>14, <1>18 DEF PresentPlan
<1>20. QED BY <1>19 DEF tbl, old, fields

\* A table that is not there is made with all its indexes.
LEMMA AbsentPlanned ==
  ASSUME NEW t \in Tables, NEW fields \in Seq(Field), ~Ambiguous(t, fields), NEW lost,
         NEW pkModifier \in BOOLEAN, NEW D,
         \A c : IsTableChange(c, t, <<>>, fields, FALSE, lost, pkModifier) <=> c \in D /\ c.table = t
  PROVE  AbsentPlan(t, fields, D)
<1> DEFINE drops == Gathered(t, <<>>, fields, FALSE)
           adds  == Gathered(t, <<>>, fields, TRUE)
<1>1. IndexCase(t, {}, <<>>, fields)
  <2>1. \A n \in DOMAIN fields, u \in BOOLEAN : \A y : ~InStrings(OldNames(<<>>, fields[n], u), y)
    <3>1. \A n \in DOMAIN fields : ByColumn(<<>>, fields[n].column) = {}
      BY DEF ByColumn
    <3>2. \A n \in DOMAIN fields, u \in BOOLEAN : OldNames(<<>>, fields[n], u) = <<>>
      BY <3>1 DEF OldNames
    <3>3. QED BY <3>2 DEF InStrings
  <2>2. IndexesRead({}, <<>>, fields)
    BY <2>1 DEF IndexesRead
  <2>3. <<>> \in Seq(Field)
    OBVIOUS
  <2>4. QED BY <2>2, <2>3 DEF IndexCase
<1>2. IndexPlan(t, {}, fields, drops, adds)
  BY <1>1, IndexesPlanned
<1> HIDE DEF drops, adds
<1>3. /\ \A e \in ToSet(adds) : e \in Declared(t, fields)
      /\ \A y \in Declared(t, fields) : y \in ToSet(adds)
      /\ ToSet(drops) = {}
  BY <1>2 DEF IndexPlan
<1>4. ASSUME NEW c
      PROVE  IsTableChange(c, t, <<>>, fields, FALSE, lost, pkModifier) <=> IsAbsentChange(c, t, fields)
  <2>1. IsTableChange(c, t, <<>>, fields, FALSE, lost, pkModifier)
          <=> c = CreateTable(t, fields) \/ \E e \in ToSet(adds) : c = CreateIndex(e)
    BY <1>3 DEF IsTableChange, drops, adds
  <2>2. QED BY <1>3, <2>1 DEF IsAbsentChange
<1>5. CreateTable(t, fields) \in D
  BY <1>4 DEF IsAbsentChange
<1>6. \A y \in Declared(t, fields) : CreateIndex(y) \in D
  BY <1>4 DEF IsAbsentChange
<1>7. QED BY <1>4, <1>5, <1>6 DEF AbsentPlan

\* Outside the limits, Diff plans what the source declares.
THEOREM DiffPlans ==
  ASSUME NEW d, NEW tables, NEW s, DiffOutside(d, tables, s), NEW pkModifier \in BOOLEAN,
         NEW plan \in Diff(s, tables, pkModifier)
  PROVE  /\ plan \in Seq(Change)
         /\ Ordered(plan, Misplaced)
         /\ PlannedFor(d, tables, s, pkModifier, ToSet(plan))
<1> DEFINE D == ToSet(plan)
           Is(c, t) == IsTableChange(c, t, OldOf(tables, t), s[t], t \in DOMAIN tables,
                                     LostBy(t, s, tables), pkModifier)
<1>1. IsSchema(s) /\ IsSchema(tables) /\ DOMAIN tables = DOMAIN d
  BY DEF DiffOutside
<1>2. /\ plan \in Seq(Change) /\ Ordered(plan, Misplaced)
      /\ \A c : c \in D <=> IsDiffChange(c, s, tables, pkModifier)
  BY <1>1, DiffContents
<1>3. \A c : c \in D <=> \/ DOMAIN s = {} /\ \E t \in DOMAIN d : c = DropTable(t)
                         \/ \E t \in DOMAIN s : Is(c, t)
  BY <1>1, <1>2 DEF IsDiffChange
<1>4. ASSUME NEW t \in DOMAIN s, NEW c, Is(c, t) PROVE c.table = t
  BY <1>1, <1>4, ChangeIsOfTable
<1> HIDE DEF D, Is
<1>5. ASSUME NEW t \in DOMAIN s PROVE \A c : Is(c, t) <=> c \in D /\ c.table = t
  BY <1>3, <1>4
<1>6. ASSUME NEW t \in DOMAIN s \ DOMAIN d PROVE AbsentPlan(t, s[t], D)
  <2>1. t \in Tables /\ s[t] \in Seq(Field)
    BY <1>1, SchemaFields
  <2>2. OldOf(tables, t) = <<>> /\ t \notin DOMAIN tables
    BY <1>1 DEF OldOf
  <2> DEFINE fields == s[t]
             lost   == LostBy(t, s, tables)
  <2>3. \A c : IsTableChange(c, t, <<>>, fields, FALSE, lost, pkModifier) <=> c \in D /\ c.table = t
    <3>1. ASSUME NEW c PROVE IsTableChange(c, t, <<>>, fields, FALSE, lost, pkModifier) <=> Is(c, t)
      <4>1. (t \in DOMAIN tables) = FALSE
        BY <2>2
      <4>2. QED BY <2>2, <4>1 DEF Is, IsTableChange
    <3> HIDE DEF fields, lost
    <3>2. QED BY <1>5, <3>1
  <2>4. ~Ambiguous(t, fields)
    BY DEF DiffOutside
  <2> HIDE DEF fields, lost
  <2>5. fields \in Seq(Field)
    BY <2>1 DEF fields
  <2>6. AbsentPlan(t, fields, D)
    BY <2>1, <2>3, <2>4, <2>5, AbsentPlanned
  <2>7. QED BY <2>6 DEF fields
<1>7. ASSUME NEW t \in DOMAIN s \intersect DOMAIN d
      PROVE  PresentPlan(t, d[t], tables[t], s[t], pkModifier, Of(D, t))
  <2>1. \A c : IsTableChange(c, t, OldOf(tables, t), s[t], t \in DOMAIN tables,
                             LostBy(t, s, tables), pkModifier)
                 <=> c \in Of(D, t) /\ c.table = t
    BY <1>5 DEF Is, Of
  <2>2. QED BY <2>1, PresentPlanned
<1>8. ASSUME NEW c \in D, c.op = "dropTable" PROVE DOMAIN s = {}
  <2>1. SUFFICES ASSUME NEW t \in DOMAIN s, Is(c, t) PROVE FALSE
    BY <1>3
  <2>2. c.table = t
    BY <1>4, <2>1
  <2>3. CASE t \notin DOMAIN d
    <3>1. IsAbsentChange(c, t, s[t])
      BY <1>6, <2>2, <2>3 DEF AbsentPlan
    <3>2. QED BY <1>8, <3>1 DEF IsAbsentChange, CreateTable, CreateIndex
  <2>4. CASE t \in DOMAIN d
    <3>1. IsPresentChange(c, t, d[t], tables[t], s[t], pkModifier)
      BY <1>7, <2>2, <2>4 DEF PresentPlan, Of
    <3>2. QED BY <1>8, <3>1 DEF IsPresentChange, IsColumnChange, AddColumn, DropColumn, ModifyColumn,
                                ModifyPrimaryKey, DropIndex, CreateIndex
  <2>5. QED BY <2>3, <2>4
<1>9. ASSUME NEW c \in D, c.op # "dropTable" PROVE c.table \in DOMAIN s
  BY <1>3, <1>4, <1>9 DEF DropTable
<1>10. DOMAIN s = {} => \A t \in DOMAIN d : DropTable(t) \in D
  BY <1>3
<1>11. PlannedFor(d, tables, s, pkModifier, D)
  BY <1>6, <1>7, <1>8, <1>9, <1>10 DEF PlannedFor
<1>12. QED BY <1>2, <1>11 DEF D

-----------------------------------------------------------------------------
(* Carrying out what is planned for the indexes of a table.                *)

\* An index on columns that are all kept stays as it is.
LEMMA ShrunkAll ==
  ASSUME NEW x \in Index, NEW kept, ToSet(x.columns) \subseteq kept
  PROVE  Only(x.columns, kept) = x.columns /\ Shrunk(x, kept) = x
<1>1. x.columns \in Seq(Columns)
  BY DEF Index
<1>2. Only(x.columns, kept) = x.columns
  BY <1>1, OnlyAll
<1>3. QED BY <1>2 DEF Shrunk, Index

\* The indexes of one name are dropped.
LEMMA ServedDrop ==
  ASSUME NEW xs, NEW ys, NEW kept, NEW drops, NEW creates,
         IndexesServed(xs, ys, kept, drops, creates),
         NEW name \in drops, NEW left, left \subseteq drops, drops \subseteq left \union {name}
  PROVE  IndexesServed({x \in xs : x.name # name}, ys, kept, left, creates)
<1> DEFINE new == {x \in xs : x.name # name}
<1>1. ASSUME NEW x \in new
      PROVE  Only(x.columns, kept) = <<>> \/ Shrunk(x, kept) \in ys \/ x.name \in left
  BY DEF IndexesServed
<1>2. ASSUME NEW y \in ys
      PROVE  y \in creates \/ \E x \in new : Shrunk(x, kept) = y /\ y.name \notin left
  <2>1. CASE y \in creates
    BY <2>1
  <2>2. CASE \E x \in xs : Shrunk(x, kept) = y /\ y.name \notin drops
    <3>1. PICK x \in xs : Shrunk(x, kept) = y /\ y.name \notin drops
      BY <2>2
    <3>2. Shrunk(x, kept).name = x.name
      BY DEF Shrunk
    <3>3. QED BY <3>1, <3>2
  <2>3. QED BY <2>1, <2>2 DEF IndexesServed
<1> HIDE DEF new
<1>3. IndexesServed(new, ys, kept, left, creates)
  BY <1>1, <1>2 DEF IndexesServed
<1>4. QED BY <1>3 DEF new

\* A declared index is created.
LEMMA ServedCreate ==
  ASSUME NEW xs, NEW ys, NEW kept, NEW drops, NEW creates,
         IndexesServed(xs, ys, kept, drops, creates),
         NEW e \in ys, e \in Index, ToSet(e.columns) \subseteq kept, e.name \notin drops,
         NEW left, creates \subseteq left \union {e}
  PROVE  IndexesServed(xs \union {e}, ys, kept, drops, left)
<1>1. Shrunk(e, kept) = e
  BY ShrunkAll
<1>2. QED BY <1>1 DEF IndexesServed

\* The indexes when a column left them.
LeftBy(gone, xs) ==
  {x \in {[z EXCEPT !.columns = Without(@, gone)] : z \in xs} : x.columns # <<>>}

\* A column that is not kept leaves the indexes.
LEMMA ServedShrink ==
  ASSUME NEW xs, \A x \in xs : x \in Index, NEW ys, \A y \in ys : y.columns # <<>>,
         NEW kept, NEW drops, NEW creates,
         IndexesServed(xs, ys, kept, drops, creates), NEW gone, gone \notin kept
  PROVE  IndexesServed(LeftBy(gone, xs), ys, kept, drops, creates)
<1> DEFINE H(z) == [z EXCEPT !.columns = Without(@, gone)]
           new  == LeftBy(gone, xs)
<1>1. ASSUME NEW z \in xs
      PROVE  /\ H(z).name = z.name /\ Only(H(z).columns, kept) = Only(z.columns, kept)
             /\ Shrunk(H(z), kept) = Shrunk(z, kept)
             /\ Shrunk(z, kept).columns = Only(z.columns, kept)
             /\ H(z).columns = <<>> => Only(z.columns, kept) = <<>>
  <2>1. z \in Index /\ z.columns \in Seq(Columns)
    BY DEF Index
  <2>2. ToSet(z.columns) \intersect kept \subseteq ToSet(z.columns) \ {gone}
    OBVIOUS
  <2>3. Only(Without(z.columns, gone), kept) = Only(z.columns, kept)
    BY <2>1, <2>2, OnlyOnly DEF Without
  <2>4. H(z).name = z.name /\ H(z).columns = Without(z.columns, gone)
    BY <2>1 DEF Index
  <2>5. Shrunk(H(z), kept) = Shrunk(z, kept) /\ Shrunk(z, kept).columns = Only(z.columns, kept)
    BY <2>1, <2>3 DEF Index, Shrunk
  <2> HIDE DEF H
  <2>6. QED BY <2>3, <2>4, <2>5, OnlyEmpty
<1>2. \A x : x \in new <=> \E z \in xs : x = H(z) /\ x.columns # <<>>
  BY DEF LeftBy
<1> HIDE DEF H, new
<1>3. ASSUME NEW x \in new
      PROVE  Only(x.columns, kept) = <<>> \/ Shrunk(x, kept) \in ys \/ x.name \in drops
  <2>1. PICK z \in xs : x = H(z)
    BY <1>2
  <2>2. QED BY <1>1, <2>1 DEF IndexesServed
<1>4. ASSUME NEW y \in ys
      PROVE  y \in creates \/ \E x \in new : Shrunk(x, kept) = y /\ y.name \notin drops
  <2>1. CASE \E x \in xs : Shrunk(x, kept) = y /\ y.name \notin drops
    <3>1. PICK z \in xs : Shrunk(z, kept) = y /\ y.name \notin drops
      BY <2>1
    <3>2. H(z).columns # <<>>
      BY <1>1, <3>1
    <3>3. QED BY <1>1, <1>2, <3>1, <3>2
  <2>2. QED BY <2>1 DEF IndexesServed
<1>5. QED BY <1>3, <1>4 DEF IndexesServed, new

\* Nothing is left to be done: the indexes are the declared ones.
LEMMA ServedAll ==
  ASSUME NEW xs, NEW ys, NEW kept, IndexesServed(xs, ys, kept, {}, {}),
         \A x \in xs : x \in Index /\ x.columns # <<>> /\ ToSet(x.columns) \subseteq kept
  PROVE  xs = ys
<1>1. \A x \in xs : Only(x.columns, kept) = x.columns /\ Shrunk(x, kept) = x
  BY ShrunkAll
<1>2. QED BY <1>1 DEF IndexesServed

\* A column is declared as it is.
IsField(col, f) == f.column = col.name /\ f.def = col.def
IsDeclaredColumn(col, fields) == \E f \in ToSet(fields) : IsField(col, f)
HasField(tbl, f) == \E col \in ToSet(tbl.columns) : IsField(col, f)

\* The changes of a table when one of them, c, is done.
Done(E, c, F) == F \subseteq E /\ E \subseteq F \union {c} /\ c \in E

\* The first of a sequence, and the others.
LEMMA HeadAndRest ==
  ASSUME NEW S, NEW s \in Seq(S), s # <<>>, NEW R, Ordered(s, R)
  PROVE  /\ Done(ToSet(s), Head(s), ToSet(Tail(s)))
         /\ Ordered(Tail(s), R) /\ \A y \in ToSet(Tail(s)) : <<Head(s), y>> \notin R
<1>1. /\ DOMAIN s = 1..Len(s) /\ Len(s) \in Nat /\ Len(s) > 0
      /\ Head(s) = s[1] /\ Tail(s) \in Seq(S)
  BY Elements, EmptySeq
<1>2. DOMAIN Tail(s) = 1..(Len(s) - 1) /\ \A n \in 1..(Len(s) - 1) : Tail(s)[n] = s[n + 1]
  BY <1>1
<1>3. \A n \in 1..Len(s) : n = 1 \/ (n - 1 \in 1..(Len(s) - 1) /\ s[n] = Tail(s)[n - 1])
  BY <1>1, <1>2
<1>4. ASSUME NEW y \in ToSet(Tail(s)) PROVE y \in ToSet(s)
  <2>1. PICK n \in 1..(Len(s) - 1) : y = s[n + 1]
    BY <1>2 DEF ToSet
  <2>2. n + 1 \in DOMAIN s
    BY <1>1
  <2>3. QED BY <2>1, <2>2 DEF ToSet
<1>5. Head(s) \in ToSet(s)
  <2>1. 1 \in DOMAIN s
    BY <1>1
  <2>2. QED BY <1>1, <2>1 DEF ToSet
<1>9. ASSUME NEW y \in ToSet(s) PROVE y \in ToSet(Tail(s)) \union {Head(s)}
  <2>1. PICK n \in DOMAIN s : y = s[n]
    BY DEF ToSet
  <2>2. CASE n = 1
    BY <1>1, <2>1, <2>2
  <2>3. CASE n # 1
    <3>1. n - 1 \in DOMAIN Tail(s) /\ y = Tail(s)[n - 1]
      BY <1>1, <1>2, <1>3, <2>1, <2>3
    <3>2. QED BY <3>1 DEF ToSet
  <2>4. QED BY <2>2, <2>3
<1>6. Ordered(Tail(s), R)
  BY <1>1, <1>2 DEF Ordered
<1>7. ASSUME NEW y \in ToSet(Tail(s)) PROVE <<Head(s), y>> \notin R
  <2>1. PICK n \in 1..(Len(s) - 1) : y = s[n + 1]
    BY <1>2 DEF ToSet
  <2>2. 1 \in DOMAIN s /\ n + 1 \in DOMAIN s /\ 1 < n + 1
    BY <1>1
  <2>3. QED BY <1>1, <2>1, <2>2 DEF Ordered
<1>8. QED BY <1>4, <1>5, <1>6, <1>7, <1>9 DEF Done

\* A table of which nothing is to be done is what its fields declare.
LEMMA TableMatches ==
  ASSUME NEW t \in Tables, NEW tbl, IsTable(tbl), WellFormed(t, tbl), NEW fields \in Seq(Field),
         \A col \in ToSet(tbl.columns) : IsDeclaredColumn(col, fields),
         \A f \in ToSet(fields) : HasField(tbl, f),
         tbl.pk = PkColumns(fields),
         IndexesServed(tbl.indexes, Declared(t, fields), ColumnsOf(fields), {}, {})
  PROVE  /\ {<<c.name, c.def>> : c \in ToSet(tbl.columns)}
              = {<<c.name, c.def>> : c \in ToSet(Built(t, fields).columns)}
         /\ tbl.pk = Built(t, fields).pk
         /\ tbl.indexes = Built(t, fields).indexes
<1> DEFINE cs == Built(t, fields).columns
           kept == ColumnsOf(fields)
<1>1. Built(t, fields).pk = PkColumns(fields) /\ Built(t, fields).indexes = Declared(t, fields)
  BY DEF Built
<1> DEFINE Own(f) == [name |-> f.column, def |-> f.def, data |-> f.column]
<1>2. /\ \A a \in ToSet(cs) : \E f \in ToSet(fields) : a = Own(f)
      /\ \A f \in ToSet(fields) : Own(f) \in ToSet(cs)
      /\ \A f : Own(f).name = f.column /\ Own(f).def = f.def
  BY DEF Built, ToSet
<1>3. /\ \A col \in ToSet(tbl.columns) : \E f \in ToSet(fields) : f.column = col.name /\ f.def = col.def
      /\ \A f \in ToSet(fields) : \E col \in ToSet(tbl.columns) : f.column = col.name /\ f.def = col.def
  BY DEF IsDeclaredColumn, HasField, IsField
<1>4. {<<c.name, c.def>> : c \in ToSet(tbl.columns)} = {<<c.name, c.def>> : c \in ToSet(cs)}
  <2> HIDE DEF cs, Own
  <2>1. \A a \in ToSet(cs) : \E col \in ToSet(tbl.columns) : a.name = col.name /\ a.def = col.def
    BY <1>2, <1>3, SMTT(30)
  <2>2. \A col \in ToSet(tbl.columns) : \E a \in ToSet(cs) : a.name = col.name /\ a.def = col.def
    BY <1>2, <1>3
  <2>3. QED BY <2>1, <2>2
<1>6. tbl.indexes = Declared(t, fields)
  <2> DEFINE xs == tbl.indexes
             ys == Declared(t, fields)
  <2>2. IndexesServed(xs, ys, kept, {}, {})
    OBVIOUS
  <2>3. {col.name : col \in ToSet(tbl.columns)} \subseteq kept
    BY <1>3 DEF ColumnsOf, ToSet
  <2>4. \A x \in xs : x \in Index /\ x.columns # <<>> /\ ToSet(x.columns) \subseteq kept
    BY <2>3, PartsOfTable DEF WellFormed
  <2> HIDE DEF xs, ys, kept
  <2>5. xs = ys
    BY <2>2, <2>4, ServedAll
  <2>6. QED BY <2>5 DEF xs, ys
<1>7. QED BY <1>1, <1>4, <1>6
=============================================================================
