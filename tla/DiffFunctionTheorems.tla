------------------------ MODULE DiffFunctionTheorems ------------------------
(***************************************************************************)
(* What migu.Diff plans, as a function of the source and of the tables it   *)
(* reads: DiffIsPlanned says it of every statement of every plan.  The       *)
(* module begins with the operators of SchemaDiff: which field a new one is  *)
(* matched with, what a new and an old field add to the list of changes, and *)
(* what the visits of makeIndexes say of the two sides.  The operators of    *)
(* DiffFunction are recursive functions over sequences, so that their lemmas *)
(* need induction over the natural numbers and over FlattenSeq.              *)
(***************************************************************************)
EXTENDS DiffFunction, SequenceTheorems, FiniteSetTheorems, WellFoundedInduction, TLAPS

\* A non-empty set of positions has a last one.  (The intervals from each member to n are
\* ordered by strict inclusion, which is well-founded: a minimal one starts at it.)
LEMMA LastOfIsLast ==
  ASSUME NEW n \in Nat, NEW S \in SUBSET (1..n), S # {}
  PROVE  LastOf(S) \in S /\ \A m \in S : m <= LastOf(S)
<1> DEFINE T == {m..n : m \in S}
           R == StrictSubsetOrdering(1..n)
<1>1. T \subseteq FiniteSubsetsOf(1..n)
  <2>1. ASSUME NEW m \in S PROVE m..n \in SUBSET (1..n) /\ IsFiniteSet(m..n)
    BY FS_Interval
  <2>2. QED BY <2>1 DEF FiniteSubsetsOf
<1>2. T # {}
  OBVIOUS
<1>3. IsWellFoundedOn(R, FiniteSubsetsOf(1..n))
  BY FS_StrictSubsetOrderingWellFounded
<1>4. PICK x \in T : \A y \in T : ~(<<y, x>> \in R)
  <2> HIDE DEF T, R
  <2>1. QED BY <1>1, <1>2, <1>3, WFMin
<1>5. PICK m \in S : x = m..n
  OBVIOUS
<1>6. ASSUME NEW p \in S PROVE p <= m
  <2>1. SUFFICES ASSUME p > m PROVE FALSE
    OBVIOUS
  <2>2. p..n \subseteq m..n /\ m \in m..n /\ m \notin p..n
    BY <2>1
  <2>3. p..n \in SUBSET (1..n) /\ m..n \in SUBSET (1..n)
    OBVIOUS
  <2>4. <<p..n, m..n>> \in R
    BY <2>2, <2>3 DEF StrictSubsetOrdering
  <2>5. QED BY <2>4, <1>4, <1>5
<1>7. QED
  BY <1>6 DEF LastOf

\* The fields of a list and their columns.
LEMMA FieldsOf ==
  ASSUME NEW fields \in Seq(Field)
  PROVE  /\ DOMAIN fields = 1..Len(fields)
         /\ Len(fields) \in Nat
         /\ \A n \in DOMAIN fields : fields[n] \in Field /\ fields[n].column \in ColumnsOf(fields)
         /\ ColumnsOf(fields) \subseteq Columns
         /\ PkColumns(fields) \subseteq Columns
<1>1. DOMAIN fields = 1..Len(fields) /\ Len(fields) \in Nat
  BY LenProperties
<1>2. \A n \in DOMAIN fields : fields[n] \in Field
  BY <1>1, ElementOfSeq
<1>3. \A n \in DOMAIN fields : fields[n].column \in Columns
  BY <1>2 DEF Field
<1>4. QED BY <1>1, <1>2, <1>3 DEF ColumnsOf, PkColumns, KeyFields

\* The key fields of a list are finitely many.
LEMMA KeyFieldsFinite ==
  ASSUME NEW fields \in Seq(Field)
  PROVE  IsFiniteSet(KeyFields(fields))
<1>1. PICK m \in Nat : DOMAIN fields = 1..m
  BY FieldsOf
<1>2. IsFiniteSet(DOMAIN fields) /\ KeyFields(fields) \in SUBSET DOMAIN fields
  BY <1>1, FS_Interval DEF KeyFields
<1>3. QED BY <1>2, FS_Subset

\* A key that names no column twice and is not taken for changed lists the columns of the
\* old key in some order.
LEMMA UnchangedKey ==
  ASSUME NEW old \in Seq(Field), NEW new \in Seq(Field),
         ~RepeatsKey(new), ~PkChanged(old, new)
  PROVE  /\ \E counterpart \in Bijection(KeyFields(new), KeyFields(old)) :
              \A n \in KeyFields(new) : old[counterpart[n]].column = new[n].column
         /\ PkColumns(old) = PkColumns(new)
<1> DEFINE Of(n)       == CHOOSE m \in KeyFields(old) : old[m].column = new[n].column
           counterpart == [n \in KeyFields(new) |-> Of(n)]
<1>1. ASSUME NEW n \in KeyFields(new)
      PROVE  Of(n) \in KeyFields(old) /\ old[Of(n)].column = new[n].column
  <2>1. \E m \in KeyFields(old) : old[m].column = new[n].column
    BY DEF PkChanged, PkColumns
  <2>2. QED BY <2>1
<1>2. counterpart \in Injection(KeyFields(new), KeyFields(old))
  <2> HIDE DEF Of
  <2>1. counterpart \in [KeyFields(new) -> KeyFields(old)]
    BY <1>1
  <2>2. ASSUME NEW m \in KeyFields(new), NEW n \in KeyFields(new), counterpart[m] = counterpart[n]
        PROVE  m = n
    BY <1>1, <2>2 DEF RepeatsKey
  <2>3. QED BY <2>1, <2>2 DEF Injection, IsInjective
<1>3. Cardinality(KeyFields(new)) = Cardinality(KeyFields(old))
  BY DEF PkChanged
<1>4. counterpart \in Bijection(KeyFields(new), KeyFields(old))
  <2> HIDE DEF counterpart
  <2>1. QED BY <1>2, <1>3, KeyFieldsFinite, FS_Injection DEF Bijection
<1>5. \A n \in KeyFields(new) : old[counterpart[n]].column = new[n].column
  BY <1>1
<1>6. PkColumns(old) = PkColumns(new)
  <2> HIDE DEF counterpart
  <2>1. \A n \in KeyFields(new) : counterpart[n] \in KeyFields(old)
    BY <1>2 DEF Injection
  <2>2. \A m \in KeyFields(old) : \E n \in KeyFields(new) : counterpart[n] = m
    BY <1>4 DEF Bijection, Surjection
  <2>3. QED BY <1>5, <2>1, <2>2 DEF PkColumns
<1>7. QED BY <1>4, <1>5, <1>6

\* A match is an old field, under the column name or else under the Go name; there is none
\* only when neither name is a key.
LEMMA OldFieldIsOld ==
  ASSUME NEW old \in Seq(Field), NEW f \in Field
  PROVE  /\ OldField(old, f) = {} => f.column \notin ColumnsOf(old)
         /\ OldField(old, f) # {} => \E n \in DOMAIN old : OldField(old, f) = {old[n]}
<1>1. DOMAIN old = 1..Len(old) /\ Len(old) \in Nat
  BY FieldsOf
<1>2. ASSUME NEW k, Keyed(old, k) # {}
      PROVE  LastOf(Keyed(old, k)) \in DOMAIN old
  BY <1>1, <1>2, LastOfIsLast DEF Keyed
<1>3. Keyed(old, f.column) = {} => f.column \notin ColumnsOf(old)
  BY DEF Keyed, ColumnsOf
<1>4. QED BY <1>2, <1>3 DEF OldField

\* A new field adds nothing, ADD of a column the table has not, or CHANGE of an old field
\* that differs.
LEMMA AlterNewCases ==
  ASSUME NEW old \in Seq(Field), NEW f \in Field
  PROVE  \/ AlterNew(old, f) = <<>>
         \/ AlterNew(old, f) = <<AddColumn(f)>> /\ f.column \notin ColumnsOf(old)
         \/ \E n \in DOMAIN old :
              AlterNew(old, f) = <<ModifyColumn(old[n], f)>> /\ IsDifferent(old[n], f)
<1>1. CASE OldField(old, f) = {}
  BY <1>1, OldFieldIsOld DEF AlterNew
<1>2. CASE OldField(old, f) # {}
  <2>1. PICK n \in DOMAIN old : OldField(old, f) = {old[n]}
    BY <1>2, OldFieldIsOld
  <2>2. (CHOOSE o \in OldField(old, f) : TRUE) = old[n]
    BY <2>1
  <2>3. QED BY <1>2, <2>2 DEF AlterNew
<1>3. QED BY <1>1, <1>2

\* A field the database has no equal of is never passed over: it is added, or an old one is
\* made into it.
LEMMA UnmatchedIsEmitted ==
  ASSUME NEW old \in Seq(Field), NEW f \in Field, Unmatched(old, f)
  PROVE  \/ AlterNew(old, f) = <<AddColumn(f)>>
         \/ \E n \in DOMAIN old : AlterNew(old, f) = <<ModifyColumn(old[n], f)>>
<1>1. CASE OldField(old, f) = {}
  BY <1>1 DEF AlterNew
<1>2. CASE OldField(old, f) # {}
  <2>1. PICK n \in DOMAIN old : OldField(old, f) = {old[n]}
    BY <1>2, OldFieldIsOld
  <2>2. (CHOOSE o \in OldField(old, f) : TRUE) = old[n]
    BY <2>1
  <2>3. IsDifferent(old[n], f)
    BY DEF Unmatched, IsDifferent
  <2>4. QED BY <1>2, <2>2, <2>3 DEF AlterNew
<1>3. QED BY <1>1, <1>2

\* An old field adds nothing, or DROP of a column the struct does not declare.
LEMMA AlterOldCases ==
  ASSUME NEW new, NEW o
  PROVE  \/ AlterOld(new, o) = <<>>
         \/ AlterOld(new, o) = <<DropColumn(o)>> /\ o.column \notin ColumnsOf(new)
BY DEF AlterOld, IsDropped, Keyed, ColumnsOf

-----------------------------------------------------------------------------
(* Indexes.                                                                *)

\* An index of a list with a default name, or with its own.
LEMMA NamedType ==
  ASSUME NEW f \in Field, NEW raw \in Seq(RawIndexNames)
  PROVE  Named(f, raw) \in Seq(IndexNames) /\ DOMAIN Named(f, raw) = DOMAIN raw
<1>1. /\ DOMAIN raw = 1..Len(raw)
      /\ Len(raw) \in Nat
      /\ \A n \in 1..Len(raw) : raw[n] \in RawIndexNames
  BY LenProperties, ElementOfSeq
<1>2. DefaultIndex[<<f.table, f.column>>] \in IndexNames
  BY DefaultIndexAssumption DEF Field
<1>3. Named(f, raw) \in [1..Len(raw) -> IndexNames]
  BY <1>1, <1>2 DEF Named, RawIndexNames
<1>4. QED BY <1>1, <1>3, SeqDef

\* The names one field gives to plain or to unique indexes.
LEMMA NamesType ==
  ASSUME NEW f \in Field, NEW unique \in BOOLEAN
  PROVE  Names(f, unique) \in Seq(IndexNames)
<1>1. f.rawIndexes \in Seq(RawIndexNames) /\ f.rawUniques \in Seq(RawIndexNames)
  BY DEF Field
<1>2. QED BY <1>1, NamedType DEF Names, Indexes, UniqueIndexes

Visit == [add : BOOLEAN, unique : BOOLEAN, name : IndexNames, column : Columns, kept : BOOLEAN]

\* One loop of makeIndexes visits each name of its list once, and keeps a name the
\* other side has.
LEMMA VisitsType ==
  ASSUME NEW names \in Seq(IndexNames), NEW others, NEW add \in BOOLEAN,
         NEW unique \in BOOLEAN, NEW column \in Columns
  PROVE  LET vs == Visits(names, others, add, unique, column)
         IN  /\ vs \in Seq(Visit)
             /\ \A n \in DOMAIN vs :
                  /\ vs[n].add = add
                  /\ vs[n].unique = unique
                  /\ vs[n].column = column
                  /\ InStrings(names, vs[n].name)
                  /\ vs[n].kept <=> InStrings(others, vs[n].name)
<1> DEFINE vs == Visits(names, others, add, unique, column)
<1>1. /\ DOMAIN names = 1..Len(names)
      /\ Len(names) \in Nat
      /\ \A n \in 1..Len(names) : names[n] \in IndexNames
  BY LenProperties, ElementOfSeq
<1>2. ASSUME NEW n \in 1..Len(names) PROVE InStrings(others, names[n]) \in BOOLEAN
  BY DEF InStrings
<1>3. vs \in [1..Len(names) -> Visit]
  BY <1>1, <1>2 DEF Visits, Visit
<1>4. vs \in Seq(Visit)
  BY <1>1, <1>3, SeqDef
<1>5. DOMAIN vs = DOMAIN names
  BY DEF Visits
<1>6. ASSUME NEW n \in DOMAIN vs
      PROVE  /\ vs[n].add = add
             /\ vs[n].unique = unique
             /\ vs[n].column = column
             /\ vs[n].name = names[n]
             /\ vs[n].kept = InStrings(others, names[n])
  BY <1>5 DEF Visits
<1>7. ASSUME NEW n \in DOMAIN vs PROVE InStrings(names, vs[n].name)
  BY <1>5, <1>6 DEF InStrings
<1>8. QED BY <1>4, <1>6, <1>7

\* Of a concatenation, each element is one of either part.
LEMMA ConcatElements ==
  ASSUME NEW S, NEW s \in Seq(S), NEW t \in Seq(S)
  PROVE  /\ s \o t \in Seq(S)
         /\ \A n \in DOMAIN (s \o t) :
              \/ \E m \in DOMAIN s : (s \o t)[n] = s[m]
              \/ \E m \in DOMAIN t : (s \o t)[n] = t[m]
<1>1. /\ s \o t \in Seq(S)
      /\ Len(s \o t) = Len(s) + Len(t)
      /\ \A n \in 1..Len(s) + Len(t) :
           (s \o t)[n] = IF n <= Len(s) THEN s[n] ELSE t[n - Len(s)]
  BY ConcatProperties
<1>2. /\ DOMAIN s = 1..Len(s) /\ Len(s) \in Nat
      /\ DOMAIN t = 1..Len(t) /\ Len(t) \in Nat
      /\ DOMAIN (s \o t) = 1..Len(s \o t)
  BY <1>1, LenProperties
<1>3. ASSUME NEW n \in DOMAIN (s \o t)
      PROVE  \/ n \in DOMAIN s /\ (s \o t)[n] = s[n]
             \/ n - Len(s) \in DOMAIN t /\ (s \o t)[n] = t[n - Len(s)]
  BY <1>1, <1>2
<1>4. QED BY <1>1, <1>3

\* What a visit says: the field that is visited, and of an index one side has whether the
\* other lacks it.
VisitOf(old, f, v) ==
  /\ v.column = f.column
  /\ v.add => InStrings(Names(f, v.unique), v.name)
  /\ ~v.add => HasIndex(old, f.column, v.name, v.unique)
  /\ ~v.kept /\ v.add => LacksIndex(old, f.column, v.name, v.unique)
  /\ ~v.kept /\ ~v.add => ~InStrings(Names(f, v.unique), v.name)

\* Every visit of the four loops over a field is of an index one side names and, unless it
\* is kept, the other side lacks.
LEMMA IndexVisitsType ==
  ASSUME NEW old \in Seq(Field), NEW f \in Field
  PROVE  /\ IndexVisits(old, f) \in Seq(Visit)
         /\ \A n \in DOMAIN IndexVisits(old, f) : VisitOf(old, f, IndexVisits(old, f)[n])
<1> DEFINE byColumn == ByColumn(old, f.column)
           o        == old[LastOf(byColumn)]
           oldIdx   == IF byColumn = {} THEN <<>> ELSE Indexes(o)
           oldUniq  == IF byColumn = {} THEN <<>> ELSE UniqueIndexes(o)
           a        == Visits(oldIdx, Indexes(f), FALSE, FALSE, f.column)
           b        == Visits(oldUniq, UniqueIndexes(f), FALSE, TRUE, f.column)
           c        == Visits(Indexes(f), oldIdx, TRUE, FALSE, f.column)
           d        == Visits(UniqueIndexes(f), oldUniq, TRUE, TRUE, f.column)
<1>1. /\ Indexes(f) \in Seq(IndexNames) /\ Indexes(f) = Names(f, FALSE)
      /\ UniqueIndexes(f) \in Seq(IndexNames) /\ UniqueIndexes(f) = Names(f, TRUE)
      /\ f.column \in Columns
  BY NamesType DEF Names, Field
<1>2. ASSUME byColumn # {}
      PROVE  /\ \E n \in DOMAIN old : o = old[n] /\ old[n].column = f.column
             /\ Indexes(o) \in Seq(IndexNames) /\ Indexes(o) = Names(o, FALSE)
             /\ UniqueIndexes(o) \in Seq(IndexNames) /\ UniqueIndexes(o) = Names(o, TRUE)
  <2>1. DOMAIN old = 1..Len(old) /\ Len(old) \in Nat
    BY FieldsOf
  <2>2. byColumn \in SUBSET (1..Len(old))
    BY <2>1 DEF ByColumn
  <2>3. LastOf(byColumn) \in byColumn
    BY <1>2, <2>1, <2>2, LastOfIsLast
  <2>4. LastOf(byColumn) \in DOMAIN old /\ o.column = f.column
    BY <2>3 DEF ByColumn
  <2>5. o \in Field
    BY <2>4, FieldsOf
  <2>6. QED BY <2>4, <2>5, NamesType DEF Names
<1>3. byColumn = {} => f.column \notin ColumnsOf(old)
  BY DEF ByColumn, ColumnsOf
<1>4. oldIdx \in Seq(IndexNames) /\ oldUniq \in Seq(IndexNames)
  BY <1>2, EmptySeq
<1>5. ASSUME NEW x
      PROVE  /\ InStrings(oldIdx, x) => HasIndex(old, f.column, x, FALSE)
             /\ InStrings(oldUniq, x) => HasIndex(old, f.column, x, TRUE)
             /\ ~InStrings(oldIdx, x) => LacksIndex(old, f.column, x, FALSE)
             /\ ~InStrings(oldUniq, x) => LacksIndex(old, f.column, x, TRUE)
  <2>1. CASE byColumn = {}
    <3>1. ~InStrings(<<>>, x)
      BY DEF InStrings
    <3>2. oldIdx = <<>> /\ oldUniq = <<>>
      BY <2>1
    <3> HIDE DEF oldIdx, oldUniq
    <3>3. LacksIndex(old, f.column, x, FALSE) /\ LacksIndex(old, f.column, x, TRUE)
      BY <1>3, <2>1 DEF LacksIndex
    <3>4. QED BY <3>1, <3>2, <3>3
  <2>2. CASE byColumn # {}
    BY <1>2, <2>2 DEF HasIndex, LacksIndex
  <2>3. QED BY <2>1, <2>2
<1> HIDE DEF byColumn, o, oldIdx, oldUniq
<1>6. a \in Seq(Visit) /\ \A n \in DOMAIN a : VisitOf(old, f, a[n])
  <2>1. /\ a \in Seq(Visit)
        /\ \A n \in DOMAIN a :
             /\ a[n].add = FALSE
             /\ a[n].unique = FALSE
             /\ a[n].column = f.column
             /\ InStrings(oldIdx, a[n].name)
             /\ a[n].kept <=> InStrings(Indexes(f), a[n].name)
    BY <1>1, <1>4, VisitsType, ZenonT(30)
  <2> HIDE DEF a
  <2>2. QED BY <1>1, <1>5, <2>1 DEF VisitOf
<1>7. b \in Seq(Visit) /\ \A n \in DOMAIN b : VisitOf(old, f, b[n])
  <2>1. /\ b \in Seq(Visit)
        /\ \A n \in DOMAIN b :
             /\ b[n].add = FALSE
             /\ b[n].unique = TRUE
             /\ b[n].column = f.column
             /\ InStrings(oldUniq, b[n].name)
             /\ b[n].kept <=> InStrings(UniqueIndexes(f), b[n].name)
    BY <1>1, <1>4, VisitsType, ZenonT(30)
  <2> HIDE DEF b
  <2>2. QED BY <1>1, <1>5, <2>1 DEF VisitOf
<1>8. c \in Seq(Visit) /\ \A n \in DOMAIN c : VisitOf(old, f, c[n])
  <2>1. /\ c \in Seq(Visit)
        /\ \A n \in DOMAIN c :
             /\ c[n].add = TRUE
             /\ c[n].unique = FALSE
             /\ c[n].column = f.column
             /\ InStrings(Indexes(f), c[n].name)
             /\ c[n].kept <=> InStrings(oldIdx, c[n].name)
    BY <1>1, <1>4, VisitsType, ZenonT(30)
  <2> HIDE DEF c
  <2>2. QED BY <1>1, <1>5, <2>1 DEF VisitOf
<1>9. d \in Seq(Visit) /\ \A n \in DOMAIN d : VisitOf(old, f, d[n])
  <2>1. /\ d \in Seq(Visit)
        /\ \A n \in DOMAIN d :
             /\ d[n].add = TRUE
             /\ d[n].unique = TRUE
             /\ d[n].column = f.column
             /\ InStrings(UniqueIndexes(f), d[n].name)
             /\ d[n].kept <=> InStrings(oldUniq, d[n].name)
    BY <1>1, <1>4, VisitsType, ZenonT(30)
  <2> HIDE DEF d
  <2>2. QED BY <1>1, <1>5, <2>1 DEF VisitOf
<1>10. IndexVisits(old, f) = a \o b \o c \o d
  BY DEF IndexVisits, byColumn, o, oldIdx, oldUniq
<1> HIDE DEF a, b, c, d
<1>11. a \o b \in Seq(Visit) /\ \A n \in DOMAIN (a \o b) : VisitOf(old, f, (a \o b)[n])
  BY <1>6, <1>7, ConcatElements
<1>12. /\ (a \o b) \o c \in Seq(Visit)
       /\ \A n \in DOMAIN ((a \o b) \o c) : VisitOf(old, f, ((a \o b) \o c)[n])
  BY <1>8, <1>11, ConcatElements
<1>13. /\ ((a \o b) \o c) \o d \in Seq(Visit)
       /\ \A n \in DOMAIN (((a \o b) \o c) \o d) : VisitOf(old, f, (((a \o b) \o c) \o d)[n])
  BY <1>9, <1>12, ConcatElements
<1>14. QED BY <1>10, <1>13

\* Every element of s is one of t.
Within(s, t) == \A n \in DOMAIN s : \E k \in DOMAIN t : t[k] = s[n]

\* The elements of both parts are elements of a concatenation.
LEMMA ConcatHolds ==
  ASSUME NEW S, NEW s \in Seq(S), NEW t \in Seq(S)
  PROVE  s \o t \in Seq(S) /\ Within(s, s \o t) /\ Within(t, s \o t)
<1>1. /\ s \o t \in Seq(S)
      /\ Len(s \o t) = Len(s) + Len(t)
      /\ \A n \in 1..Len(s) + Len(t) :
           (s \o t)[n] = IF n <= Len(s) THEN s[n] ELSE t[n - Len(s)]
  BY ConcatProperties
<1>2. /\ DOMAIN s = 1..Len(s) /\ Len(s) \in Nat
      /\ DOMAIN t = 1..Len(t) /\ Len(t) \in Nat
      /\ DOMAIN (s \o t) = 1..(Len(s) + Len(t))
  BY <1>1, LenProperties
<1>3. ASSUME NEW n \in DOMAIN s PROVE n \in DOMAIN (s \o t) /\ (s \o t)[n] = s[n]
  BY <1>1, <1>2
<1>4. ASSUME NEW n \in DOMAIN t
      PROVE  Len(s) + n \in DOMAIN (s \o t) /\ (s \o t)[Len(s) + n] = t[n]
  BY <1>1, <1>2
<1>5. QED BY <1>1, <1>3, <1>4 DEF Within

\* Some visit asks for an index x of the column.
Asks(v, x, c) == v.add /\ ~v.kept /\ v.name = x /\ v.column = c
Asking(visits, x, c) == \E k \in DOMAIN visits : Asks(visits[k], x, c)

\* The loops over the names of a new field visit each of them.
LEMMA VisitsAll ==
  ASSUME NEW names, NEW others, NEW unique, NEW column, NEW x, InStrings(names, x),
         ~InStrings(others, x)
  PROVE  Asking(Visits(names, others, TRUE, unique, column), x, column)
<1>1. PICK n \in DOMAIN names : names[n] = x
  BY DEF InStrings
<1>2. n \in DOMAIN Visits(names, others, TRUE, unique, column)
  BY <1>1 DEF Visits
<1>3. Asks(Visits(names, others, TRUE, unique, column)[n], x, column)
  BY <1>1 DEF Visits, Asks
<1>4. QED BY <1>2, <1>3 DEF Asking

\* makeIndexes visits every index the field has and its column in the database has not.
LEMMA NewIndexIsVisited ==
  ASSUME NEW old \in Seq(Field), NEW f \in Field, NEW x, NEW unique \in BOOLEAN,
         HasIndex(<<f>>, f.column, x, unique), ~HasIndex(old, f.column, x, unique)
  PROVE  Asking(IndexVisits(old, f), x, f.column)
<1> DEFINE byColumn == ByColumn(old, f.column)
           o        == old[LastOf(byColumn)]
           oldIdx   == IF byColumn = {} THEN <<>> ELSE Indexes(o)
           oldUniq  == IF byColumn = {} THEN <<>> ELSE UniqueIndexes(o)
           a        == Visits(oldIdx, Indexes(f), FALSE, FALSE, f.column)
           b        == Visits(oldUniq, UniqueIndexes(f), FALSE, TRUE, f.column)
           c        == Visits(Indexes(f), oldIdx, TRUE, FALSE, f.column)
           d        == Visits(UniqueIndexes(f), oldUniq, TRUE, TRUE, f.column)
<1>1. InStrings(Names(f, unique), x)
  BY DEF HasIndex
<1>2. ASSUME byColumn # {}
      PROVE  \E n \in DOMAIN old : o = old[n] /\ old[n] \in Field /\ old[n].column = f.column
  <2>1. DOMAIN old = 1..Len(old) /\ Len(old) \in Nat
    BY FieldsOf
  <2>2. byColumn \in SUBSET (1..Len(old))
    BY <2>1 DEF ByColumn
  <2>3. LastOf(byColumn) \in byColumn
    BY <1>2, <2>1, <2>2, LastOfIsLast
  <2>4. QED BY <2>3, FieldsOf DEF ByColumn
<1>3. ~InStrings(IF unique THEN oldUniq ELSE oldIdx, x)
  <2>1. CASE byColumn = {}
    BY <2>1 DEF InStrings
  <2>2. CASE byColumn # {}
    BY <1>2, <2>2 DEF HasIndex, Names
  <2>3. QED BY <2>1, <2>2
<1>4. oldIdx \in Seq(IndexNames) /\ oldUniq \in Seq(IndexNames)
  BY <1>2, NamesType, EmptySeq DEF Names
<1>5. Indexes(f) \in Seq(IndexNames) /\ UniqueIndexes(f) \in Seq(IndexNames) /\ f.column \in Columns
  BY NamesType DEF Names, Field
<1>6. IndexVisits(old, f) = a \o b \o c \o d
  BY DEF IndexVisits
<1> HIDE DEF byColumn, o, oldIdx, oldUniq
<1>7. a \in Seq(Visit) /\ b \in Seq(Visit) /\ c \in Seq(Visit) /\ d \in Seq(Visit)
  BY <1>4, <1>5, VisitsType
<1>8. ~unique => Asking(c, x, f.column)
  <2>1. ~unique => InStrings(Indexes(f), x) /\ ~InStrings(oldIdx, x)
    BY <1>1, <1>3 DEF Names
  <2>2. QED BY <2>1, VisitsAll
<1>9. unique => Asking(d, x, f.column)
  <2>1. unique => InStrings(UniqueIndexes(f), x) /\ ~InStrings(oldUniq, x)
    BY <1>1, <1>3 DEF Names
  <2>2. QED BY <2>1, VisitsAll
<1> HIDE DEF a, b, c, d
<1>10. a \o b \in Seq(Visit)
  BY <1>7, ConcatProperties
<1>11. (a \o b) \o c \in Seq(Visit) /\ Within(c, (a \o b) \o c)
  BY <1>7, <1>10, ConcatHolds
<1>12. Within((a \o b) \o c, ((a \o b) \o c) \o d) /\ Within(d, ((a \o b) \o c) \o d)
  BY <1>7, <1>11, ConcatHolds
<1>13. ASSUME NEW s, NEW t, Within(s, t), Asking(s, x, f.column) PROVE Asking(t, x, f.column)
  BY <1>13 DEF Within, Asking
<1>14. QED BY <1>6, <1>8, <1>9, <1>11, <1>12, <1>13

\* A visit leaves an index as it is, adds its column to the index of its name, or starts an
\* index of one column.
Extended(x, v) == [x EXCEPT !.columns = Append(@, v.column)]
Started(t, v) == [table |-> t, name |-> v.name, unique |-> v.unique, columns |-> <<v.column>>]

\* The gathered indexes stay a list of indexes, each entry an old one, an extended one or a
\* new one.
LEMMA AddToIndexesType ==
  ASSUME NEW xs \in Seq(Index), NEW t \in Tables, NEW v \in Visit
  PROVE  LET ys == AddToIndexes(xs, t, v)
         IN  /\ ys \in Seq(Index)
             /\ \A n \in DOMAIN ys :
                  \/ \E m \in DOMAIN xs : ys[n] = xs[m]
                  \/ \E m \in DOMAIN xs : xs[m].name = v.name /\ ys[n] = Extended(xs[m], v)
                  \/ ys[n] = Started(t, v)
<1>1. /\ DOMAIN xs = 1..Len(xs)
      /\ Len(xs) \in Nat
      /\ \A n \in DOMAIN xs : xs[n] \in Index
  BY LenProperties, ElementOfSeq
<1>2. CASE \E n \in DOMAIN xs : xs[n].name = v.name
  <2> DEFINE ys == AddToIndexes(xs, t, v)
  <2>1. ys = [n \in DOMAIN xs |-> IF xs[n].name = v.name THEN Extended(xs[n], v) ELSE xs[n]]
    BY <1>2 DEF AddToIndexes, Extended
  <2>2. ASSUME NEW n \in DOMAIN xs PROVE Extended(xs[n], v) \in Index
    <3>1. xs[n] \in Index /\ xs[n].columns \in Seq(Columns) /\ v.column \in Columns
      BY <1>1 DEF Index, Visit
    <3>2. Append(xs[n].columns, v.column) \in Seq(Columns)
      BY <3>1, AppendProperties
    <3>3. QED BY <3>1, <3>2 DEF Extended, Index
  <2> HIDE DEF ys
  <2>3. ys \in [1..Len(xs) -> Index]
    BY <1>1, <2>1, <2>2
  <2>4. ys \in Seq(Index)
    BY <1>1, <2>3, SeqDef
  <2>5. ASSUME NEW n \in DOMAIN ys
        PROVE  \/ \E m \in DOMAIN xs : ys[n] = xs[m]
               \/ \E m \in DOMAIN xs : xs[m].name = v.name /\ ys[n] = Extended(xs[m], v)
    BY <2>1
  <2>6. QED BY <2>4, <2>5 DEF ys
<1>3. CASE ~\E n \in DOMAIN xs : xs[n].name = v.name
  <2> DEFINE ys == AddToIndexes(xs, t, v)
  <2>1. ys = Append(xs, Started(t, v))
    BY <1>3 DEF AddToIndexes, Started
  <2>2. v.column \in Columns /\ v.name \in IndexNames /\ v.unique \in BOOLEAN
    BY DEF Visit
  <2>3. <<v.column>> \in Seq(Columns)
    BY <2>2
  <2>4. Started(t, v) \in Index
    BY <2>2, <2>3 DEF Started, Index
  <2> HIDE DEF ys
  <2>5. /\ ys \in Seq(Index)
        /\ Len(ys) = Len(xs) + 1
        /\ \A n \in 1..Len(xs) : ys[n] = xs[n]
        /\ ys[Len(xs) + 1] = Started(t, v)
    BY <2>1, <2>4, AppendProperties
  <2>6. DOMAIN ys = 1..(Len(xs) + 1)
    BY <2>5, LenProperties
  <2>7. QED BY <1>1, <2>5, <2>6 DEF ys
<1>4. QED BY <1>2, <1>3

\* An index of that name in the list is to have the column.
Held(xs, x, c) == \E m \in DOMAIN xs : xs[m].name = x /\ InStrings(xs[m].columns, c)

\* Appended to, a list of columns has the new one and those it had.
LEMMA AppendHolds ==
  ASSUME NEW S, NEW cs \in Seq(S), NEW c \in S
  PROVE  InStrings(Append(cs, c), c) /\ \A x : InStrings(cs, x) => InStrings(Append(cs, c), x)
<1>1. /\ Append(cs, c) \in Seq(S)
      /\ Len(Append(cs, c)) = Len(cs) + 1
      /\ \A n \in 1..Len(cs) : Append(cs, c)[n] = cs[n]
      /\ Append(cs, c)[Len(cs) + 1] = c
  BY AppendProperties
<1>2. /\ Len(cs) \in Nat
      /\ DOMAIN cs = 1..Len(cs)
      /\ DOMAIN Append(cs, c) = 1..(Len(cs) + 1)
  BY <1>1, LenProperties
<1>3. QED BY <1>1, <1>2 DEF InStrings

\* After a visit the list asks for its column, and for all it asked for before.
LEMMA AddToIndexesHolds ==
  ASSUME NEW xs \in Seq(Index), NEW t \in Tables, NEW v \in Visit
  PROVE  LET ys == AddToIndexes(xs, t, v)
         IN  /\ Held(ys, v.name, v.column)
             /\ \A x, c : Held(xs, x, c) => Held(ys, x, c)
<1> DEFINE ys == AddToIndexes(xs, t, v)
<1>1. /\ DOMAIN xs = 1..Len(xs)
      /\ Len(xs) \in Nat
      /\ \A n \in DOMAIN xs : xs[n] \in Index
  BY LenProperties, ElementOfSeq
<1>2. /\ \A n \in DOMAIN xs : xs[n].columns \in Seq(Columns)
      /\ v.column \in Columns
  BY <1>1 DEF Index, Visit
<1>3. CASE \E n \in DOMAIN xs : xs[n].name = v.name
  <2>1. ys = [n \in DOMAIN xs |-> IF xs[n].name = v.name THEN Extended(xs[n], v) ELSE xs[n]]
    BY <1>3 DEF AddToIndexes, Extended
  <2>2. ASSUME NEW n \in DOMAIN xs
        PROVE  /\ Extended(xs[n], v).name = xs[n].name
               /\ Extended(xs[n], v).columns = Append(xs[n].columns, v.column)
    BY <1>1, <1>2 DEF Extended, Index
  <2> HIDE DEF ys
  <2>3. ASSUME NEW n \in DOMAIN xs
        PROVE  /\ n \in DOMAIN ys /\ ys[n].name = xs[n].name
               /\ \A c : InStrings(xs[n].columns, c) => InStrings(ys[n].columns, c)
               /\ xs[n].name = v.name => InStrings(ys[n].columns, v.column)
    <3>1. /\ InStrings(Append(xs[n].columns, v.column), v.column)
          /\ \A c : InStrings(xs[n].columns, c) => InStrings(Append(xs[n].columns, v.column), c)
      BY <1>2, AppendHolds
    <3>2. QED BY <2>1, <2>2, <3>1
  <2>4. Held(ys, v.name, v.column)
    BY <1>3, <2>3 DEF Held
  <2>5. ASSUME NEW x, NEW c, Held(xs, x, c) PROVE Held(ys, x, c)
    BY <2>3, <2>5 DEF Held
  <2>6. QED BY <2>4, <2>5 DEF ys
<1>4. CASE ~\E n \in DOMAIN xs : xs[n].name = v.name
  <2>1. ys = Append(xs, Started(t, v))
    BY <1>4 DEF AddToIndexes, Started
  <2>2. Started(t, v) \in Index
    BY <1>2, EmptySeq DEF Started, Index, Visit
  <2> HIDE DEF ys
  <2>3. /\ ys \in Seq(Index)
        /\ Len(ys) = Len(xs) + 1
        /\ \A n \in 1..Len(xs) : ys[n] = xs[n]
        /\ ys[Len(xs) + 1] = Started(t, v)
    BY <2>1, <2>2, AppendProperties
  <2>4. DOMAIN ys = 1..(Len(xs) + 1)
    BY <2>3, LenProperties
  <2>5. Started(t, v).name = v.name /\ InStrings(Started(t, v).columns, v.column)
    BY DEF Started, InStrings
  <2>6. Held(ys, v.name, v.column)
    BY <1>1, <2>3, <2>4, <2>5 DEF Held
  <2>7. ASSUME NEW x, NEW c, Held(xs, x, c) PROVE Held(ys, x, c)
    BY <1>1, <2>3, <2>4, <2>7 DEF Held
  <2>8. QED BY <2>6, <2>7 DEF ys
<1>5. QED BY <1>3, <1>4

\* Two entries of the list have different names.
DistinctNames(xs) == \A m, n \in DOMAIN xs : m # n => xs[m].name # xs[n].name

\* Gathering gives no name two entries.
LEMMA AddToIndexesDistinct ==
  ASSUME NEW xs \in Seq(Index), NEW t \in Tables, NEW v \in Visit, DistinctNames(xs)
  PROVE  DistinctNames(AddToIndexes(xs, t, v))
<1> DEFINE ys == AddToIndexes(xs, t, v)
<1>1. /\ DOMAIN xs = 1..Len(xs)
      /\ Len(xs) \in Nat
      /\ \A n \in DOMAIN xs : xs[n] \in Index
  BY LenProperties, ElementOfSeq
<1>2. CASE \E n \in DOMAIN xs : xs[n].name = v.name
  <2>1. ys = [n \in DOMAIN xs |-> IF xs[n].name = v.name THEN Extended(xs[n], v) ELSE xs[n]]
    BY <1>2 DEF AddToIndexes, Extended
  <2>2. ASSUME NEW n \in DOMAIN xs PROVE Extended(xs[n], v).name = xs[n].name
    BY <1>1 DEF Extended, Index
  <2> HIDE DEF ys
  <2>3. DOMAIN ys = DOMAIN xs /\ \A n \in DOMAIN xs : ys[n].name = xs[n].name
    BY <2>1, <2>2
  <2>4. DistinctNames(ys)
    BY <2>3 DEF DistinctNames
  <2>5. QED BY <2>4 DEF ys
<1>3. CASE ~\E n \in DOMAIN xs : xs[n].name = v.name
  <2>1. ys = Append(xs, Started(t, v))
    BY <1>3 DEF AddToIndexes, Started
  <2> HIDE DEF ys
  <2>2. /\ DOMAIN ys = 1..(Len(xs) + 1)
        /\ \A n \in 1..Len(xs) : ys[n] = xs[n]
        /\ ys[Len(xs) + 1] = Started(t, v)
    BY <1>1, <2>1
  <2>3. Started(t, v).name = v.name
    BY DEF Started
  <2>4. DistinctNames(ys)
    BY <1>1, <1>3, <2>2, <2>3 DEF DistinctNames
  <2>5. QED BY <2>4 DEF ys
<1>4. QED BY <1>2, <1>3

-----------------------------------------------------------------------------
(* Changes.                                                                *)

\* The constructors of changes make changes.
LEMMA ChangeTypes ==
  /\ \A t \in Tables, fields \in Seq(Field) : CreateTable(t, fields) \in Change
  /\ \A f \in Field : AddColumn(f) \in Change /\ DropColumn(f) \in Change
  /\ \A o, f \in Field : ModifyColumn(o, f) \in Change
  /\ \A t \in Tables, old, new \in Seq(Field) : ModifyPrimaryKey(t, old, new) \in Change
  /\ \A x \in Index : DropIndex(x) \in Change /\ CreateIndex(x) \in Change
  /\ \A t \in Tables : DropTable(t) \in Change
<1>1. ASSUME NEW t \in Tables, NEW fields \in Seq(Field) PROVE CreateTable(t, fields) \in Change
  BY FieldsOf DEF CreateTable, Change
<1>2. ASSUME NEW f \in Field PROVE AddColumn(f) \in Change
  BY DEF AddColumn, Change, Field
<1>3. ASSUME NEW f \in Field PROVE DropColumn(f) \in Change
  BY DEF DropColumn, Change, Field
<1>4. ASSUME NEW o \in Field, NEW f \in Field PROVE ModifyColumn(o, f) \in Change
  BY DEF ModifyColumn, Change, Field
<1>5. ASSUME NEW t \in Tables, NEW old \in Seq(Field), NEW new \in Seq(Field)
      PROVE  ModifyPrimaryKey(t, old, new) \in Change
  <2>1. RepeatsKey(new) \in BOOLEAN
    BY DEF RepeatsKey
  <2>2. QED BY <2>1, FieldsOf DEF ModifyPrimaryKey, Change
<1>6. ASSUME NEW x \in Index PROVE DropIndex(x) \in Change /\ CreateIndex(x) \in Change
  <2>1. x.table \in Tables
    BY DEF Index
  <2>2. /\ DropIndex(x) \in [op : {"dropIndex", "createIndex"}, table : Tables, index : Index]
        /\ CreateIndex(x) \in [op : {"dropIndex", "createIndex"}, table : Tables, index : Index]
    BY <2>1 DEF DropIndex, CreateIndex
  <2>3. QED BY <2>2 DEF Change
<1>7. ASSUME NEW t \in Tables PROVE DropTable(t) \in Change
  <2>1. DropTable(t) \in [op : {"dropTable"}, table : Tables]
    BY DEF DropTable
  <2>2. QED BY <2>1 DEF Change
<1>8. QED BY <1>1, <1>2, <1>3, <1>4, <1>5, <1>6, <1>7

\* What a field adds to the migrations is a list of changes.
LEMMA AlterTypes ==
  ASSUME NEW old \in Seq(Field), NEW f \in Field, NEW new
  PROVE  AlterNew(old, f) \in Seq(Change) /\ AlterOld(new, f) \in Seq(Change)
<1>1. <<>> \in Seq(Change) /\ \A c \in Change : <<c>> \in Seq(Change)
  BY EmptySeq
<1>2. AlterNew(old, f) \in Seq(Change)
  <2>1. CASE AlterNew(old, f) = <<>>
    BY <1>1, <2>1
  <2>2. CASE AlterNew(old, f) = <<AddColumn(f)>>
    BY <1>1, <2>2, ChangeTypes
  <2>3. CASE \E n \in DOMAIN old : AlterNew(old, f) = <<ModifyColumn(old[n], f)>>
    <3>1. PICK n \in DOMAIN old : AlterNew(old, f) = <<ModifyColumn(old[n], f)>>
      BY <2>3
    <3>2. ModifyColumn(old[n], f) \in Change
      BY FieldsOf, ChangeTypes
    <3>3. QED BY <1>1, <3>1, <3>2
  <2>4. QED BY <2>1, <2>2, <2>3, AlterNewCases
<1>3. AlterOld(new, f) \in Seq(Change)
  BY <1>1, AlterOldCases, ChangeTypes
<1>4. QED BY <1>2, <1>3

-----------------------------------------------------------------------------
(* Induction, and concatenation.                                           *)

\* The order of the natural numbers as a set of pairs.
Less == {p \in Nat \X Nat : p[1] < p[2]}

\* Less orders the natural numbers well.
LEMMA LessWF == IsWellFoundedOn(Less, Nat)
BY NatLessThanWellFounded, Zenon DEF OpToRel, Less

\* A non-empty set of natural numbers has a least member.
LEMMA Least ==
  ASSUME NEW S \in SUBSET Nat, S # {}
  PROVE \E n \in S : \A m \in S : n <= m
<1>1. \E n \in S : \A m \in S : ~(<<m, n>> \in Less)
  BY LessWF, WFMin, Zenon
<1>2. PICK n \in S : \A m \in S : ~(<<m, n>> \in Less)
  BY <1>1, Zenon
<1>3. \A m \in S : <<m, n>> \in Nat \X Nat /\ <<m, n>>[1] = m /\ <<m, n>>[2] = n
  OBVIOUS
<1>4. \A m \in S : ~(m < n)
  BY <1>2, <1>3 DEF Less
<1>5. QED BY <1>4

\* Induction, over a set of natural numbers in the place of a predicate.
LEMMA Induction ==
  ASSUME NEW S \in SUBSET Nat, 0 \in S, \A n \in S : n + 1 \in S
  PROVE S = Nat
<1>1. SUFFICES ASSUME Nat \ S # {} PROVE FALSE
  OBVIOUS
<1>2. PICK n \in Nat \ S : \A m \in Nat \ S : n <= m
  BY <1>1, Least
<1>3. n # 0 /\ n - 1 \in Nat /\ n - 1 \in S
  BY <1>2
<1>4. QED BY <1>3, <1>2

\* Induction up to a bound.
LEMMA UpTo ==
  ASSUME NEW N \in Nat, NEW S, N # 0 => 1 \in S,
         \A n \in 1..(N - 1) : n \in S => n + 1 \in S
  PROVE  1..N \subseteq S
<1> DEFINE T == {k \in Nat : k + 1 \in 1..N => k + 1 \in S}
<1>1. 0 \in T
  OBVIOUS
<1>2. ASSUME NEW k \in T PROVE k + 1 \in T
  <2>1. SUFFICES ASSUME k + 2 \in 1..N PROVE k + 2 \in S
    OBVIOUS
  <2>2. k + 1 \in 1..(N - 1) /\ k + 1 \in S
    BY <2>1
  <2>3. QED BY <2>2
<1>3. T = Nat
  <2>1. T \in SUBSET Nat
    OBVIOUS
  <2> HIDE DEF T
  <2>2. QED BY <1>1, <1>2, <2>1, Induction
<1>4. ASSUME NEW n \in 1..N PROVE n \in S
  <2>1. n - 1 \in Nat /\ (n - 1) + 1 = n
    OBVIOUS
  <2>2. n - 1 \in T
    BY <1>3, <2>1
  <2>3. QED BY <2>1, <2>2
<1>5. QED BY <1>4

\* The values a step gives to 0, 1, ..., N.
Iterates(f, T, first, step, N) ==
  /\ f \in [0..N -> T]
  /\ f[0] = first
  /\ \A n \in 1..N : f[n] = step[<<f[n - 1], n>>]

\* Definition by recursion: there are such iterates.
LEMMA RecursionExists ==
  ASSUME NEW T, NEW first \in T, NEW step \in [T \X Nat -> T], NEW N \in Nat
  PROVE  \E f : Iterates(f, T, first, step, N)
<1> DEFINE S == {k \in Nat : \E f : Iterates(f, T, first, step, k)}
<1>1. 0 \in S
  <2> DEFINE f == [n \in 0..0 |-> first]
  <2>1. Iterates(f, T, first, step, 0)
    BY DEF Iterates
  <2>2. QED BY <2>1
<1>2. ASSUME NEW k \in S PROVE k + 1 \in S
  <2>1. PICK f : Iterates(f, T, first, step, k)
    OBVIOUS
  <2> DEFINE g == [n \in 0..(k + 1) |-> IF n = k + 1 THEN step[<<f[k], n>>] ELSE f[n]]
  <2>2. step[<<f[k], k + 1>>] \in T
    BY <2>1 DEF Iterates
  <2>3. g \in [0..(k + 1) -> T]
    BY <2>1, <2>2 DEF Iterates
  <2>4. g[0] = first
    BY <2>1 DEF Iterates
  <2>5. ASSUME NEW n \in 1..(k + 1) PROVE g[n] = step[<<g[n - 1], n>>]
    BY <2>1 DEF Iterates
  <2> HIDE DEF g
  <2>6. QED BY <2>3, <2>4, <2>5 DEF Iterates
<1>3. S = Nat
  <2> HIDE DEF S
  <2>1. S \in SUBSET Nat
    BY DEF S
  <2>2. QED BY <1>1, <1>2, <2>1, Induction
<1>4. QED BY <1>3

\* FlattenSeq is the last of the concatenations it is defined by.
LEMMA Flattening ==
  ASSUME NEW S, NEW ss \in Seq(Seq(S)), ss # <<>>
  PROVE  \E g \in [1..Len(ss) -> Seq(S)] :
           /\ g[1] = ss[1]
           /\ \A n \in 2..Len(ss) : g[n] = g[n - 1] \o ss[n]
           /\ FlattenSeq(ss) = g[Len(ss)]
<1> DEFINE N == Len(ss)
           Step(f) == [i \in 1..N |-> IF i = 1 THEN ss[i] ELSE f[i - 1] \o ss[i]]
           g == CHOOSE f : f = Step(f)
<1>1. N \in Nat /\ N # 0 /\ DOMAIN ss = 1..N /\ \A n \in 1..N : ss[n] \in Seq(S)
  BY LenProperties, ElementOfSeq, EmptySeq
<1> HIDE DEF N
<1>2. \E f : f = Step(f)
  <2> DEFINE step == [p \in Seq(S) \X Nat |->
                        IF p[2] + 1 \in 1..N THEN p[1] \o ss[p[2] + 1] ELSE p[1]]
  <2>1. step \in [Seq(S) \X Nat -> Seq(S)]
    BY <1>1, ConcatProperties
  <2>2. PICK f : Iterates(f, Seq(S), ss[1], step, N - 1)
    <3> HIDE DEF step
    <3>1. N - 1 \in Nat /\ ss[1] \in Seq(S)
      BY <1>1
    <3>2. QED BY <3>1, <2>1, RecursionExists, Zenon
  <2> DEFINE h == [i \in 1..N |-> f[i - 1]]
  <2>3. ASSUME NEW i \in 1..N PROVE h[i] = IF i = 1 THEN ss[i] ELSE h[i - 1] \o ss[i]
    <3>1. CASE i = 1
      BY <3>1, <2>2, SMTT(30) DEF Iterates
    <3>2. CASE i # 1
      <4>1. /\ i - 1 \in 1..(N - 1) /\ i - 2 \in 0..(N - 1) /\ i - 1 \in Nat
            /\ (i - 1) - 1 = i - 2 /\ (i - 1) + 1 = i
        BY <3>2, <1>1
      <4>2. h[i] = f[i - 1] /\ h[i - 1] = f[(i - 1) - 1]
        BY <4>1, <1>1
      <4>3. f[i - 2] \in Seq(S) /\ f[i - 1] = step[<<f[i - 2], i - 1>>]
        <5> HIDE DEF step
        <5>1. QED BY <4>1, <2>2, Zenon DEF Iterates
      <4>4. step[<<f[i - 2], i - 1>>] = f[i - 2] \o ss[i]
        BY <4>1, <4>3
      <4>5. QED BY <4>1, <4>2, <4>3, <4>4, <3>2
    <3>3. QED BY <3>1, <3>2
  <2>4. h = Step(h)
    BY <2>3
  <2>5. QED BY <2>4
<1>3. g = Step(g)
  <2> HIDE DEF Step
  <2>1. QED BY <1>2
<1> HIDE DEF g
<1>4. FlattenSeq(ss) = g[N]
  BY <1>1, Zenon DEF FlattenSeq, g, N
<1>5. g[1] = ss[1] /\ \A n \in 2..N : g[n] = g[n - 1] \o ss[n]
  <2>1. \A n \in 1..N : g[n] = IF n = 1 THEN ss[n] ELSE g[n - 1] \o ss[n]
    BY <1>3
  <2>2. 1 \in 1..N /\ \A n \in 2..N : n \in 1..N /\ n # 1
    BY <1>1
  <2>3. QED BY <2>1, <2>2, Zenon
<1>6. \A n \in 1..N : g[n] \in Seq(S)
  <2> DEFINE P == {n \in 1..N : g[n] \in Seq(S)}
  <2>1. 1 \in P
    BY <1>1, <1>5
  <2>2. ASSUME NEW n \in 1..(N - 1), n \in P PROVE n + 1 \in P
    <3>1. n + 1 \in 2..N /\ n + 1 \in 1..N /\ (n + 1) - 1 = n
      BY <1>1
    <3>2. g[n] \in Seq(S) /\ g[n + 1] = g[n] \o ss[n + 1] /\ ss[n + 1] \in Seq(S)
      BY <1>1, <1>5, <2>2, <3>1
    <3>3. QED BY <3>1, <3>2, ConcatProperties
  <2>3. 1..N \subseteq P
    <3> HIDE DEF P
    <3>1. QED BY <1>1, <2>1, <2>2, UpTo
  <2>4. QED BY <2>3
<1>7. g \in [1..N -> Seq(S)]
  <2>1. DOMAIN g = 1..N /\ g = [n \in 1..N |-> g[n]]
    BY <1>3
  <2>2. QED BY <2>1, <1>6
<1>8. QED BY <1>4, <1>5, <1>7 DEF N

\* A concatenation of lists over S is a list over S.
LEMMA FlattenType ==
  ASSUME NEW S, NEW ss \in Seq(Seq(S))
  PROVE  FlattenSeq(ss) \in Seq(S)
<1>1. CASE ss = <<>>
  BY <1>1, EmptySeq DEF FlattenSeq
<1>2. CASE ss # <<>>
  <2>1. PICK g \in [1..Len(ss) -> Seq(S)] : FlattenSeq(ss) = g[Len(ss)]
    BY <1>2, Flattening
  <2>2. Len(ss) \in 1..Len(ss)
    BY <1>2, EmptySeq, LenProperties
  <2>3. QED BY <2>1, <2>2
<1>3. QED BY <1>1, <1>2

\* Lists given one by one, and their concatenation.
LEMMA FlattenMap ==
  ASSUME NEW S, NEW N \in Nat, NEW ss, DOMAIN ss = 1..N, ss = [n \in 1..N |-> ss[n]],
         \A n \in 1..N : ss[n] \in Seq(S)
  PROVE  ss \in Seq(Seq(S)) /\ Len(ss) = N /\ FlattenSeq(ss) \in Seq(S)
<1>1. ss \in [1..N -> Seq(S)]
  OBVIOUS
<1>2. ss \in Seq(Seq(S))
  BY <1>1, SeqDef
<1>3. Len(ss) = N
  BY <1>2, LenProperties
<1>4. QED BY <1>2, <1>3, FlattenType

\* The same, of lists given as a function.
LEMMA FlattenFunction ==
  ASSUME NEW S, NEW N \in Nat, NEW ss \in [1..N -> Seq(S)]
  PROVE  ss \in Seq(Seq(S)) /\ FlattenSeq(ss) \in Seq(S)
<1>1. ss \in Seq(Seq(S))
  BY SeqDef
<1>2. QED BY <1>1, FlattenType

\* Every element of a concatenation is one of its parts.
LEMMA FlattenElements ==
  ASSUME NEW S, NEW ss \in Seq(Seq(S)), NEW n \in DOMAIN FlattenSeq(ss)
  PROVE  \E k \in DOMAIN ss : \E m \in DOMAIN ss[k] : FlattenSeq(ss)[n] = ss[k][m]
<1> DEFINE T == UNION {{ss[k][m] : m \in DOMAIN ss[k]} : k \in DOMAIN ss}
<1>1. DOMAIN ss = 1..Len(ss) /\ Len(ss) \in Nat /\ \A k \in DOMAIN ss : ss[k] \in Seq(S)
  BY LenProperties, ElementOfSeq
<1>2. ASSUME NEW k \in DOMAIN ss PROVE ss[k] \in Seq(T)
  <2>1. DOMAIN ss[k] = 1..Len(ss[k]) /\ Len(ss[k]) \in Nat
    BY <1>1, LenProperties
  <2>2. \A m \in DOMAIN ss[k] : ss[k][m] \in T
    OBVIOUS
  <2>3. ss[k] = [m \in 1..Len(ss[k]) |-> ss[k][m]]
    BY <1>1, <2>1, SeqDef
  <2> HIDE DEF T
  <2>4. ss[k] \in [1..Len(ss[k]) -> T]
    BY <2>1, <2>2, <2>3
  <2>5. QED BY <2>1, <2>4, SeqDef
<1>3. FlattenSeq(ss) \in Seq(T)
  <2>1. ss = [k \in 1..Len(ss) |-> ss[k]]
    BY <1>1, SeqDef
  <2> HIDE DEF T
  <2>2. QED BY <1>1, <1>2, <2>1, FlattenMap
<1>4. FlattenSeq(ss)[n] \in T
  <2> HIDE DEF T
  <2>1. QED BY <1>3, LenProperties, ElementOfSeq
<1>5. QED BY <1>4

\* Every element of a part is one of the concatenation.
LEMMA FlattenKeeps ==
  ASSUME NEW S, NEW ss \in Seq(Seq(S)), NEW k \in DOMAIN ss, NEW m \in DOMAIN ss[k]
  PROVE  \E n \in DOMAIN FlattenSeq(ss) : FlattenSeq(ss)[n] = ss[k][m]
<1> DEFINE N == Len(ss)
           x == ss[k][m]
<1>1. DOMAIN ss = 1..N /\ N \in Nat /\ \A n \in 1..N : ss[n] \in Seq(S)
  BY LenProperties, ElementOfSeq
<1>2. ss # <<>>
  BY EmptySeq
<1>3. PICK g \in [1..N -> Seq(S)] : /\ g[1] = ss[1]
                                    /\ \A n \in 2..N : g[n] = g[n - 1] \o ss[n]
                                    /\ FlattenSeq(ss) = g[N]
  BY <1>2, Flattening
<1> HIDE DEF N
<1> DEFINE Has(s) == \E n \in DOMAIN s : s[n] = x
<1>4. Has(ss[k])
  OBVIOUS
<1>5. ASSUME NEW s \in Seq(S), NEW t \in Seq(S), Has(s) \/ Has(t) PROVE Has(s \o t)
  <2>1. /\ Len(s \o t) = Len(s) + Len(t)
        /\ \A n \in 1..Len(s) + Len(t) : (s \o t)[n] = IF n <= Len(s) THEN s[n] ELSE t[n - Len(s)]
        /\ DOMAIN (s \o t) = 1..Len(s \o t)
        /\ DOMAIN s = 1..Len(s) /\ Len(s) \in Nat
        /\ DOMAIN t = 1..Len(t) /\ Len(t) \in Nat
    BY ConcatProperties, LenProperties
  <2>2. CASE Has(s)
    BY <2>1, <2>2
  <2>3. CASE Has(t)
    <3>1. PICK n \in DOMAIN t : t[n] = x
      BY <2>3
    <3>2. n + Len(s) \in DOMAIN (s \o t) /\ (s \o t)[n + Len(s)] = t[n]
      BY <2>1, SMTT(30)
    <3>3. QED BY <3>1, <3>2
  <2>4. QED BY <1>5, <2>2, <2>3
<1> HIDE DEF Has, x
<1> DEFINE P == {n \in 1..N : n >= k => Has(g[n])}
<1>6. 1 \in P
  BY <1>1, <1>3, <1>4
<1>7. ASSUME NEW n \in 1..(N - 1), n \in P PROVE n + 1 \in P
  <2>1. n + 1 \in 2..N /\ n + 1 \in 1..N /\ (n + 1) - 1 = n /\ n \in 1..N
    BY <1>1
  <2>2. g[n + 1] = g[n] \o ss[n + 1] /\ g[n] \in Seq(S) /\ ss[n + 1] \in Seq(S)
    BY <1>1, <1>3, <2>1
  <2>3. CASE n >= k
    BY <1>5, <1>7, <2>1, <2>2, <2>3
  <2>4. CASE n + 1 = k
    BY <1>4, <1>5, <2>1, <2>2, <2>4
  <2>5. QED BY <1>1, <2>1, <2>3, <2>4
<1>8. 1..N \subseteq P
  <2> HIDE DEF P
  <2>1. QED BY <1>1, <1>6, <1>7, UpTo
<1>9. N \in P /\ N >= k
  BY <1>1, <1>8
<1>10. QED BY <1>3, <1>9 DEF Has, x

\* Some of N elements, each in a list of its own.
Chosen(ss, e, N) ==
  /\ DOMAIN ss = 1..N
  /\ ss = [n \in 1..N |-> ss[n]]
  /\ \A n \in 1..N : ss[n] = <<>> \/ ss[n] = <<e[n]>>

\* Their concatenation has these elements.
LEMMA FlattenChosen ==
  ASSUME NEW S, NEW N \in Nat, NEW e \in [1..N -> S], NEW ss, Chosen(ss, e, N)
  PROVE  /\ FlattenSeq(ss) \in Seq(S)
         /\ ToSet(FlattenSeq(ss)) = {e[n] : n \in {k \in 1..N : ss[k] # <<>>}}
<1> USE DEF Chosen
<1>1. ASSUME NEW n \in 1..N PROVE ss[n] \in Seq(S)
  <2>1. e[n] \in S /\ <<e[n]>> \in Seq(S) /\ <<>> \in Seq(S)
    BY EmptySeq
  <2>2. QED BY <2>1
<1>2. ss \in Seq(Seq(S)) /\ FlattenSeq(ss) \in Seq(S)
  BY <1>1, FlattenMap
<1>3. ASSUME NEW n \in 1..N, NEW m \in DOMAIN ss[n]
      PROVE  ss[n] # <<>> /\ ss[n][m] = e[n]
  BY EmptySeq
<1>4. ASSUME NEW n \in 1..N, ss[n] # <<>> PROVE 1 \in DOMAIN ss[n] /\ ss[n][1] = e[n]
  BY <1>4
<1>5. ASSUME NEW x \in ToSet(FlattenSeq(ss)) PROVE \E n \in {k \in 1..N : ss[k] # <<>>} : x = e[n]
  <2>1. PICK i \in DOMAIN FlattenSeq(ss) : x = FlattenSeq(ss)[i]
    BY DEF ToSet
  <2>2. PICK n \in DOMAIN ss : \E m \in DOMAIN ss[n] : FlattenSeq(ss)[i] = ss[n][m]
    BY <1>2, FlattenElements
  <2>3. PICK m \in DOMAIN ss[n] : FlattenSeq(ss)[i] = ss[n][m]
    BY <2>2
  <2>4. n \in 1..N
    OBVIOUS
  <2>5. ss[n] # <<>> /\ ss[n][m] = e[n]
    BY <1>3, <2>4, Zenon
  <2>6. QED BY <2>1, <2>3, <2>4, <2>5
<1>6. ASSUME NEW n \in 1..N, ss[n] # <<>> PROVE e[n] \in ToSet(FlattenSeq(ss))
  <2>1. n \in DOMAIN ss /\ 1 \in DOMAIN ss[n]
    BY <1>4, <1>6
  <2>2. \E i \in DOMAIN FlattenSeq(ss) : FlattenSeq(ss)[i] = ss[n][1]
    <3>1. ss \in Seq(Seq(S))
      BY <1>2
    <3> DEFINE one == 1
    <3>2. one \in DOMAIN ss[n]
      BY <2>1
    <3> HIDE DEF one
    <3>3. \E i \in DOMAIN FlattenSeq(ss) : FlattenSeq(ss)[i] = ss[n][one]
      BY <3>1, <3>2, <2>1, FlattenKeeps
    <3>4. QED BY <3>3 DEF one
  <2>3. QED BY <1>4, <1>6, <2>2 DEF ToSet
<1>7. QED BY <1>2, <1>5, <1>6

\* A list more adds its elements at the end.
LEMMA FlattenAppend ==
  ASSUME NEW S, NEW ss \in Seq(Seq(S)), NEW s \in Seq(S)
  PROVE  FlattenSeq(Append(ss, s)) = FlattenSeq(ss) \o s
<1> DEFINE N == Len(ss)
           tt == Append(ss, s)
<1>1. DOMAIN ss = 1..N /\ N \in Nat /\ \A n \in 1..N : ss[n] \in Seq(S)
  BY LenProperties, ElementOfSeq
<1>2. /\ tt \in Seq(Seq(S)) /\ Len(tt) = N + 1 /\ tt # <<>>
      /\ \A n \in 1..N : tt[n] = ss[n]
      /\ tt[N + 1] = s
  BY AppendProperties, <1>1
<1> HIDE DEF tt
<1>3. PICK h \in [1..Len(tt) -> Seq(S)] : /\ h[1] = tt[1]
                                          /\ \A n \in 2..Len(tt) : h[n] = h[n - 1] \o tt[n]
                                          /\ FlattenSeq(tt) = h[Len(tt)]
  BY <1>2, Flattening
<1>4. CASE ss = <<>>
  <2>1. N = 0 /\ FlattenSeq(ss) = <<>>
    BY <1>4, EmptySeq DEF FlattenSeq
  <2>2. FlattenSeq(tt) = s
    BY <1>2, <1>3, <2>1
  <2>3. <<>> \o s = s
    BY ConcatEmptySeq
  <2>4. QED BY <2>1, <2>2, <2>3 DEF tt
<1>5. CASE ss # <<>>
  <2>1. PICK g \in [1..N -> Seq(S)] : /\ g[1] = ss[1]
                                      /\ \A n \in 2..N : g[n] = g[n - 1] \o ss[n]
                                      /\ FlattenSeq(ss) = g[N]
    BY <1>5, Flattening
  <2>2. N # 0
    BY <1>5, EmptySeq
  <2> HIDE DEF N
  <2> DEFINE P == {n \in 1..N : h[n] = g[n]}
  <2>3. 1 \in P
    BY <1>1, <1>2, <1>3, <2>1, <2>2
  <2>4. ASSUME NEW n \in 1..(N - 1), n \in P PROVE n + 1 \in P
    <3>1. n + 1 \in 2..N /\ n + 1 \in 2..Len(tt) /\ n + 1 \in 1..N /\ (n + 1) - 1 = n
      BY <1>1, <1>2
    <3>2. g[n + 1] = g[n] \o ss[n + 1] /\ h[n + 1] = h[n] \o tt[n + 1]
      BY <1>3, <2>1, <3>1
    <3>3. tt[n + 1] = ss[n + 1] /\ h[n] = g[n]
      BY <1>2, <2>4, <3>1
    <3>4. QED BY <3>1, <3>2, <3>3
  <2>5. 1..N \subseteq P
    <3> HIDE DEF P
    <3>1. QED BY <1>1, <2>3, <2>4, UpTo
  <2>6. h[N] = g[N]
    BY <1>1, <2>2, <2>5
  <2>7. h[N + 1] = h[N] \o tt[N + 1]
    <3>1. N + 1 \in 2..Len(tt) /\ (N + 1) - 1 = N
      BY <1>1, <1>2, <2>2
    <3>2. QED BY <1>3, <3>1
  <2>8. QED BY <1>2, <1>3, <2>1, <2>6, <2>7 DEF tt
<1>6. QED BY <1>4, <1>5

\* A list of k lists, and one that is longer by a list.
Longer(tt, ss, k, S) ==
  /\ DOMAIN ss = 1..k
  /\ ss = [n \in 1..k |-> ss[n]]
  /\ DOMAIN tt = 1..(k + 1)
  /\ tt = [n \in 1..(k + 1) |-> tt[n]]
  /\ \A n \in 1..(k + 1) : tt[n] \in Seq(S)
  /\ \A n \in 1..k : ss[n] = tt[n]

\* Its concatenation is longer by that list.
LEMMA FlattenNext ==
  ASSUME NEW S, NEW k \in Nat, NEW ss, NEW tt, Longer(tt, ss, k, S)
  PROVE  /\ FlattenSeq(ss) \in Seq(S)
         /\ FlattenSeq(tt) \in Seq(S)
         /\ FlattenSeq(tt) = FlattenSeq(ss) \o tt[k + 1]
<1> USE DEF Longer
<1>1. \A n \in 1..k : ss[n] \in Seq(S)
  OBVIOUS
<1>2. ss \in Seq(Seq(S)) /\ Len(ss) = k /\ FlattenSeq(ss) \in Seq(S)
  BY <1>1, FlattenMap
<1>3. tt \in Seq(Seq(S)) /\ Len(tt) = k + 1 /\ FlattenSeq(tt) \in Seq(S)
  <2>1. k + 1 \in Nat
    OBVIOUS
  <2>2. QED BY <2>1, FlattenMap
<1>4. tt[k + 1] \in Seq(S)
  OBVIOUS
<1> DEFINE last == tt[k + 1]
<1> HIDE DEF last
<1>5. tt = Append(ss, last)
  <2>1. /\ Append(ss, last) \in Seq(Seq(S)) /\ Len(Append(ss, last)) = k + 1
        /\ \A n \in 1..k : Append(ss, last)[n] = ss[n]
        /\ Append(ss, last)[k + 1] = last
    BY <1>2, <1>4, AppendProperties DEF last
  <2>2. \A n \in 1..(k + 1) : n \in 1..k \/ n = k + 1
    OBVIOUS
  <2>3. \A n \in 1..Len(tt) : tt[n] = Append(ss, last)[n]
    BY <1>3, <2>1, <2>2 DEF last
  <2>4. QED BY <1>3, <2>1, <2>3, SeqEqual
<1>6. FlattenSeq(Append(ss, last)) = FlattenSeq(ss) \o last
  BY <1>2, <1>4, FlattenAppend DEF last
<1>7. QED BY <1>2, <1>3, <1>5, <1>6 DEF last

\* The first k of a list of lists, joined.
Joined(ss, k) == FlattenSeq([n \in 1..k |-> ss[n]])

\* They are joined one by one, until they all are.
LEMMA JoinedSteps ==
  ASSUME NEW S, NEW N \in Nat, NEW ss \in [1..N -> Seq(S)]
  PROVE  /\ Joined(ss, 0) = <<>>
         /\ \A k \in 0..N : Joined(ss, k) \in Seq(S)
         /\ \A k \in 1..N : Joined(ss, k) = Joined(ss, k - 1) \o ss[k]
         /\ Joined(ss, N) = FlattenSeq(ss)
<1> DEFINE First(k) == [n \in 1..k |-> ss[n]]
<1>1. First(0) = <<>> /\ FlattenSeq(<<>>) = <<>>
  <2>1. First(0) = <<>>
    OBVIOUS
  <2>2. FlattenSeq(<<>>) = <<>>
    BY DEF FlattenSeq
  <2>3. QED BY <2>1, <2>2
<1>2. ASSUME NEW k \in 0..N PROVE FlattenSeq(First(k)) \in Seq(S)
  <2>1. First(k) \in [1..k -> Seq(S)] /\ k \in Nat
    OBVIOUS
  <2> HIDE DEF First
  <2>2. First(k) \in Seq(Seq(S))
    BY <2>1, SeqDef
  <2>3. QED BY <2>2, FlattenType
<1>3. ASSUME NEW k \in 1..N PROVE FlattenSeq(First(k)) = FlattenSeq(First(k - 1)) \o ss[k]
  <2>1. k - 1 \in Nat /\ (k - 1) + 1 = k
    OBVIOUS
  <2>2. Longer(First(k), First(k - 1), k - 1, S) /\ First(k)[k] = ss[k]
    BY <2>1 DEF Longer
  <2> HIDE DEF First
  <2>3. PICK m, f, g : m \in Nat /\ m = k - 1 /\ f = First(k) /\ g = First(k - 1)
    BY <2>1
  <2>4. m \in Nat /\ Longer(f, g, m, S)
    BY <2>2, <2>3
  <2>5. FlattenSeq(f) = FlattenSeq(g) \o f[m + 1]
    BY <2>4, FlattenNext
  <2>6. m + 1 = k
    BY <2>3
  <2>7. f[m + 1] = ss[k]
    BY <2>2, <2>3, <2>6
  <2>8. QED BY <2>3, <2>5, <2>7
<1>4. First(N) = ss
  OBVIOUS
<1> HIDE DEF First
<1>5. \A k : Joined(ss, k) = FlattenSeq(First(k))
  BY DEF Joined, First
<1>6. QED BY <1>1, <1>2, <1>3, <1>4, <1>5

\* The elements of a sequence.
LEMMA Elements ==
  ASSUME NEW S, NEW s \in Seq(S)
  PROVE  /\ DOMAIN s = 1..Len(s) /\ Len(s) \in Nat
         /\ s \in [1..Len(s) -> S]
         /\ ToSet(s) \subseteq S
         /\ \A n \in DOMAIN s : s[n] \in S /\ s[n] \in ToSet(s)
<1>1. DOMAIN s = 1..Len(s) /\ Len(s) \in Nat /\ \A n \in DOMAIN s : s[n] \in S
  BY LenProperties, ElementOfSeq
<1>2. s \in [1..Len(s) -> S]
  BY LenProperties, SeqDef
<1>3. QED BY <1>1, <1>2 DEF ToSet

\* What Append adds.
LEMMA AppendElements ==
  ASSUME NEW S, NEW s \in Seq(S), NEW x \in S
  PROVE  Append(s, x) \in Seq(S) /\ ToSet(Append(s, x)) = ToSet(s) \union {x}
<1>1. /\ Append(s, x) \in Seq(S) /\ Len(Append(s, x)) = Len(s) + 1
      /\ \A n \in 1..Len(s) : Append(s, x)[n] = s[n]
      /\ Append(s, x)[Len(s) + 1] = x
  BY AppendProperties
<1>2. /\ DOMAIN Append(s, x) = 1..(Len(s) + 1)
      /\ DOMAIN s = 1..Len(s) /\ Len(s) \in Nat
  BY <1>1, Elements
<1>3. QED BY <1>1, <1>2 DEF ToSet

\* Induction over sequences, over a set in the place of a predicate.
LEMMA SequenceInduction ==
  ASSUME NEW S, NEW A, <<>> \in A,
         \A s \in Seq(S) : s \in A => \A x \in S : Append(s, x) \in A
  PROVE  Seq(S) \subseteq A
<1> DEFINE T == {n \in Nat : \A s \in Seq(S) : Len(s) = n => s \in A}
<1>1. 0 \in T
  BY EmptySeq
<1>2. ASSUME NEW n \in T PROVE n + 1 \in T
  <2>1. SUFFICES ASSUME NEW s \in Seq(S), Len(s) = n + 1 PROVE s \in A
    OBVIOUS
  <2>2. s # <<>>
    BY <2>1, EmptySeq
  <2>3. PICK r \in Seq(S), x \in S : s = Append(r, x)
    BY <2>2, SequenceEmptyOrAppend
  <2>4. Len(r) \in Nat /\ Len(s) = Len(r) + 1
    BY <2>3, AppendProperties, LenProperties
  <2>5. r \in A
    BY <2>1, <2>4
  <2>6. QED BY <2>3, <2>5
<1>3. T = Nat
  <2>1. T \in SUBSET Nat
    OBVIOUS
  <2> HIDE DEF T
  <2>2. QED BY <1>1, <1>2, <2>1, Induction
<1>4. QED BY <1>3, LenProperties

\* The elements of a concatenation.
LEMMA ConcatSet ==
  ASSUME NEW S, NEW s \in Seq(S), NEW t \in Seq(S)
  PROVE  s \o t \in Seq(S) /\ ToSet(s \o t) = ToSet(s) \union ToSet(t)
<1>1. /\ s \o t \in Seq(S)
      /\ \A n \in DOMAIN (s \o t) : \/ \E m \in DOMAIN s : (s \o t)[n] = s[m]
                                    \/ \E m \in DOMAIN t : (s \o t)[n] = t[m]
  BY ConcatElements
<1>2. Within(s, s \o t) /\ Within(t, s \o t)
  BY ConcatHolds
<1>3. ASSUME NEW x \in ToSet(s \o t) PROVE x \in ToSet(s) \/ x \in ToSet(t)
  <2>1. PICK n \in DOMAIN (s \o t) : x = (s \o t)[n]
    BY DEF ToSet
  <2>2. QED BY <1>1, <2>1 DEF ToSet
<1>4. ASSUME NEW x, x \in ToSet(s) \/ x \in ToSet(t) PROVE x \in ToSet(s \o t)
  BY <1>2, <1>4, SMTT(30) DEF ToSet, Within
<1>5. QED BY <1>1, <1>3, <1>4

\* The elements of a concatenation of several lists.
LEMMA FlattenUnion ==
  ASSUME NEW S, NEW N \in Nat, NEW ss \in [1..N -> Seq(S)]
  PROVE  /\ FlattenSeq(ss) \in Seq(S)
         /\ ToSet(FlattenSeq(ss)) = UNION {ToSet(ss[n]) : n \in 1..N}
<1>1. ss \in Seq(Seq(S)) /\ FlattenSeq(ss) \in Seq(S) /\ DOMAIN ss = 1..N
  BY FlattenFunction
<1>2. \A x \in ToSet(FlattenSeq(ss)) : \E n \in 1..N : x \in ToSet(ss[n])
  <2>1. SUFFICES ASSUME NEW k \in DOMAIN FlattenSeq(ss)
                 PROVE  \E n \in 1..N : FlattenSeq(ss)[k] \in ToSet(ss[n])
    BY DEF ToSet
  <2>2. \E n \in DOMAIN ss : \E m \in DOMAIN ss[n] : FlattenSeq(ss)[k] = ss[n][m]
    BY <1>1, FlattenElements
  <2>3. QED BY <1>1, <2>2 DEF ToSet
<1>3. ASSUME NEW n \in 1..N, NEW x \in ToSet(ss[n]) PROVE x \in ToSet(FlattenSeq(ss))
  <2>1. PICK m \in DOMAIN ss[n] : x = ss[n][m]
    BY DEF ToSet
  <2>2. \E k \in DOMAIN FlattenSeq(ss) : FlattenSeq(ss)[k] = ss[n][m]
    <3>1. n \in DOMAIN ss
      BY <1>1
    <3>2. QED BY <1>1, <3>1, FlattenKeeps, Zenon
  <2> HIDE DEF ToSet
  <2>3. PICK k \in DOMAIN FlattenSeq(ss) : FlattenSeq(ss)[k] = x
    BY <2>1, <2>2
  <2>4. QED BY <2>3 DEF ToSet
<1>4. QED BY <1>1, <1>2, <1>3

\* What a function gives for the elements of a sequence, one list after the other.
Collected(s, g) == FlattenSeq([n \in DOMAIN s |-> g[s[n]]])
Collects(g, S, T) == g \in [S -> Seq(T)]

\* Nothing is collected from no sequence.
LEMMA CollectedEmpty == ASSUME NEW g PROVE Collected(<<>>, g) = <<>>
<1> DEFINE none == [n \in DOMAIN <<>> |-> g[<<>>[n]]]
<1>1. none = <<>>
  OBVIOUS
<1>2. Collected(<<>>, g) = FlattenSeq(none)
  BY DEF Collected
<1>3. FlattenSeq(<<>>) = <<>>
  BY DEF FlattenSeq
<1>4. QED BY <1>1, <1>2, <1>3

\* What is collected from a sequence and one element more.
LEMMA CollectedAppend ==
  ASSUME NEW S, NEW T, NEW g, Collects(g, S, T), NEW s \in Seq(S), NEW x \in S
  PROVE  /\ Collected(s, g) \in Seq(T)
         /\ Collected(Append(s, x), g) = Collected(s, g) \o g[x]
<1> DEFINE N == Len(s)
           ss == [n \in DOMAIN s |-> g[s[n]]]
           tt == [n \in DOMAIN Append(s, x) |-> g[Append(s, x)[n]]]
<1>1. /\ N \in Nat /\ DOMAIN s = 1..N /\ \A n \in 1..N : s[n] \in S
      /\ Append(s, x) \in Seq(S) /\ Len(Append(s, x)) = N + 1
      /\ \A n \in 1..N : Append(s, x)[n] = s[n]
      /\ Append(s, x)[N + 1] = x
  BY LenProperties, ElementOfSeq, AppendProperties
<1>2. DOMAIN Append(s, x) = 1..(N + 1)
  BY <1>1, LenProperties
<1>3. Longer(tt, ss, N, T)
  BY <1>1, <1>2 DEF Longer, Collects
<1>4. tt[N + 1] = g[x]
  BY <1>1, <1>2
<1>5. Collected(Append(s, x), g) = FlattenSeq(tt) /\ Collected(s, g) = FlattenSeq(ss)
  BY DEF Collected
<1> HIDE DEF tt, ss, N
<1>6. FlattenSeq(ss) \in Seq(T) /\ FlattenSeq(tt) = FlattenSeq(ss) \o tt[N + 1]
  BY <1>1, <1>3, FlattenNext, ZenonT(40)
<1>7. QED BY <1>4, <1>5, <1>6

\* What is collected from a concatenation.
LEMMA CollectedConcat ==
  ASSUME NEW S, NEW T, NEW g, Collects(g, S, T), NEW s \in Seq(S), NEW t \in Seq(S)
  PROVE  Collected(s \o t, g) = Collected(s, g) \o Collected(t, g)
<1> DEFINE A == {r \in Seq(S) : Collected(s \o r, g) = Collected(s, g) \o Collected(r, g)}
<1>1. \A r \in Seq(S) : Collected(r, g) \in Seq(T)
  <2>1. SUFFICES ASSUME NEW r \in Seq(S) PROVE Collected(r, g) \in Seq(T)
    OBVIOUS
  <2>2. CASE r = <<>>
    BY <2>2, CollectedEmpty, EmptySeq
  <2>3. CASE r # <<>>
    <3>1. PICK q \in Seq(S), x \in S : r = Append(q, x)
      BY <2>3, SequenceEmptyOrAppend
    <3>2. QED BY <3>1, CollectedAppend
  <2>4. QED BY <2>2, <2>3
<1>2. <<>> \in A
  <2>1. s \o <<>> = s /\ Collected(<<>>, g) = <<>> /\ <<>> \in Seq(S)
    BY CollectedEmpty, ConcatEmptySeq, EmptySeq
  <2>2. Collected(s, g) \o <<>> = Collected(s, g)
    BY <1>1, ConcatEmptySeq
  <2>3. QED BY <2>1, <2>2
<1>3. ASSUME NEW r \in Seq(S), r \in A, NEW x \in S PROVE Append(r, x) \in A
  <2>1. Append(r, x) = r \o <<x>> /\ Append(r, x) \in Seq(S) /\ <<x>> \in Seq(S)
    BY AppendIsConcat, AppendProperties
  <2>2. s \o r \in Seq(S)
    BY ConcatProperties
  <2>3. s \o Append(r, x) = Append(s \o r, x)
    <3>1. s \o (r \o <<x>>) = (s \o r) \o <<x>>
      BY <2>1, ConcatAssociative
    <3>2. Append(s \o r, x) = (s \o r) \o <<x>>
      BY <2>2, AppendIsConcat, Zenon
    <3>3. QED BY <2>1, <3>1, <3>2, Zenon
  <2>4. Collected(s \o Append(r, x), g) = Collected(s \o r, g) \o g[x]
    <3>1. Collected(Append(s \o r, x), g) = Collected(s \o r, g) \o g[x]
      <4>1. \A q \in Seq(S) : Collected(Append(q, x), g) = Collected(q, g) \o g[x]
        BY CollectedAppend
      <4>2. QED BY <2>2, <4>1, Zenon
    <3>2. QED BY <2>3, <3>1, Zenon
  <2>5. Collected(Append(r, x), g) = Collected(r, g) \o g[x]
    BY CollectedAppend
  <2>6. (Collected(s, g) \o Collected(r, g)) \o g[x] = Collected(s, g) \o (Collected(r, g) \o g[x])
    <3>1. Collected(s, g) \in Seq(T) /\ Collected(r, g) \in Seq(T) /\ g[x] \in Seq(T)
      BY <1>1 DEF Collects
    <3>2. \A a, b, c \in Seq(T) : (a \o b) \o c = a \o (b \o c)
      BY ConcatAssociative, SMTT(30)
    <3>3. QED BY <3>1, <3>2, Zenon
  <2>7. QED BY <1>3, <2>1, <2>4, <2>5, <2>6
<1> HIDE DEF A
<1>4. Seq(S) \subseteq A
  BY <1>2, <1>3, SequenceInduction
<1>5. QED BY <1>4 DEF A

\* What is collected is a list, of what is collected from each element.
LEMMA CollectedElements ==
  ASSUME NEW S, NEW T, NEW g, Collects(g, S, T), NEW s \in Seq(S)
  PROVE  /\ Collected(s, g) \in Seq(T)
         /\ ToSet(Collected(s, g)) = UNION {ToSet(g[x]) : x \in ToSet(s)}
<1> DEFINE ss == [n \in DOMAIN s |-> g[s[n]]]
<1>1. Len(s) \in Nat /\ DOMAIN s = 1..Len(s) /\ \A n \in DOMAIN s : s[n] \in S
  BY LenProperties, ElementOfSeq
<1>2. ss \in [1..Len(s) -> Seq(T)]
  BY <1>1 DEF Collects
<1>3. Collected(s, g) = FlattenSeq(ss)
  BY DEF Collected
<1>4. FlattenSeq(ss) \in Seq(T) /\ ToSet(FlattenSeq(ss)) = UNION {ToSet(ss[n]) : n \in 1..Len(s)}
  <2> HIDE DEF ss
  <2>1. QED BY <1>1, <1>2, FlattenUnion
<1>5. {ToSet(ss[n]) : n \in 1..Len(s)} = {ToSet(g[x]) : x \in ToSet(s)}
  <2>1. ToSet(s) = {s[n] : n \in 1..Len(s)}
    BY <1>1 DEF ToSet
  <2>2. \A n \in 1..Len(s) : ss[n] = g[s[n]]
    BY <1>1
  <2> HIDE DEF ss
  <2>3. QED BY <2>1, <2>2
<1> HIDE DEF ss
<1>6. QED BY <1>3, <1>4, <1>5

\* What is collected from a concatenation of several lists.
LEMMA CollectedFlatten ==
  ASSUME NEW S, NEW T, NEW g, Collects(g, S, T), NEW ss \in Seq(Seq(S))
  PROVE  Collected(FlattenSeq(ss), g) = FlattenSeq([n \in DOMAIN ss |-> Collected(ss[n], g)])
<1> DEFINE G == [s \in Seq(S) |-> Collected(s, g)]
           A == {rr \in Seq(Seq(S)) : Collected(FlattenSeq(rr), g) = Collected(rr, G)}
<1>1. Collects(G, Seq(S), T)
  BY CollectedElements DEF Collects
<1>2. <<>> \in A
  <2>1. FlattenSeq(<<>>) = <<>>
    BY DEF FlattenSeq
  <2>2. <<>> \in Seq(Seq(S)) /\ Collected(<<>>, g) = <<>> /\ Collected(<<>>, G) = <<>>
    BY CollectedEmpty, EmptySeq
  <2> HIDE DEF G
  <2>3. QED BY <2>1, <2>2, Zenon
<1>3. ASSUME NEW rr \in Seq(Seq(S)), rr \in A, NEW s \in Seq(S) PROVE Append(rr, s) \in A
  <2>1. FlattenSeq(Append(rr, s)) = FlattenSeq(rr) \o s /\ FlattenSeq(rr) \in Seq(S)
    BY FlattenAppend, FlattenType
  <2>2. Collected(FlattenSeq(rr) \o s, g) = Collected(FlattenSeq(rr), g) \o Collected(s, g)
    BY <2>1, CollectedConcat
  <2>3. G[s] = Collected(s, g)
    OBVIOUS
  <2> HIDE DEF G
  <2>4. Collected(Append(rr, s), G) = Collected(rr, G) \o G[s]
    BY <1>1, CollectedAppend
  <2>5. Append(rr, s) \in Seq(Seq(S))
    BY AppendProperties
  <2>6. QED BY <1>3, <2>1, <2>2, <2>3, <2>4, <2>5
<1> HIDE DEF A
<1>4. Seq(Seq(S)) \subseteq A
  BY <1>2, <1>3, SequenceInduction
<1>5. Collected(ss, G) = FlattenSeq([n \in DOMAIN ss |-> G[ss[n]]])
  BY DEF Collected
<1>6. \A n \in DOMAIN ss : G[ss[n]] = Collected(ss[n], g)
  BY LenProperties, ElementOfSeq
<1>7. [n \in DOMAIN ss |-> G[ss[n]]] = [n \in DOMAIN ss |-> Collected(ss[n], g)]
  BY <1>6
<1> HIDE DEF G
<1>8. Collected(FlattenSeq(ss), g) = Collected(ss, G)
  BY <1>4 DEF A
<1>9. QED BY <1>5, <1>7, <1>8

\* Nothing is collected where no element gives anything.
LEMMA CollectedNone ==
  ASSUME NEW S, NEW T, NEW g, Collects(g, S, T), NEW s \in Seq(S),
         \A x \in ToSet(s) : g[x] = <<>>
  PROVE  Collected(s, g) = <<>>
<1> DEFINE A == {r \in Seq(S) : (\A x \in ToSet(r) : g[x] = <<>>) => Collected(r, g) = <<>>}
<1>1. <<>> \in A
  <2>1. Collected(<<>>, g) = <<>> /\ <<>> \in Seq(S)
    BY CollectedEmpty, EmptySeq
  <2>2. QED BY <2>1, Zenon
<1>2. ASSUME NEW r \in Seq(S), r \in A, NEW x \in S PROVE Append(r, x) \in A
  <2>1. Append(r, x) \in Seq(S) /\ ToSet(Append(r, x)) = ToSet(r) \union {x}
    BY AppendElements
  <2>2. Collected(Append(r, x), g) = Collected(r, g) \o g[x]
    BY CollectedAppend
  <2>3. <<>> \o <<>> = <<>>
    BY ConcatEmptySeq, EmptySeq
  <2>4. QED BY <1>2, <2>1, <2>2, <2>3
<1> HIDE DEF A
<1>3. Seq(S) \subseteq A
  BY <1>1, <1>2, SequenceInduction
<1>4. QED BY <1>3 DEF A

\* What is collected where one element gives something.
LEMMA CollectedOne ==
  ASSUME NEW S, NEW T, NEW g, Collects(g, S, T), NEW s \in Seq(S), NEW k \in DOMAIN s,
         \A n \in DOMAIN s : n # k => g[s[n]] = <<>>
  PROVE  Collected(s, g) = g[s[k]]
<1> DEFINE Only1(r, i) == \A n \in DOMAIN r : n # i => g[r[n]] = <<>>
           A == {r \in Seq(S) : \A i \in DOMAIN r : Only1(r, i) => Collected(r, g) = g[r[i]]}
<1>1. <<>> \in A
  BY EmptySeq
<1>2. ASSUME NEW r \in Seq(S), r \in A, NEW x \in S PROVE Append(r, x) \in A
  <2>1. /\ Append(r, x) \in Seq(S) /\ Len(Append(r, x)) = Len(r) + 1
        /\ \A n \in 1..Len(r) : Append(r, x)[n] = r[n]
        /\ Append(r, x)[Len(r) + 1] = x
    BY AppendProperties
  <2>2. /\ DOMAIN Append(r, x) = 1..(Len(r) + 1)
        /\ DOMAIN r = 1..Len(r) /\ Len(r) \in Nat /\ \A n \in DOMAIN r : r[n] \in S
    BY <2>1, LenProperties, ElementOfSeq
  <2>3. Collected(Append(r, x), g) = Collected(r, g) \o g[x] /\ Collected(r, g) \in Seq(T)
    BY CollectedAppend
  <2>4. ASSUME NEW i \in 1..(Len(r) + 1), Only1(Append(r, x), i)
        PROVE  Collected(Append(r, x), g) = g[Append(r, x)[i]]
    <3>1. CASE i = Len(r) + 1
      <4>1. \A n \in DOMAIN r : g[r[n]] = <<>>
        BY <2>1, <2>2, <2>4, <3>1
      <4>2. \A y \in ToSet(r) : g[y] = <<>>
        BY <4>1 DEF ToSet
      <4>3. Collected(r, g) = <<>>
        BY <4>2, CollectedNone
      <4>4. <<>> \o g[x] = g[x]
        BY ConcatEmptySeq
      <4>5. QED BY <2>1, <2>3, <3>1, <4>3, <4>4
    <3>2. CASE i # Len(r) + 1
      <4>1. i \in DOMAIN r /\ Append(r, x)[i] = r[i]
        BY <2>1, <2>2, <3>2
      <4>2. Only1(r, i)
        BY <2>1, <2>2, <2>4
      <4>3. Len(r) + 1 \in DOMAIN Append(r, x)
        BY <2>2
      <4>4. g[x] = <<>>
        BY <2>1, <2>4, <3>2, <4>3
      <4>5. Collected(r, g) = g[r[i]]
        BY <1>2, <4>1, <4>2
      <4>6. QED BY <2>3, <4>1, <4>4, <4>5, ConcatEmptySeq
    <3>3. QED BY <3>1, <3>2
  <2>5. QED BY <2>1, <2>2, <2>4
<1> HIDE DEF A
<1>3. Seq(S) \subseteq A
  BY <1>1, <1>2, SequenceInduction
<1>4. QED BY <1>3 DEF A

\* No element of a sequence comes after one that relation R bars it from.
Ordered(s, R) == \A m, n \in DOMAIN s : m < n => <<s[m], s[n]>> \notin R

\* Two such sequences, one after the other.
LEMMA OrderedConcat ==
  ASSUME NEW S, NEW R, NEW s \in Seq(S), NEW t \in Seq(S), Ordered(s, R), Ordered(t, R),
         \A x \in ToSet(s), y \in ToSet(t) : <<x, y>> \notin R
  PROVE  Ordered(s \o t, R)
<1>1. /\ s \o t \in Seq(S)
      /\ Len(s \o t) = Len(s) + Len(t)
      /\ \A n \in 1..Len(s) + Len(t) :
           (s \o t)[n] = IF n <= Len(s) THEN s[n] ELSE t[n - Len(s)]
  BY ConcatProperties
<1>2. /\ DOMAIN s = 1..Len(s) /\ Len(s) \in Nat
      /\ DOMAIN t = 1..Len(t) /\ Len(t) \in Nat
      /\ DOMAIN (s \o t) = 1..(Len(s) + Len(t))
  BY <1>1, LenProperties
<1>3. ASSUME NEW m \in DOMAIN (s \o t), NEW n \in DOMAIN (s \o t), m < n
      PROVE  <<(s \o t)[m], (s \o t)[n]>> \notin R
  <2>1. CASE n <= Len(s)
    BY <1>1, <1>2, <1>3, <2>1 DEF Ordered
  <2>2. CASE m > Len(s)
    <3>1. /\ m - Len(s) \in DOMAIN t /\ n - Len(s) \in DOMAIN t /\ m - Len(s) < n - Len(s)
          /\ (s \o t)[m] = t[m - Len(s)] /\ (s \o t)[n] = t[n - Len(s)]
      BY <1>1, <1>2, <1>3, <2>2
    <3>2. QED BY <3>1 DEF Ordered
  <2>3. CASE m <= Len(s) /\ n > Len(s)
    <3>1. /\ m \in DOMAIN s /\ (s \o t)[m] = s[m]
          /\ n - Len(s) \in DOMAIN t /\ (s \o t)[n] = t[n - Len(s)]
      BY <1>1, <1>2, <1>3, <2>3
    <3>2. s[m] \in ToSet(s) /\ t[n - Len(s)] \in ToSet(t)
      BY <3>1, Elements
    <3>3. <<s[m], t[n - Len(s)]>> \notin R
      BY <3>2, Zenon
    <3>4. QED BY <3>1, <3>3, Zenon
  <2>4. n <= Len(s) \/ m > Len(s) \/ (m <= Len(s) /\ n > Len(s))
    BY <1>2
  <2>5. QED BY <2>1, <2>2, <2>3, <2>4, Zenon
<1>4. QED BY <1>3 DEF Ordered

\* Several of them, one after the other.
LEMMA OrderedFlatten ==
  ASSUME NEW S, NEW R, NEW N \in Nat, NEW ss \in [1..N -> Seq(S)],
         \A n \in 1..N : Ordered(ss[n], R),
         \A m, n \in 1..N : m < n => \A x \in ToSet(ss[m]), y \in ToSet(ss[n]) : <<x, y>> \notin R
  PROVE  Ordered(FlattenSeq(ss), R)
<1> DEFINE Good(k) == /\ Ordered(Joined(ss, k), R)
                      /\ \A x \in ToSet(Joined(ss, k)) : \E n \in 1..k : x \in ToSet(ss[n])
           A == {k \in Nat : k <= N => Good(k)}
<1>1. /\ Joined(ss, 0) = <<>>
      /\ \A k \in 0..N : Joined(ss, k) \in Seq(S)
      /\ \A k \in 1..N : Joined(ss, k) = Joined(ss, k - 1) \o ss[k]
      /\ Joined(ss, N) = FlattenSeq(ss)
  BY JoinedSteps
<1>2. 0 \in A
  <2>1. Ordered(<<>>, R) /\ ToSet(<<>>) = {}
    BY DEF Ordered, ToSet
  <2>2. QED BY <1>1, <2>1
<1>3. ASSUME NEW k \in A PROVE k + 1 \in A
  <2>1. SUFFICES ASSUME k + 1 <= N PROVE Good(k + 1)
    <3> HIDE DEF Good
    <3>1. QED OBVIOUS
  <2>2. /\ k + 1 \in 1..N /\ k \in 0..N /\ (k + 1) - 1 = k
        /\ Joined(ss, k + 1) = Joined(ss, k) \o ss[k + 1]
        /\ Joined(ss, k) \in Seq(S) /\ ss[k + 1] \in Seq(S)
    <3>1. k + 1 \in 1..N /\ k \in 0..N /\ (k + 1) - 1 = k
      BY <2>1
    <3> HIDE DEF Good, A
    <3>2. QED BY <1>1, <3>1
  <2>3. Good(k)
    <3> HIDE DEF Good
    <3>1. QED BY <1>3, <2>1
  <2>4. \A x \in ToSet(Joined(ss, k)), y \in ToSet(ss[k + 1]) : <<x, y>> \notin R
    <3>1. \A n \in 1..k : n \in 1..N /\ n < k + 1
      BY <2>2
    <3>2. QED BY <2>2, <2>3, <3>1
  <2>5. Ordered(Joined(ss, k) \o ss[k + 1], R)
    BY <2>2, <2>3, <2>4, OrderedConcat
  <2>6. ToSet(Joined(ss, k) \o ss[k + 1]) = ToSet(Joined(ss, k)) \union ToSet(ss[k + 1])
    BY <2>2, ConcatSet
  <2>7. \A n \in 1..k : n \in 1..(k + 1)
    BY <2>2
  <2>8. k + 1 \in 1..(k + 1)
    BY <2>2
  <2>9. QED BY <2>2, <2>3, <2>5, <2>6, <2>7, <2>8
<1>4. A = Nat
  <2>1. A \in SUBSET Nat
    OBVIOUS
  <2> HIDE DEF A
  <2>2. QED BY <1>2, <1>3, <2>1, Induction
<1>5. N \in A
  BY <1>4
<1>6. QED BY <1>1, <1>5

\* A finite set has a sequence of its members, and so have they all.
LEMMA SetToSeqType ==
  ASSUME NEW S, IsFiniteSet(S)
  PROVE  SetToSeq(S) \in Seq(S) /\ \A o \in SetToSeqs(S) : o \in Seq(S)
<1>1. Cardinality(S) \in Nat /\ \E f : f \in [1..Cardinality(S) -> S] /\ IsInjective(f)
  BY FS_CardinalityType, FS_NatBijection, Zenon DEF ExistsBijection, Bijection, Injection, IsInjective
<1>2. SetToSeq(S) \in [1..Cardinality(S) -> S]
  BY <1>1, Zenon DEF SetToSeq
<1>3. \A o \in SetToSeqs(S) : o \in [1..Cardinality(S) -> S]
  BY DEF SetToSeqs
<1>4. QED BY <1>1, <1>2, <1>3, SeqDef

\* The members of no set, and those of a set and one more.
LEMMA SetToSeqsAppend ==
  /\ <<>> \in SetToSeqs({})
  /\ \A S : IsFiniteSet(S) =>
       \A o \in SetToSeqs(S) : \A x : x \notin S => Append(o, x) \in SetToSeqs(S \union {x})
<1>1. <<>> \in SetToSeqs({})
  <2>1. Cardinality({}) = 0
    BY FS_EmptySet
  <2>2. QED BY <2>1 DEF SetToSeqs
<1>2. ASSUME NEW S, IsFiniteSet(S), NEW o \in SetToSeqs(S), NEW x, x \notin S
      PROVE  Append(o, x) \in SetToSeqs(S \union {x})
  <2> DEFINE N == Cardinality(S)
             p == Append(o, x)
  <2>1. N \in Nat /\ Cardinality(S \union {x}) = N + 1
    BY <1>2, FS_CardinalityType, FS_AddElement
  <2> HIDE DEF N
  <2>2. o \in [1..N -> S] /\ \A m, n \in 1..N : m # n => o[m] # o[n]
    BY DEF SetToSeqs, N
  <2>3. o \in Seq(S \union {x}) /\ Len(o) = N
    <3>1. o \in [1..N -> S \union {x}]
      BY <2>2
    <3>2. o \in Seq(S \union {x})
      BY <2>1, <3>1, SeqDef
    <3>3. QED BY <2>1, <2>2, <3>2, LenProperties
  <2>4. /\ p \in Seq(S \union {x}) /\ Len(p) = N + 1
        /\ \A n \in 1..N : p[n] = o[n]
        /\ p[N + 1] = x
    BY <2>3, AppendProperties
  <2> HIDE DEF p
  <2>5. p \in [1..(N + 1) -> S \union {x}]
    BY <2>4, LenProperties
  <2>6. ASSUME NEW m \in 1..(N + 1), NEW n \in 1..(N + 1), m # n PROVE p[m] # p[n]
    <3>1. (m \in 1..N \/ m = N + 1) /\ (n \in 1..N \/ n = N + 1)
      BY <2>1
    <3>2. \A k \in 1..N : p[k] = o[k] /\ p[k] \in S
      BY <2>2, <2>4
    <3>3. QED BY <1>2, <2>2, <2>4, <2>6, <3>1, <3>2
  <2>7. QED BY <2>1, <2>5, <2>6 DEF SetToSeqs, p
<1>3. QED BY <1>1, <1>2

\* A table that comes after all others in the order of the names.
LEMMA SortedAppend ==
  /\ <<>> \in Sorted({})
  /\ \A S \in SUBSET Tables : \A order \in Sorted(S), t \in Tables :
       (t \notin S /\ \A n \in DOMAIN order : Rank[order[n]] < Rank[t])
         => Append(order, t) \in Sorted(S \union {t})
<1>1. <<>> \in Sorted({})
  <2>1. <<>> \in SetToSeqs({})
    BY SetToSeqsAppend
  <2>2. QED BY <2>1 DEF Sorted
<1>2. ASSUME NEW S \in SUBSET Tables, NEW order \in Sorted(S), NEW t \in Tables, t \notin S,
             \A n \in DOMAIN order : Rank[order[n]] < Rank[t]
      PROVE  Append(order, t) \in Sorted(S \union {t})
  <2> DEFINE p == Append(order, t)
             N == Len(order)
  <2>1. IsFiniteSet(S)
    BY TablesAssumption, FS_Subset
  <2>2. order \in SetToSeqs(S) /\ \A m, n \in DOMAIN order : m < n => Rank[order[m]] < Rank[order[n]]
    BY DEF Sorted
  <2>3. p \in SetToSeqs(S \union {t})
    BY <1>2, <2>1, <2>2, SetToSeqsAppend
  <2>4. order \in Seq(Tables) /\ DOMAIN order = 1..N /\ N \in Nat
    <3>1. order \in Seq(S)
      BY <2>1, <2>2, SetToSeqType
    <3>2. order \in Seq(Tables)
      BY <3>1, SeqMonotonic
    <3>3. QED BY <3>2, LenProperties
  <2>5. /\ DOMAIN p = 1..(N + 1)
        /\ \A n \in 1..N : p[n] = order[n]
        /\ p[N + 1] = t
    BY <2>4, AppendProperties, LenProperties
  <2> HIDE DEF p, N
  <2>6. ASSUME NEW m \in 1..(N + 1), NEW n \in 1..(N + 1), m < n PROVE Rank[p[m]] < Rank[p[n]]
    <3>1. m \in 1..N /\ (n \in 1..N \/ n = N + 1)
      BY <2>4, <2>6
    <3>2. QED BY <1>2, <2>2, <2>4, <2>5, <2>6, <3>1
  <2>7. QED BY <2>3, <2>5, <2>6 DEF Sorted, p
<1>3. QED BY <1>1, <1>2

-----------------------------------------------------------------------------
(* What Diff plans.                                                        *)

\* What a statement of a plan is about: a table the source declares, or any table when it
\* declares none; a column is added or changed to a declared field, and one that goes is
\* declared under neither of its names.
IsPlanned(c, source, tables, pkModifier) ==
  \/ c.op = "dropTable" /\ DOMAIN source = {}
  \/ c.op \in {"dropIndex", "createIndex"} /\ c.table \in DOMAIN source /\ c.index.table = c.table
  \/ c.op = "modifyPrimaryKey" /\ c.table \in DOMAIN source /\ pkModifier
  \/ \E t \in DOMAIN source : c = CreateTable(t, source[t])
  \/ \E t \in DOMAIN source : \E f \in ToSet(source[t]) : c = AddColumn(f)
  \/ \E t \in DOMAIN source \intersect DOMAIN tables :
       \E o \in ToSet(tables[t]) : c = DropColumn(o) /\ IsDropped(source[t], o)
  \/ \E t \in DOMAIN source \intersect DOMAIN tables :
       \E o \in ToSet(tables[t]), f \in ToSet(source[t]) :
         c = ModifyColumn(o, f) /\ OldField(tables[t], f) = {o}

Plans(source, tables, pkModifier) == {c \in Change : IsPlanned(c, source, tables, pkModifier)}

\* The fields of a table of a schema.
LEMMA SchemaFields ==
  ASSUME NEW s, IsSchema(s), NEW t \in DOMAIN s
  PROVE  /\ t \in Tables
         /\ s[t] \in Seq(Field)
         /\ \A f \in ToSet(s[t]) : f \in Field /\ f.table = t
         /\ \A n \in DOMAIN s[t] : s[t][n] \in ToSet(s[t])
<1>1. t \in Tables /\ s[t] \in Seq(Field) /\ \A n \in DOMAIN s[t] : s[t][n].table = t
  BY DEF IsSchema
<1>2. \A n \in DOMAIN s[t] : s[t][n] \in Field
  BY <1>1, FieldsOf
<1>3. QED BY <1>1, <1>2 DEF ToSet

\* The column changes of a table are planned.
LEMMA AlterColumnsPlanned ==
  ASSUME NEW source, NEW tables, IsSchema(source), IsSchema(tables),
         NEW t \in DOMAIN source \intersect DOMAIN tables, NEW pkModifier
  PROVE  AlterColumns(tables[t], source[t]) \in Seq(Plans(source, tables, pkModifier))
<1> DEFINE old == tables[t]
           new == source[t]
           P   == Plans(source, tables, pkModifier)
           ns  == [n \in DOMAIN new |-> AlterNew(old, new[n])]
           os  == [m \in DOMAIN old |-> AlterOld(new, old[m])]
<1>1. old \in Seq(Field) /\ new \in Seq(Field)
  BY SchemaFields
<1>2. /\ DOMAIN old = 1..Len(old) /\ Len(old) \in Nat
      /\ DOMAIN new = 1..Len(new) /\ Len(new) \in Nat
      /\ \A m \in DOMAIN old : old[m] \in Field /\ old[m] \in ToSet(old)
      /\ \A n \in DOMAIN new : new[n] \in Field /\ new[n] \in ToSet(new)
  BY <1>1, FieldsOf DEF ToSet
<1>3. <<>> \in Seq(P) /\ \A c \in P : <<c>> \in Seq(P)
  BY EmptySeq
<1>4. ASSUME NEW n \in DOMAIN new PROVE AlterNew(old, new[n]) \in Seq(P)
  <2>1. CASE OldField(old, new[n]) = {}
    <3>1. AddColumn(new[n]) \in P
      BY <1>2, ChangeTypes DEF Plans, IsPlanned
    <3>2. QED BY <2>1, <3>1, <1>3 DEF AlterNew
  <2>2. CASE OldField(old, new[n]) # {}
    <3>1. PICK m \in DOMAIN old : OldField(old, new[n]) = {old[m]}
      BY <1>1, <1>2, <2>2, OldFieldIsOld
    <3>2. (CHOOSE o \in OldField(old, new[n]) : TRUE) = old[m]
      BY <3>1
    <3>3. ModifyColumn(old[m], new[n]) \in P
      BY <1>2, <3>1, ChangeTypes DEF Plans, IsPlanned
    <3> HIDE DEF P
    <3>4. QED BY <2>2, <3>2, <3>3, <1>3 DEF AlterNew
  <2>3. QED BY <2>1, <2>2
<1>5. ASSUME NEW m \in DOMAIN old PROVE AlterOld(new, old[m]) \in Seq(P)
  <2>1. CASE IsDropped(new, old[m])
    <3>1. DropColumn(old[m]) \in P
      BY <1>2, <2>1, ChangeTypes DEF Plans, IsPlanned
    <3>2. QED BY <2>1, <3>1, <1>3 DEF AlterOld
  <2>2. QED BY <2>1, <1>3 DEF AlterOld
<1> HIDE DEF P, old, new
<1>6. FlattenSeq(ns) \in Seq(P)
  <2>1. /\ DOMAIN ns = 1..Len(new)
        /\ ns = [n \in 1..Len(new) |-> ns[n]]
        /\ \A n \in 1..Len(new) : ns[n] \in Seq(P)
    BY <1>2, <1>4
  <2> HIDE DEF ns
  <2>2. QED BY <1>2, <2>1, FlattenMap
<1>7. FlattenSeq(os) \in Seq(P)
  <2>1. /\ DOMAIN os = 1..Len(old)
        /\ os = [m \in 1..Len(old) |-> os[m]]
        /\ \A m \in 1..Len(old) : os[m] \in Seq(P)
    BY <1>2, <1>5
  <2> HIDE DEF os
  <2>2. QED BY <1>2, <2>1, FlattenMap
<1>8. QED BY <1>6, <1>7, ConcatProperties DEF AlterColumns, old, new, P

\* The indexes of one table.
IndexesOf(t) == {x \in Index : x.table = t}

\* A visit adds an index of its table.
LEMMA AddToIndexesOf ==
  ASSUME NEW t \in Tables, NEW xs \in Seq(IndexesOf(t)), NEW v \in Visit
  PROVE  AddToIndexes(xs, t, v) \in Seq(IndexesOf(t))
<1> DEFINE ys == AddToIndexes(xs, t, v)
<1>1. xs \in Seq(Index)
  <2>1. xs \in [1..Len(xs) -> IndexesOf(t)] /\ Len(xs) \in Nat
    BY LenProperties, SeqDef
  <2>2. xs \in [1..Len(xs) -> Index]
    BY <2>1 DEF IndexesOf
  <2>3. QED BY <2>1, <2>2, SeqDef
<1>2. /\ ys \in Seq(Index)
      /\ \A n \in DOMAIN ys : \/ \E m \in DOMAIN xs : ys[n] = xs[m]
                              \/ \E m \in DOMAIN xs : xs[m].name = v.name /\ ys[n] = Extended(xs[m], v)
                              \/ ys[n] = Started(t, v)
  BY <1>1, AddToIndexesType
<1>3. \A m \in DOMAIN xs : xs[m] \in Index /\ xs[m].table = t
  BY LenProperties, ElementOfSeq DEF IndexesOf
<1>4. \A m \in DOMAIN xs : Extended(xs[m], v).table = t
  BY <1>3 DEF Extended, Index
<1>5. Started(t, v).table = t
  BY DEF Started
<1> HIDE DEF ys
<1>6. DOMAIN ys = 1..Len(ys) /\ Len(ys) \in Nat /\ \A n \in 1..Len(ys) : ys[n] \in Index
  BY <1>2, LenProperties, ElementOfSeq
<1>7. \A n \in 1..Len(ys) : ys[n] \in IndexesOf(t)
  BY <1>2, <1>3, <1>4, <1>5, <1>6 DEF IndexesOf
<1>8. ys = [n \in 1..Len(ys) |-> ys[n]]
  BY <1>2, SeqDef, <1>6
<1>9. ys \in [1..Len(ys) -> IndexesOf(t)]
  BY <1>7, <1>8
<1>10. QED BY <1>6, <1>9, SeqDef DEF ys

\* What a visit adds to the indexes gathered so far.
GatherNext(t, xs, v, add) == IF v.add = add /\ ~v.kept THEN AddToIndexes(xs, t, v) ELSE xs

\* Gather is the last of the lists it is defined by.
LEMMA GatherSteps ==
  ASSUME NEW t \in Tables, NEW vs \in Seq(Visit), NEW add \in BOOLEAN
  PROVE  \E g \in [0..Len(vs) -> Seq(IndexesOf(t))] :
           /\ g[0] = <<>>
           /\ \A n \in 1..Len(vs) : g[n] = GatherNext(t, g[n - 1], vs[n], add)
           /\ Gather(t, vs, add) = g[Len(vs)]
<1> DEFINE N      == Len(vs)
           T      == Seq(IndexesOf(t))
           Next(xs, n) == IF vs[n].add = add /\ ~vs[n].kept THEN AddToIndexes(xs, t, vs[n]) ELSE xs
           Step(f) == [n \in 0..N |->
                         IF n = 0 THEN <<>>
                         ELSE IF vs[n].add = add /\ ~vs[n].kept
                                THEN AddToIndexes(f[n - 1], t, vs[n])
                                ELSE f[n - 1]]
           g      == CHOOSE f : f = Step(f)
<1>2. N \in Nat /\ DOMAIN vs = 1..N /\ \A n \in 1..N : vs[n] \in Visit
  BY LenProperties, ElementOfSeq
<1> HIDE DEF N
<1>3. <<>> \in T
  BY EmptySeq
<1>4. ASSUME NEW xs \in T, NEW n \in 1..N PROVE Next(xs, n) \in T
  BY <1>2, AddToIndexesOf
<1>5. \E f : f = Step(f)
  <2> DEFINE step == [p \in T \X Nat |-> IF p[2] \in 1..N THEN Next(p[1], p[2]) ELSE p[1]]
  <2>1. step \in [T \X Nat -> T]
    <3> HIDE DEF T, Next
    <3>1. QED BY <1>4
  <2>2. PICK f : Iterates(f, T, <<>>, step, N)
    <3> HIDE DEF step, T
    <3>1. QED BY <1>2, <1>3, <2>1, RecursionExists, Zenon
  <2>3. ASSUME NEW n \in 1..N PROVE f[n] = Next(f[n - 1], n)
    <3>1. n - 1 \in 0..N /\ n \in Nat
      BY <1>2
    <3>2. f[n - 1] \in T /\ f[n] = step[<<f[n - 1], n>>]
      <4> HIDE DEF step, T
      <4>1. QED BY <2>2, <3>1, Zenon DEF Iterates
    <3> HIDE DEF T, Next
    <3>3. step[<<f[n - 1], n>>] = Next(f[n - 1], n)
      BY <3>1, <3>2
    <3>4. QED BY <3>2, <3>3
  <2>4. f[0] = <<>> /\ f = [n \in 0..N |-> f[n]]
    <3> HIDE DEF step, T
    <3>1. QED BY <2>2 DEF Iterates
  <2>5. \A n \in 0..N : n # 0 => n \in 1..N
    BY <1>2
  <2>6. f = Step(f)
    BY <2>3, <2>4, <2>5
  <2>7. QED BY <2>6
<1>6. g = Step(g)
  <2> HIDE DEF Step
  <2>1. QED BY <1>5
<1> HIDE DEF g
<1>7. g[0] = <<>> /\ \A n \in 1..N : g[n] = Next(g[n - 1], n)
  <2>1. 0 \in 0..N /\ \A n \in 1..N : n \in 0..N /\ n # 0
    BY <1>2
  <2>2. QED BY <1>6, <2>1
<1>8. \A n \in 0..N : g[n] \in T
  <2> DEFINE P == {n \in Nat : n \in 0..N => g[n] \in T}
  <2>1. 0 \in P
    BY <1>3, <1>7
  <2>2. ASSUME NEW n \in P PROVE n + 1 \in P
    <3>1. SUFFICES ASSUME n + 1 \in 0..N PROVE g[n + 1] \in T
      OBVIOUS
    <3>2. n \in 0..N /\ n + 1 \in 1..N /\ (n + 1) - 1 = n
      BY <1>2, <3>1
    <3> HIDE DEF T, Next
    <3>3. g[n] \in T /\ g[n + 1] = Next(g[n], n + 1)
      BY <1>7, <2>2, <3>2
    <3>4. QED BY <1>4, <3>2, <3>3
  <2>3. P \in SUBSET Nat
    OBVIOUS
  <2> HIDE DEF P
  <2>4. P = Nat
    BY <2>1, <2>2, <2>3, Induction
  <2>5. QED BY <2>4 DEF P
<1>9. Gather(t, vs, add) = g[N]
  BY Zenon DEF Gather, g, N
<1>10. g \in [0..N -> T] /\ \A n \in 1..N : g[n] = GatherNext(t, g[n - 1], vs[n], add)
  <2>1. DOMAIN g = 0..N /\ g = [n \in 0..N |-> g[n]]
    BY <1>6
  <2>2. g \in [0..N -> T]
    BY <1>8, <2>1
  <2>3. QED BY <1>7, <2>2 DEF GatherNext
<1>11. QED BY <1>7, <1>9, <1>10 DEF N

\* The visits of a table.
LEMMA VisitsOfTable ==
  ASSUME NEW old \in Seq(Field), NEW new \in Seq(Field), NEW k \in 0..Len(new)
  PROVE  /\ FlattenSeq([n \in 1..k |-> IndexVisits(old, new[n])]) \in Seq(Visit)
         /\ \A n \in 1..Len(new) : IndexVisits(old, new[n]) \in Seq(Visit)
<1> DEFINE ss == [n \in 1..k |-> IndexVisits(old, new[n])]
<1>1. DOMAIN new = 1..Len(new) /\ Len(new) \in Nat /\ \A n \in DOMAIN new : new[n] \in Field
  BY FieldsOf
<1>2. \A n \in 1..Len(new) : IndexVisits(old, new[n]) \in Seq(Visit)
  BY <1>1, IndexVisitsType
<1>3. /\ DOMAIN ss = 1..k
      /\ ss = [n \in 1..k |-> ss[n]]
      /\ \A n \in 1..k : ss[n] \in Seq(Visit)
      /\ k \in Nat
  BY <1>1, <1>2
<1> HIDE DEF ss
<1>4. FlattenSeq(ss) \in Seq(Visit)
  BY <1>3, FlattenMap
<1>5. QED BY <1>2, <1>4 DEF ss

\* The indexes gathered for a table are indexes of that table.
LEMMA GatheredType ==
  ASSUME NEW t \in Tables, NEW old \in Seq(Field), NEW new \in Seq(Field), NEW add \in BOOLEAN
  PROVE  Gathered(t, old, new, add) \in Seq(IndexesOf(t))
<1> DEFINE vs == FlattenSeq([n \in DOMAIN new |-> IndexVisits(old, new[n])])
<1>1. vs \in Seq(Visit)
  <2>1. DOMAIN new = 1..Len(new) /\ Len(new) \in 0..Len(new)
    BY FieldsOf
  <2>2. QED BY <2>1, VisitsOfTable
<1> HIDE DEF vs
<1>2. PICK g \in [0..Len(vs) -> Seq(IndexesOf(t))] : Gather(t, vs, add) = g[Len(vs)]
  BY <1>1, GatherSteps
<1>3. Len(vs) \in 0..Len(vs)
  BY <1>1, LenProperties
<1>4. QED BY <1>2, <1>3 DEF Gathered, vs

\* No visit, no index; a visit more is one step of makeIndexes.
LEMMA GatherAppend ==
  ASSUME NEW t \in Tables, NEW add \in BOOLEAN
  PROVE  /\ Gather(t, <<>>, add) = <<>>
         /\ \A vs \in Seq(Visit), v \in Visit :
              Gather(t, Append(vs, v), add) = GatherNext(t, Gather(t, vs, add), v, add)
<1>1. Gather(t, <<>>, add) = <<>>
  <2> DEFINE none == <<>>
  <2>1. none \in Seq(Visit) /\ Len(none) = 0
    BY EmptySeq
  <2> HIDE DEF none
  <2>2. PICK g \in [0..Len(none) -> Seq(IndexesOf(t))] :
          /\ g[0] = <<>>
          /\ \A n \in 1..Len(none) : g[n] = GatherNext(t, g[n - 1], none[n], add)
          /\ Gather(t, none, add) = g[Len(none)]
    BY <2>1, GatherSteps, ZenonT(60)
  <2>3. Gather(t, none, add) = <<>>
    BY <2>1, <2>2
  <2>4. QED BY <2>3 DEF none
<1>2. ASSUME NEW vs \in Seq(Visit), NEW v \in Visit
      PROVE  Gather(t, Append(vs, v), add) = GatherNext(t, Gather(t, vs, add), v, add)
  <2> DEFINE N  == Len(vs)
             ws == Append(vs, v)
  <2>1. /\ ws \in Seq(Visit) /\ Len(ws) = N + 1 /\ N \in Nat
        /\ ws[N + 1] = v
        /\ \A n \in 1..N : ws[n] = vs[n]
    BY AppendProperties, LenProperties
  <2> HIDE DEF ws
  <2>2. PICK g \in [0..N -> Seq(IndexesOf(t))] :
          /\ g[0] = <<>>
          /\ \A n \in 1..N : g[n] = GatherNext(t, g[n - 1], vs[n], add)
          /\ Gather(t, vs, add) = g[N]
    BY GatherSteps
  <2>3. PICK h \in [0..Len(ws) -> Seq(IndexesOf(t))] :
          /\ h[0] = <<>>
          /\ \A n \in 1..Len(ws) : h[n] = GatherNext(t, h[n - 1], ws[n], add)
          /\ Gather(t, ws, add) = h[Len(ws)]
    BY <2>1, GatherSteps
  <2> HIDE DEF N
  <2> DEFINE S == {n \in Nat : n \in 0..N => h[n] = g[n]}
  <2>4. 0 \in S
    BY <2>2, <2>3
  <2>5. ASSUME NEW n \in S PROVE n + 1 \in S
    <3>1. SUFFICES ASSUME n + 1 \in 0..N PROVE h[n + 1] = g[n + 1]
      OBVIOUS
    <3>2. n \in 0..N /\ n + 1 \in 1..N /\ n + 1 \in 1..Len(ws) /\ (n + 1) - 1 = n
      BY <2>1, <3>1
    <3>3. /\ g[n + 1] = GatherNext(t, g[n], vs[n + 1], add)
          /\ h[n + 1] = GatherNext(t, h[n], ws[n + 1], add)
      BY <2>2, <2>3, <3>2
    <3>4. QED BY <2>1, <2>5, <3>2, <3>3
  <2>6. S = Nat
    <3>1. S \in SUBSET Nat
      OBVIOUS
    <3> HIDE DEF S
    <3>2. QED BY <2>4, <2>5, <3>1, Induction
  <2>7. h[N] = g[N] /\ h[N + 1] = GatherNext(t, h[N], v, add)
    <3>1. N \in S /\ N \in 0..N /\ N + 1 \in 1..Len(ws) /\ (N + 1) - 1 = N
      BY <2>1, <2>6
    <3>2. QED BY <2>1, <2>3, <3>1
  <2>8. QED BY <2>1, <2>2, <2>3, <2>7 DEF ws
<1>3. QED BY <1>1, <1>2

\* The statements for one declared table are planned.
LEMMA TableChangesPlanned ==
  ASSUME NEW source, NEW tables, IsSchema(source), IsSchema(tables),
         NEW t \in DOMAIN source, NEW dropped, NEW pkModifier
  PROVE  TableChanges(t, OldOf(tables, t), source[t], t \in DOMAIN tables, dropped, pkModifier)
           \in Seq(Plans(source, tables, pkModifier))
<1> DEFINE old   == OldOf(tables, t)
           new   == source[t]
           P     == Plans(source, tables, pkModifier)
           drops == Gathered(t, old, new, FALSE)
           adds  == Gathered(t, old, new, TRUE)
           ds    == [n \in DOMAIN drops |->
                       IF drops[n].columns[1] \in dropped THEN <<>> ELSE <<DropIndex(drops[n])>>]
           as    == [n \in DOMAIN adds |-> CreateIndex(adds[n])]
           pk    == IF pkModifier /\ PkChanged(old, new)
                      THEN <<ModifyPrimaryKey(t, old, new)>> ELSE <<>>
           first == IF t \in DOMAIN tables THEN AlterColumns(old, new) \o pk
                    ELSE <<CreateTable(t, new)>>
<1>1. t \in Tables /\ new \in Seq(Field) /\ old \in Seq(Field)
  BY SchemaFields, EmptySeq DEF OldOf
<1>2. <<>> \in Seq(P) /\ \A c \in P : <<c>> \in Seq(P)
  BY EmptySeq
<1>3. ASSUME NEW x \in IndexesOf(t) PROVE DropIndex(x) \in P /\ CreateIndex(x) \in P
  <2>1. x \in Index /\ x.table = t
    BY DEF IndexesOf
  <2>2. DropIndex(x) \in Change /\ CreateIndex(x) \in Change
    BY <2>1, ChangeTypes
  <2>3. /\ DropIndex(x).op = "dropIndex" /\ DropIndex(x).table = t
        /\ CreateIndex(x).op = "createIndex" /\ CreateIndex(x).table = t
        /\ DropIndex(x).index.table = t /\ CreateIndex(x).index.table = t
    BY <2>1 DEF DropIndex, CreateIndex
  <2>4. QED BY <2>2, <2>3 DEF Plans, IsPlanned
<1>4. drops \in Seq(IndexesOf(t)) /\ adds \in Seq(IndexesOf(t))
  BY <1>1, GatheredType
<1>5. /\ DOMAIN drops = 1..Len(drops) /\ Len(drops) \in Nat
      /\ DOMAIN adds = 1..Len(adds) /\ Len(adds) \in Nat
      /\ \A n \in DOMAIN drops : drops[n] \in IndexesOf(t)
      /\ \A n \in DOMAIN adds : adds[n] \in IndexesOf(t)
  <2> HIDE DEF drops, adds
  <2>1. QED BY <1>4, LenProperties, ElementOfSeq
<1>6. pk \in Seq(P)
  <2>1. CASE pkModifier /\ PkChanged(old, new)
    <3>1. ModifyPrimaryKey(t, old, new) \in Change
      BY <1>1, ChangeTypes
    <3>2. ModifyPrimaryKey(t, old, new) \in P
      BY <2>1, <3>1 DEF Plans, IsPlanned, ModifyPrimaryKey
    <3>3. QED BY <2>1, <3>2, <1>2
  <2>2. QED BY <2>1, <1>2
<1>7. first \in Seq(P)
  <2>1. CASE t \in DOMAIN tables
    <3>1. AlterColumns(old, new) \in Seq(P)
      BY <2>1, AlterColumnsPlanned DEF OldOf
    <3> HIDE DEF pk, P
    <3>2. QED BY <1>6, <2>1, <3>1, ConcatProperties
  <2>2. CASE t \notin DOMAIN tables
    <3>1. CreateTable(t, new) \in P
      BY <1>1, ChangeTypes DEF Plans, IsPlanned
    <3>2. QED BY <2>2, <3>1, <1>2
  <2>3. QED BY <2>1, <2>2
<1> HIDE DEF P
<1>8. FlattenSeq(ds) \in Seq(P)
  <2>1. /\ DOMAIN ds = 1..Len(drops)
        /\ ds = [n \in 1..Len(drops) |-> ds[n]]
        /\ \A n \in 1..Len(drops) : ds[n] \in Seq(P)
    BY <1>2, <1>3, <1>5
  <2> HIDE DEF ds, drops
  <2>2. QED BY <1>5, <2>1, FlattenMap
<1>9. as \in Seq(P)
  <2>1. as \in [1..Len(adds) -> P] /\ Len(adds) \in Nat
    BY <1>3, <1>5
  <2> HIDE DEF as, adds
  <2>2. QED BY <2>1, SeqDef
<1>10. (first \o FlattenSeq(ds)) \o as \in Seq(P)
  <2> HIDE DEF first, ds, as
  <2>1. QED BY <1>7, <1>8, <1>9, ConcatProperties
<1>11. QED BY <1>10 DEF TableChanges, P

\* Tables in some order are a sequence of tables.
LEMMA OrderType ==
  ASSUME NEW S \in SUBSET Tables
  PROVE  /\ \A order \in SetToSeqs(S) : order \in Seq(S)
         /\ \A order \in Sorted(S) : order \in Seq(S)
<1>1. IsFiniteSet(S)
  BY TablesAssumption, FS_Subset
<1>2. QED BY <1>1, SetToSeqType DEF Sorted

\* The columns dropped from the tables of an order.
DroppedBy(order, source, tables) ==
  UNION {DroppedColumns(OldOf(tables, order[m]), source[order[m]]) : m \in DOMAIN order}

\* What a table more at the end of the order adds: its changes come last, and a DROP INDEX is left
\* out for any column dropped so far.
AddsTable(order, t, source, tables, pkModifier) ==
  LET lost    == DroppedColumns(OldOf(tables, t), source[t])
      dropped == DroppedBy(order, source, tables) \union lost
  IN  /\ ChangesInOrder(Append(order, t), source, tables, pkModifier)
           = ChangesInOrder(order, source, tables, pkModifier)
               \o TableChanges(t, OldOf(tables, t), source[t], t \in DOMAIN tables,
                               dropped, pkModifier)
      /\ DroppedBy(Append(order, t), source, tables) = dropped

LEMMA ChangesAppend ==
  ASSUME NEW source, NEW tables, IsSchema(source), IsSchema(tables), NEW pkModifier,
         NEW order \in Seq(DOMAIN source), NEW t \in DOMAIN source
  PROVE  /\ ChangesInOrder(order, source, tables, pkModifier) \in Seq(Plans(source, tables, pkModifier))
         /\ AddsTable(order, t, source, tables, pkModifier)
<1> DEFINE P       == Plans(source, tables, pkModifier)
           N       == Len(order)
           next    == Append(order, t)
           Lost(u) == DroppedColumns(OldOf(tables, u), source[u])
           Dropped(o, n) == UNION {Lost(o[m]) : m \in 1..n}
           Said(u, dropped) == TableChanges(u, OldOf(tables, u), source[u], u \in DOMAIN tables,
                                            dropped, pkModifier)
           ss(o)   == [n \in DOMAIN o |-> Said(o[n], Dropped(o, n))]
<1>1. N \in Nat /\ DOMAIN order = 1..N /\ \A n \in 1..N : order[n] \in DOMAIN source
  BY LenProperties, ElementOfSeq
<1>2. /\ DOMAIN next = 1..(N + 1)
      /\ \A n \in 1..N : next[n] = order[n]
      /\ next[N + 1] = t
      /\ \A n \in 1..(N + 1) : next[n] \in DOMAIN source
  BY AppendProperties, LenProperties, ElementOfSeq
<1>3. \A u \in DOMAIN source : \A d : Said(u, d) \in Seq(P)
  BY TableChangesPlanned
<1> HIDE DEF P, N, next, Lost, Said
<1>4. \A n \in 1..N : Dropped(next, n) = Dropped(order, n)
  <2>1. ASSUME NEW n \in 1..N PROVE Dropped(next, n) = Dropped(order, n)
    <3>1. \A m \in 1..n : next[m] = order[m]
      BY <1>1, <1>2
    <3>2. QED BY <3>1
  <2>2. QED BY <2>1
<1>5. Dropped(next, N + 1) = Dropped(order, N) \union Lost(t)
  <2>1. 1..(N + 1) = (1..N) \union {N + 1}
    BY <1>1
  <2>2. Dropped(next, N + 1) = Dropped(next, N) \union Lost(t)
    BY <1>2, <2>1
  <2>3. Dropped(next, N) = Dropped(order, N)
    BY <1>2
  <2>4. QED BY <2>2, <2>3
<1> HIDE DEF Dropped
<1>6. FlattenSeq(ss(order)) \in Seq(P)
      /\ FlattenSeq(ss(next)) = FlattenSeq(ss(order)) \o Said(t, Dropped(next, N + 1))
  <2>1. /\ DOMAIN ss(order) = 1..N
        /\ ss(order) = [n \in 1..N |-> ss(order)[n]]
        /\ DOMAIN ss(next) = 1..(N + 1)
        /\ ss(next) = [n \in 1..(N + 1) |-> ss(next)[n]]
    BY <1>1, <1>2
  <2>2. \A n \in 1..(N + 1) : ss(next)[n] \in Seq(P)
    BY <1>2, <1>3
  <2>3. \A n \in 1..N : ss(order)[n] = ss(next)[n]
    <3>1. \A n \in 1..N : n \in 1..(N + 1)
      BY <1>1
    <3>2. QED BY <1>1, <1>2, <1>4, <3>1
  <2>4. ss(next)[N + 1] = Said(t, Dropped(next, N + 1))
    BY <1>1, <1>2
  <2> DEFINE so == ss(order)
             sn == ss(next)
  <2> HIDE DEF so, sn, ss
  <2>5. FlattenSeq(so) \in Seq(P) /\ FlattenSeq(sn) = FlattenSeq(so) \o sn[N + 1]
    <3>1. Longer(sn, so, N, P)
      BY <2>1, <2>2, <2>3 DEF so, sn, Longer
    <3>2. N \in Nat
      BY <1>1
    <3>3. QED BY <3>1, <3>2, FlattenNext
  <2>6. QED BY <2>4, <2>5 DEF so, sn
<1>7. Dropped(order, N) = DroppedBy(order, source, tables)
  BY <1>1 DEF Dropped, DroppedBy, Lost
<1>8. Dropped(next, N + 1) = DroppedBy(next, source, tables)
  BY <1>2 DEF Dropped, DroppedBy, Lost
<1>9. /\ ChangesInOrder(order, source, tables, pkModifier) = FlattenSeq(ss(order))
      /\ ChangesInOrder(next, source, tables, pkModifier) = FlattenSeq(ss(next))
  BY DEF ChangesInOrder, Said, Dropped, Lost
<1>10. QED BY <1>5, <1>6, <1>7, <1>8, <1>9 DEF AddsTable, P, Lost, Said, next

\* Every statement of a plan is about a declared table, or drops tables when none is declared.
THEOREM DiffIsPlanned ==
  ASSUME NEW source, NEW tables, IsSchema(source), IsSchema(tables), NEW pkModifier,
         NEW d \in Diff(source, tables, pkModifier)
  PROVE  d \in Seq(Plans(source, tables, pkModifier))
<1> DEFINE read == Read(source, tables)
           rest == DOMAIN read \ DOMAIN source
           P    == Plans(source, tables, pkModifier)
<1>1. PICK declared \in DeclaredChanges(source, read, pkModifier), drops \in DropTables(source, read) :
        d = declared \o drops
  BY DEF Diff
<1>2. /\ DOMAIN read \subseteq DOMAIN tables
      /\ \A t \in DOMAIN read : read[t] = tables[t]
      /\ DOMAIN source # {} => DOMAIN read \subseteq DOMAIN source
  BY DEF Read
<1>3. DOMAIN source \subseteq Tables /\ DOMAIN tables \subseteq Tables
  BY DEF IsSchema
<1>4. IsSchema(read)
  BY <1>2, <1>3 DEF IsSchema, Read
<1>5. PICK order \in Sorted(DOMAIN source) : declared = ChangesInOrder(order, source, read, pkModifier)
  BY DEF DeclaredChanges
<1>6. ASSUME NEW c \in Plans(source, read, pkModifier) PROVE c \in P
  BY <1>2 DEF Plans, IsPlanned
<1> DEFINE Dropped(n) == UNION {DroppedColumns(OldOf(read, order[m]), source[order[m]]) : m \in 1..n}
           ss == [n \in DOMAIN order |->
                    TableChanges(order[n], OldOf(read, order[n]), source[order[n]],
                                 order[n] \in DOMAIN read, Dropped(n), pkModifier)]
<1>7. FlattenSeq(ss) \in Seq(P)
  <2>1. DOMAIN order = 1..Len(order) /\ Len(order) \in Nat /\ \A n \in DOMAIN order : order[n] \in DOMAIN source
    BY <1>3, OrderType, LenProperties, ElementOfSeq
  <2>2. \A n \in DOMAIN order : ss[n] \in Seq(Plans(source, read, pkModifier))
    <3> HIDE DEF read, Dropped
    <3>1. QED BY <1>4, <2>1, TableChangesPlanned
  <2>3. Seq(Plans(source, read, pkModifier)) \subseteq Seq(P)
    <3>1. ASSUME NEW s \in Seq(Plans(source, read, pkModifier)) PROVE s \in Seq(P)
      <4>1. s \in [1..Len(s) -> Plans(source, read, pkModifier)] /\ Len(s) \in Nat
        BY LenProperties, SeqDef
      <4> HIDE DEF P, read
      <4>2. s \in [1..Len(s) -> P]
        BY <1>6, <4>1
      <4>3. QED BY <4>1, <4>2, SeqDef
    <3>2. QED BY <3>1
  <2>4. DOMAIN ss = 1..Len(order) /\ ss = [n \in 1..Len(order) |-> ss[n]]
    BY <2>1
  <2> HIDE DEF ss, P, read
  <2>5. \A n \in 1..Len(order) : ss[n] \in Seq(P)
    BY <2>1, <2>2, <2>3
  <2>6. QED BY <2>1, <2>4, <2>5, FlattenMap
<1>8. declared = FlattenSeq(ss)
  BY <1>5 DEF ChangesInOrder
<1>9. drops \in Seq(P)
  <2>1. PICK o \in SetToSeqs(rest) : drops = [n \in DOMAIN o |-> DropTable(o[n])]
    BY <1>1 DEF DropTables
  <2>2. o \in Seq(rest)
    BY <1>2, <1>3, <2>1, OrderType
  <2>3. DOMAIN o = 1..Len(o) /\ Len(o) \in Nat /\ \A n \in DOMAIN o : o[n] \in rest
    BY <2>2, LenProperties, ElementOfSeq
  <2>4. ASSUME NEW t \in rest PROVE DropTable(t) \in P
    <3>1. t \in Tables /\ DOMAIN source = {}
      BY <1>2, <1>3
    <3>2. DropTable(t) \in Change /\ DropTable(t).op = "dropTable"
      BY <3>1, ChangeTypes DEF DropTable
    <3>3. QED BY <3>1, <3>2 DEF Plans, IsPlanned
  <2> HIDE DEF rest, P
  <2>5. drops \in [1..Len(o) -> P]
    BY <2>1, <2>3, <2>4
  <2>6. QED BY <2>3, <2>5, SeqDef
<1> HIDE DEF P, ss
<1>10. QED BY <1>1, <1>7, <1>8, <1>9, ConcatProperties DEF P
=============================================================================
