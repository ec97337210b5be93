-------------------------- MODULE DatabaseTheorems --------------------------
(***************************************************************************)
(* What the theorems about the two syncs share: the tables of a database    *)
(* and of a source, what they are read back as, and what a plan made from   *)
(* such a reading may contain.                                               *)
(***************************************************************************)
EXTENDS Database, DiffFunctionTheorems

-----------------------------------------------------------------------------
(* Columns, keys and indexes of a table.                                   *)

\* Only collects the members that are kept.
LEMMA OnlyCollects ==
  ASSUME NEW S, NEW K, NEW g, g = [x \in S |-> IF x \in K THEN <<x>> ELSE <<>>]
  PROVE  /\ Collects(g, S, S)
         /\ \A s \in Seq(S) : Only(s, K) = Collected(s, g)
<1>1. Collects(g, S, S)
  <2>1. \A x \in S : <<x>> \in Seq(S) /\ <<>> \in Seq(S)
    BY EmptySeq
  <2>2. QED BY <2>1 DEF Collects
<1>2. ASSUME NEW s \in Seq(S) PROVE Only(s, K) = Collected(s, g)
  <2>1. \A n \in DOMAIN s : s[n] \in S
    BY Elements
  <2>2. [n \in DOMAIN s |-> g[s[n]]] = [n \in DOMAIN s |-> IF s[n] \in K THEN <<s[n]>> ELSE <<>>]
    BY <2>1
  <2>3. QED BY <2>2, Zenon DEF Only, Collected
<1>3. QED BY <1>1, <1>2

\* Nothing is kept of nothing.
LEMMA OnlyEmpty == ASSUME NEW K PROVE Only(<<>>, K) = <<>>
<1>1. \E g : g = [x \in {} |-> IF x \in K THEN <<x>> ELSE <<>>]
  OBVIOUS
<1>2. PICK g : g = [x \in {} |-> IF x \in K THEN <<x>> ELSE <<>>]
  BY <1>1
<1>3. <<>> \in Seq({})
  BY EmptySeq
<1>4. Only(<<>>, K) = Collected(<<>>, g)
  BY <1>2, <1>3, OnlyCollects
<1>5. QED BY <1>4, CollectedEmpty

\* What is kept of a sequence and one member more.
LEMMA OnlyAppend ==
  ASSUME NEW S, NEW K, NEW s \in Seq(S), NEW x \in S
  PROVE  /\ x \in K => Only(Append(s, x), K) = Append(Only(s, K), x)
         /\ x \notin K => Only(Append(s, x), K) = Only(s, K)
<1>1. \E g : g = [y \in S |-> IF y \in K THEN <<y>> ELSE <<>>]
  OBVIOUS
<1>2. PICK g : g = [y \in S |-> IF y \in K THEN <<y>> ELSE <<>>]
  BY <1>1
<1>3. /\ Collects(g, S, S)
      /\ \A r \in Seq(S) : Only(r, K) = Collected(r, g)
  BY <1>2, OnlyCollects, ZenonT(40)
<1>4. Append(s, x) \in Seq(S)
  BY AppendElements
<1>5. Collected(s, g) \in Seq(S) /\ Collected(Append(s, x), g) = Collected(s, g) \o g[x]
  BY <1>3, CollectedAppend
<1>6. Only(Append(s, x), K) = Only(s, K) \o g[x] /\ Only(s, K) \in Seq(S)
  BY <1>3, <1>4, <1>5
<1>7. (x \in K => g[x] = <<x>>) /\ (x \notin K => g[x] = <<>>)
  BY <1>2
<1>8. Only(s, K) \o <<x>> = Append(Only(s, K), x)
  BY <1>6, AppendIsConcat
<1>9. Only(s, K) \o <<>> = Only(s, K)
  BY <1>6, ConcatEmptySeq
<1>10. QED BY <1>6, <1>7, <1>8, <1>9

\* The elements that are kept.
LEMMA OnlyElements ==
  ASSUME NEW S, NEW s \in Seq(S), NEW K
  PROVE  Only(s, K) \in Seq(S) /\ ToSet(Only(s, K)) = ToSet(s) \intersect K
<1> DEFINE A == {r \in Seq(S) : Only(r, K) \in Seq(S) /\ ToSet(Only(r, K)) = ToSet(r) \intersect K}
<1>1. <<>> \in A
  <2>1. Only(<<>>, K) = <<>> /\ <<>> \in Seq(S) /\ ToSet(<<>>) = {}
    BY OnlyEmpty, EmptySeq DEF ToSet
  <2>2. QED BY <2>1
<1>2. ASSUME NEW r \in Seq(S), r \in A, NEW x \in S PROVE Append(r, x) \in A
  <2>1. /\ x \in K => Only(Append(r, x), K) = Append(Only(r, K), x)
        /\ x \notin K => Only(Append(r, x), K) = Only(r, K)
    BY OnlyAppend
  <2>2. Append(r, x) \in Seq(S) /\ ToSet(Append(r, x)) = ToSet(r) \union {x}
    BY AppendElements
  <2>3. Append(Only(r, K), x) \in Seq(S) /\ ToSet(Append(Only(r, K), x)) = ToSet(Only(r, K)) \union {x}
    BY <1>2, AppendElements
  <2>4. QED BY <1>2, <2>1, <2>2, <2>3
<1> HIDE DEF A
<1>3. Seq(S) \subseteq A
  BY <1>1, <1>2, SequenceInduction
<1>4. QED BY <1>3 DEF A

\* All is kept.
LEMMA OnlyAll ==
  ASSUME NEW S, NEW s \in Seq(S), NEW K, ToSet(s) \subseteq K
  PROVE  Only(s, K) = s
<1> DEFINE A == {r \in Seq(S) : ToSet(r) \subseteq K => Only(r, K) = r}
<1>1. <<>> \in A
  <2>1. Only(<<>>, K) = <<>> /\ <<>> \in Seq(S)
    BY OnlyEmpty, EmptySeq
  <2>2. QED BY <2>1
<1>2. ASSUME NEW r \in Seq(S), r \in A, NEW x \in S PROVE Append(r, x) \in A
  <2>1. /\ x \in K => Only(Append(r, x), K) = Append(Only(r, K), x)
        /\ x \notin K => Only(Append(r, x), K) = Only(r, K)
    BY OnlyAppend
  <2>2. Append(r, x) \in Seq(S) /\ ToSet(Append(r, x)) = ToSet(r) \union {x}
    BY AppendElements
  <2>3. QED BY <1>2, <2>1, <2>2
<1> HIDE DEF A
<1>3. Seq(S) \subseteq A
  BY <1>1, <1>2, SequenceInduction
<1>4. QED BY <1>3 DEF A

\* What is kept of what is kept.
LEMMA OnlyOnly ==
  ASSUME NEW S, NEW s \in Seq(S), NEW K, NEW L, ToSet(s) \intersect K \subseteq L
  PROVE  Only(Only(s, L), K) = Only(s, K)
<1> DEFINE A == {r \in Seq(S) : ToSet(r) \intersect K \subseteq L => Only(Only(r, L), K) = Only(r, K)}
<1>1. <<>> \in A
  <2>1. Only(<<>>, K) = <<>> /\ Only(<<>>, L) = <<>> /\ <<>> \in Seq(S)
    BY OnlyEmpty, EmptySeq
  <2>2. QED BY <2>1
<1>2. ASSUME NEW r \in Seq(S), r \in A, NEW x \in S PROVE Append(r, x) \in A
  <2>1. /\ x \in K => Only(Append(r, x), K) = Append(Only(r, K), x)
        /\ x \notin K => Only(Append(r, x), K) = Only(r, K)
        /\ x \in L => Only(Append(r, x), L) = Append(Only(r, L), x)
        /\ x \notin L => Only(Append(r, x), L) = Only(r, L)
    BY OnlyAppend
  <2>2. Append(r, x) \in Seq(S) /\ ToSet(Append(r, x)) = ToSet(r) \union {x}
    BY AppendElements
  <2>3. Only(r, L) \in Seq(S)
    BY OnlyElements
  <2>4. /\ x \in K => Only(Append(Only(r, L), x), K) = Append(Only(Only(r, L), K), x)
        /\ x \notin K => Only(Append(Only(r, L), x), K) = Only(Only(r, L), K)
    BY <2>3, OnlyAppend
  <2>5. QED BY <1>2, <2>1, <2>2, <2>4
<1> HIDE DEF A
<1>3. Seq(S) \subseteq A
  BY <1>1, <1>2, SequenceInduction
<1>4. QED BY <1>3 DEF A

\* The head and the tail of a sequence.
LEMMA HeadAndTail ==
  ASSUME NEW S, NEW s \in Seq(S), s # <<>>
  PROVE  Head(s) \in S /\ Tail(s) \in Seq(S) /\ Head(s) \in ToSet(s)
<1>1. Len(s) \in Nat /\ Len(s) # 0 /\ DOMAIN s = 1..Len(s)
  BY EmptySeq, LenProperties
<1>2. Head(s) = s[1] /\ Tail(s) \in Seq(S)
  BY HeadTailProperties
<1>3. QED BY <1>1, <1>2, Elements

\* The names of the columns of a table.
LEMMA NamesOfColumns ==
  ASSUME NEW tbl, tbl.columns \in Seq(Column)
  PROVE  /\ ColumnNames(tbl) = {col.name : col \in ToSet(tbl.columns)}
         /\ ColumnNames(tbl) \subseteq Columns
<1>1. ColumnNames(tbl) = {col.name : col \in ToSet(tbl.columns)}
  BY DEF ColumnNames, ToSet
<1>2. \A col \in ToSet(tbl.columns) : col \in Column
  BY Elements
<1>3. QED BY <1>1, <1>2 DEF Column

\* A table from its parts.
LEMMA TableFromParts ==
  ASSUME NEW columns \in Seq(Column), NEW pk, NEW indexes,
         pk \subseteq {col.name : col \in ToSet(columns)},
         \A x \in indexes : x \in Index /\ ToSet(x.columns) \subseteq {col.name : col \in ToSet(columns)}
  PROVE  IsTable([columns |-> columns, pk |-> pk, indexes |-> indexes])
<1> DEFINE tbl == [columns |-> columns, pk |-> pk, indexes |-> indexes]
<1>1. tbl.columns = columns /\ tbl.pk = pk /\ tbl.indexes = indexes
  OBVIOUS
<1> HIDE DEF tbl
<1>2. ColumnNames(tbl) = {col.name : col \in ToSet(columns)} /\ ColumnNames(tbl) \subseteq Columns
  BY <1>1, NamesOfColumns
<1>3. tbl \in TableState
  <2>1. pk \in SUBSET Columns /\ indexes \in SUBSET Index
    BY <1>2
  <2>2. QED BY <2>1 DEF TableState, tbl
<1>4. QED BY <1>1, <1>2, <1>3 DEF IsTable, tbl

\* The parts of a table.
LEMMA PartsOfTable ==
  ASSUME NEW tbl, IsTable(tbl)
  PROVE  /\ tbl.columns \in Seq(Column)
         /\ tbl.pk \subseteq {col.name : col \in ToSet(tbl.columns)}
         /\ \A x \in tbl.indexes :
              /\ x \in Index
              /\ ToSet(x.columns) \subseteq {col.name : col \in ToSet(tbl.columns)}
         /\ ColumnNames(tbl) = {col.name : col \in ToSet(tbl.columns)}
         /\ tbl = [columns |-> tbl.columns, pk |-> tbl.pk, indexes |-> tbl.indexes]
<1>1. tbl.columns \in Seq(Column) /\ tbl.indexes \in SUBSET Index
  BY DEF IsTable, TableState
<1>2. ColumnNames(tbl) = {col.name : col \in ToSet(tbl.columns)}
  BY <1>1, NamesOfColumns
<1>3. tbl = [columns |-> tbl.columns, pk |-> tbl.pk, indexes |-> tbl.indexes]
  BY DEF IsTable, TableState
<1>4. QED BY <1>1, <1>2, <1>3 DEF IsTable

\* All columns but one.
LEMMA WithoutColumnElements ==
  ASSUME NEW columns \in Seq(Column), NEW gone
  PROVE  /\ WithoutColumn(columns, gone) \in Seq(Column)
         /\ ToSet(WithoutColumn(columns, gone)) = {col \in ToSet(columns) : col.name # gone}
<1> DEFINE K == {col \in ToSet(columns) : col.name # gone}
<1>1. WithoutColumn(columns, gone) = Only(columns, K)
  BY DEF WithoutColumn
<1>2. ToSet(columns) \intersect K = K
  OBVIOUS
<1> HIDE DEF K
<1>3. Only(columns, K) \in Seq(Column) /\ ToSet(Only(columns, K)) = ToSet(columns) \intersect K
  BY OnlyElements
<1>4. QED BY <1>1, <1>2, <1>3 DEF K

\* The names but one.
LEMMA WithoutElements ==
  ASSUME NEW names \in Seq(Columns), NEW gone
  PROVE  /\ Without(names, gone) \in Seq(Columns)
         /\ ToSet(Without(names, gone)) = ToSet(names) \ {gone}
<1> DEFINE K == ToSet(names) \ {gone}
<1>1. Without(names, gone) = Only(names, K)
  BY DEF Without
<1>2. ToSet(names) \intersect K = K
  OBVIOUS
<1> HIDE DEF K
<1>3. Only(names, K) \in Seq(Columns) /\ ToSet(Only(names, K)) = ToSet(names) \intersect K
  BY OnlyElements
<1>4. QED BY <1>1, <1>2, <1>3 DEF K

\* The order of a sequence and one member more.
LEMMA OrderedAppend ==
  ASSUME NEW S, NEW R, NEW s \in Seq(S), NEW x \in S
  PROVE  Ordered(Append(s, x), R) <=> Ordered(s, R) /\ \A y \in ToSet(s) : <<y, x>> \notin R
<1>1. /\ Append(s, x) \in Seq(S) /\ Len(Append(s, x)) = Len(s) + 1
      /\ \A n \in 1..Len(s) : Append(s, x)[n] = s[n]
      /\ Append(s, x)[Len(s) + 1] = x
  BY AppendProperties
<1>2. /\ DOMAIN Append(s, x) = 1..(Len(s) + 1)
      /\ DOMAIN s = 1..Len(s) /\ Len(s) \in Nat
  BY <1>1, Elements
<1>3. ASSUME Ordered(Append(s, x), R) PROVE Ordered(s, R)
  BY <1>1, <1>2, <1>3 DEF Ordered
<1>4. ASSUME Ordered(Append(s, x), R), NEW y \in ToSet(s) PROVE <<y, x>> \notin R
  <2>1. PICK n \in DOMAIN s : y = s[n]
    BY DEF ToSet
  <2>2. <<Append(s, x)[n], Append(s, x)[Len(s) + 1]>> \notin R
    BY <1>2, <1>4, <2>1 DEF Ordered
  <2>3. QED BY <1>1, <1>2, <2>1, <2>2
<1>5. ASSUME Ordered(s, R), \A y \in ToSet(s) : <<y, x>> \notin R,
             NEW m \in 1..(Len(s) + 1), NEW n \in 1..(Len(s) + 1), m < n
      PROVE  <<Append(s, x)[m], Append(s, x)[n]>> \notin R
  <2>1. m \in 1..Len(s) /\ Append(s, x)[m] = s[m]
    BY <1>1, <1>2, <1>5
  <2>2. CASE n = Len(s) + 1
    <3>1. s[m] \in ToSet(s)
      BY <1>2, <2>1, Elements
    <3>2. QED BY <1>1, <1>5, <2>1, <2>2, <3>1
  <2>3. CASE n # Len(s) + 1
    <3>1. n \in 1..Len(s) /\ Append(s, x)[n] = s[n]
      BY <1>1, <1>2, <2>3
    <3>2. QED BY <1>2, <1>5, <2>1, <3>1 DEF Ordered
  <2>4. QED BY <2>2, <2>3
<1>6. ASSUME Ordered(s, R), \A y \in ToSet(s) : <<y, x>> \notin R
      PROVE  Ordered(Append(s, x), R)
  BY <1>2, <1>5, <1>6 DEF Ordered
<1>7. QED BY <1>3, <1>4, <1>6

\* What is kept stays in its order.
LEMMA OnlyOrdered ==
  ASSUME NEW S, NEW R, NEW s \in Seq(S), NEW K, Ordered(s, R)
  PROVE  Ordered(Only(s, K), R)
<1> DEFINE A == {r \in Seq(S) : Ordered(r, R) => Ordered(Only(r, K), R)}
<1>1. <<>> \in A
  <2>1. Only(<<>>, K) = <<>> /\ <<>> \in Seq(S)
    BY OnlyEmpty, EmptySeq
  <2>2. QED BY <2>1
<1>2. ASSUME NEW r \in Seq(S), r \in A, NEW x \in S PROVE Append(r, x) \in A
  <2>1. /\ x \in K => Only(Append(r, x), K) = Append(Only(r, K), x)
        /\ x \notin K => Only(Append(r, x), K) = Only(r, K)
        /\ Append(r, x) \in Seq(S)
    BY OnlyAppend, AppendElements
  <2>2. Only(r, K) \in Seq(S) /\ ToSet(Only(r, K)) \subseteq ToSet(r)
    BY OnlyElements
  <2>3. SUFFICES ASSUME Ordered(Append(r, x), R) PROVE Ordered(Only(Append(r, x), K), R)
    BY <2>1
  <2>4. Ordered(r, R) /\ \A y \in ToSet(r) : <<y, x>> \notin R
    <3> HIDE DEF A
    <3>1. QED BY <2>3, OrderedAppend
  <2>5. Ordered(Only(r, K), R)
    BY <1>2, <2>4
  <2>6. Ordered(Append(Only(r, K), x), R)
    <3> HIDE DEF A
    <3>1. \A q \in Seq(S) :
            Ordered(q, R) /\ (\A y \in ToSet(q) : <<y, x>> \notin R) => Ordered(Append(q, x), R)
      BY OrderedAppend
    <3>2. QED BY <2>2, <2>4, <2>5, <3>1, Zenon
  <2>7. QED BY <2>1, <2>5, <2>6
<1> HIDE DEF A
<1>3. Seq(S) \subseteq A
  BY <1>1, <1>2, SequenceInduction
<1>4. QED BY <1>3 DEF A

-----------------------------------------------------------------------------
(* The names of the columns of a table.                                    *)

\* Two columns of one name.
SameName == {p \in Column \X Column : p[1].name = p[2].name}

\* No two columns have one name: by their places, in their order, and as a set.
LEMMA DistinctIs ==
  ASSUME NEW tbl, tbl.columns \in Seq(Column)
  PROVE  /\ DistinctColumns(tbl) <=>
              \A m, n \in DOMAIN tbl.columns : tbl.columns[m].name = tbl.columns[n].name => m = n
         /\ DistinctColumns(tbl) <=> Ordered(tbl.columns, SameName)
         /\ DistinctColumns(tbl) =>
              \A a, b \in ToSet(tbl.columns) : a.name = b.name => a = b
<1> DEFINE cs == tbl.columns
           names == [n \in DOMAIN cs |-> cs[n].name]
<1>1. /\ DOMAIN cs = 1..Len(cs) /\ Len(cs) \in Nat
      /\ \A n \in DOMAIN cs : cs[n] \in Column
      /\ \A a \in ToSet(cs) : \E n \in DOMAIN cs : cs[n] = a
  BY Elements DEF ToSet
<1>2. DistinctColumns(tbl) <=> \A m, n \in DOMAIN cs : cs[m].name = cs[n].name => m = n
  <2>1. DOMAIN names = DOMAIN cs /\ \A n \in DOMAIN cs : names[n] = cs[n].name
    OBVIOUS
  <2>2. DistinctColumns(tbl) <=> \A m, n \in DOMAIN names : names[m] = names[n] => m = n
    BY DEF DistinctColumns, IsInjective
  <2> HIDE DEF names
  <2>3. QED BY <2>1, <2>2
<1>3. Ordered(cs, SameName) <=> \A m, n \in DOMAIN cs : m < n => cs[m].name # cs[n].name
  BY <1>1 DEF Ordered, SameName
<1>4. (\A m, n \in DOMAIN cs : m < n => cs[m].name # cs[n].name)
        <=> \A m, n \in DOMAIN cs : cs[m].name = cs[n].name => m = n
  <2> DEFINE N == Len(cs)
  <2>1. \A m, n \in DOMAIN cs : m \in Int /\ n \in Int
    BY <1>1
  <2> HIDE DEF cs
  <2>2. QED BY <2>1
<1>5. DistinctColumns(tbl) => \A a, b \in ToSet(cs) : a.name = b.name => a = b
  BY <1>1, <1>2
<1>6. QED BY <1>2, <1>3, <1>4, <1>5

\* A column more, of another name.
LEMMA DistinctAppend ==
  ASSUME NEW tbl, IsTable(tbl), DistinctColumns(tbl), NEW col \in Column,
         col.name \notin ColumnNames(tbl), NEW new, new.columns = Append(tbl.columns, col)
  PROVE  DistinctColumns(new)
<1>1. tbl.columns \in Seq(Column) /\ ColumnNames(tbl) = {a.name : a \in ToSet(tbl.columns)}
  BY PartsOfTable
<1>2. \A a \in ToSet(tbl.columns) : <<a, col>> \notin SameName
  BY <1>1 DEF SameName
<1>3. Ordered(tbl.columns, SameName)
  BY <1>1, DistinctIs
<1>4. new.columns \in Seq(Column) /\ Ordered(new.columns, SameName)
  BY <1>1, <1>2, <1>3, OrderedAppend, AppendElements
<1>5. QED BY <1>4, DistinctIs

\* A column less.
LEMMA DistinctWithout ==
  ASSUME NEW tbl, IsTable(tbl), DistinctColumns(tbl), NEW gone,
         NEW new, new.columns = WithoutColumn(tbl.columns, gone)
  PROVE  DistinctColumns(new)
<1>1. tbl.columns \in Seq(Column)
  BY PartsOfTable
<1>2. Ordered(tbl.columns, SameName)
  BY <1>1, DistinctIs
<1>3. new.columns \in Seq(Column)
  BY <1>1, WithoutColumnElements
<1>4. Ordered(new.columns, SameName)
  BY <1>1, <1>2, OnlyOrdered DEF WithoutColumn
<1>5. QED BY <1>3, <1>4, DistinctIs

\* Columns with other names, no two of which are one when those they had are not.
LEMMA DistinctRenamed ==
  ASSUME NEW tbl, IsTable(tbl), DistinctColumns(tbl),
         NEW new, new.columns \in Seq(Column), DOMAIN new.columns = DOMAIN tbl.columns,
         \A m, n \in DOMAIN tbl.columns : new.columns[m].name = new.columns[n].name
            => tbl.columns[m].name = tbl.columns[n].name
  PROVE  DistinctColumns(new)
<1>1. tbl.columns \in Seq(Column)
  BY PartsOfTable
<1>2. \A m, n \in DOMAIN tbl.columns : tbl.columns[m].name = tbl.columns[n].name => m = n
  BY <1>1, DistinctIs
<1>3. QED BY <1>2, DistinctIs

\* What is left of the indexes, some perhaps with other columns, is as well formed.
LEMMA WellFormedIndexes ==
  ASSUME NEW t, NEW tbl, WellFormed(t, tbl), NEW new, DistinctColumns(new),
         NEW h, \A y \in tbl.indexes : h[y].table = y.table /\ h[y].name = y.name,
         \A x \in new.indexes : x.columns # <<>> /\ \E y \in tbl.indexes : x = h[y]
  PROVE  WellFormed(t, new)
<1>1. ASSUME NEW x \in new.indexes
      PROVE  /\ x.table = t /\ x.name # PrimaryName /\ x.columns # <<>>
             /\ \A z \in new.indexes : x.name = z.name => x = z
  <2>1. PICK y \in tbl.indexes : x = h[y]
    OBVIOUS
  <2>2. y.table = t /\ y.name # PrimaryName /\ \A z \in tbl.indexes : y.name = z.name => y = z
    BY DEF WellFormed
  <2>3. QED BY <2>1, <2>2
<1>2. QED BY <1>1 DEF WellFormed

-----------------------------------------------------------------------------
(* The tables a source declares.                                           *)

\* The columns of the fields that name an index.
LEMMA NamingElements ==
  ASSUME NEW fields \in Seq(Field), NEW x, NEW unique
  PROVE  /\ Naming(fields, x, unique) \in Seq(Columns)
         /\ ToSet(Naming(fields, x, unique)) \subseteq ColumnsOf(fields)
<1> DEFINE N  == Len(fields)
           ss == [n \in DOMAIN fields |->
                    IF InStrings(Names(fields[n], unique), x) THEN <<fields[n].column>> ELSE <<>>]
<1>1. /\ DOMAIN fields = 1..N /\ N \in Nat
      /\ \A n \in 1..N : fields[n].column \in Columns /\ fields[n].column \in ColumnsOf(fields)
  BY FieldsOf
<1>2. PICK cs \in [1..N -> Columns] : \A n \in 1..N : cs[n] = fields[n].column
  <2>1. [n \in 1..N |-> fields[n].column] \in [1..N -> Columns]
    BY <1>1
  <2>2. QED BY <2>1
<1>3. Chosen(ss, cs, N)
  <2>1. DOMAIN ss = 1..N /\ ss = [n \in 1..N |-> ss[n]]
    BY <1>1
  <2>2. ASSUME NEW n \in 1..N PROVE ss[n] = <<>> \/ ss[n] = <<cs[n]>>
    BY <1>1, <1>2
  <2> HIDE DEF ss
  <2>3. QED BY <2>1, <2>2 DEF Chosen
<1>4. FlattenSeq(ss) = Naming(fields, x, unique)
  BY DEF Naming
<1> HIDE DEF ss, N
<1>5. /\ FlattenSeq(ss) \in Seq(Columns)
      /\ ToSet(FlattenSeq(ss)) = {cs[n] : n \in {k \in 1..N : ss[k] # <<>>}}
  <2>1. cs \in [1..N -> Columns] /\ N \in Nat
    BY <1>1
  <2>2. FlattenSeq(ss) \in Seq(Columns)
    BY <1>3, <2>1, FlattenChosen
  <2>3. ToSet(FlattenSeq(ss)) = {cs[n] : n \in {k \in 1..N : ss[k] # <<>>}}
    BY <1>3, <2>1, <2>2, FlattenChosen
  <2>4. QED BY <2>2, <2>3
<1>6. QED BY <1>1, <1>2, <1>4, <1>5

\* A declared table is a table, and each of its columns holds its own data.
LEMMA BuiltType ==
  ASSUME NEW t \in Tables, NEW fields \in Seq(Field)
  PROVE  /\ IsTable(Built(t, fields))
         /\ \A col \in ToSet(Built(t, fields).columns) : col.data = col.name
<1> DEFINE tbl == Built(t, fields)
<1>1. /\ DOMAIN fields = 1..Len(fields) /\ Len(fields) \in Nat
      /\ \A n \in 1..Len(fields) : fields[n] \in Field /\ fields[n].column \in Columns
      /\ PkColumns(fields) \subseteq ColumnsOf(fields) /\ ColumnsOf(fields) \subseteq Columns
  BY FieldsOf DEF PkColumns, KeyFields, ColumnsOf, Field
<1>2. /\ tbl.columns = [n \in 1..Len(fields) |->
                          [name |-> fields[n].column, def |-> fields[n].def,
                           data |-> fields[n].column]]
      /\ tbl.pk = PkColumns(fields)
      /\ tbl.indexes = Declared(t, fields)
      /\ DOMAIN tbl = {"columns", "pk", "indexes"}
  BY <1>1 DEF Built
<1>3. tbl.columns \in [1..Len(fields) -> Column] /\ tbl.columns \in Seq(Column)
  <2>1. \A n \in 1..Len(fields) : fields[n].def \in Defs
    BY <1>1 DEF Field
  <2>2. tbl.columns \in [1..Len(fields) -> Column]
    BY <1>1, <1>2, <2>1 DEF Column
  <2>3. QED BY <1>1, <2>2, SeqDef
<1>4. ColumnNames(tbl) = ColumnsOf(fields)
  BY <1>1, <1>2 DEF ColumnNames, ColumnsOf
<1>5. \A x \in Declared(t, fields) : x \in Index /\ ToSet(x.columns) \subseteq ColumnsOf(fields)
  <2>1. SUFFICES ASSUME NEW x \in Declared(t, fields)
                 PROVE x \in Index /\ ToSet(x.columns) \subseteq ColumnsOf(fields)
    OBVIOUS
  <2>2. PICK y \in IndexNames, u \in BOOLEAN :
          x = [table |-> t, name |-> y, unique |-> u, columns |-> Naming(fields, y, u)]
    BY DEF Declared
  <2>3. QED BY <2>2, NamingElements DEF Index
<1>6. \A col \in ToSet(tbl.columns) : col.data = col.name
  BY <1>1, <1>2 DEF ToSet
<1>7. tbl \in TableState
  <2>1. tbl = [columns |-> tbl.columns, pk |-> tbl.pk, indexes |-> tbl.indexes]
    BY DEF Built
  <2>2. tbl.pk \in SUBSET Columns /\ tbl.indexes \in SUBSET Index
    BY <1>1, <1>2, <1>5
  <2> HIDE DEF tbl
  <2>3. QED BY <1>3, <2>1, <2>2 DEF TableState
<1> HIDE DEF tbl
<1>8. QED BY <1>1, <1>2, <1>4, <1>5, <1>6, <1>7 DEF IsTable, tbl

\* The declared tables are a database.
LEMMA BuiltDatabase ==
  ASSUME NEW s, IsSource(s), NEW d, d = [t \in DOMAIN s |-> Built(t, s[t])]
  PROVE  IsDatabase(d) /\ \A t \in DOMAIN d : \A col \in ToSet(d[t].columns) : col.data = col.name
<1>1. IsSchema(s) /\ DOMAIN d = DOMAIN s /\ DOMAIN d \subseteq Tables
  BY DEF IsSource, IsSchema
<1>2. ASSUME NEW t \in DOMAIN d
      PROVE  IsTable(d[t]) /\ \A col \in ToSet(d[t].columns) : col.data = col.name
  BY <1>1, SchemaFields, BuiltType
<1>3. \A t \in DOMAIN d : d[t] \in TableState
  BY <1>2 DEF IsTable
<1>4. d = [t \in DOMAIN d |-> d[t]]
  OBVIOUS
<1>5. QED BY <1>1, <1>2, <1>3, <1>4 DEF IsDatabase

\* A history without its first version.
LEMMA HistoryTail ==
  ASSUME NEW h, IsHistory(h)
  PROVE  /\ IsSource(Head(h)) /\ IsSource(h[1])
         /\ Len(h) > 1 => IsHistory(Tail(h))
<1>1. h \in Seq(ToSet(h)) /\ h # <<>> /\ \A s \in ToSet(h) : IsSource(s)
  BY DEF IsHistory
<1>2. Len(h) \in Nat /\ Len(h) # 0 /\ DOMAIN h = 1..Len(h)
  BY <1>1, EmptySeq, LenProperties
<1>3. Head(h) = h[1] /\ h[1] \in ToSet(h)
  BY <1>1, <1>2, HeadTailProperties, Elements
<1>4. ASSUME Len(h) > 1 PROVE IsHistory(Tail(h))
  <2> DEFINE r == Tail(h)
             N == Len(h) - 1
  <2>1. /\ r \in Seq(ToSet(h)) /\ Len(r) = N
        /\ \A n \in 1..N : r[n] = h[n + 1]
    BY <1>1, <1>2, HeadTailProperties
  <2>2. DOMAIN r = 1..N /\ N \in Nat /\ N # 0
    BY <1>2, <1>4, <2>1, LenProperties
  <2> HIDE DEF r, N
  <2>3. ToSet(r) \subseteq ToSet(h)
    BY <2>1, Elements
  <2>4. r \in [1..N -> ToSet(r)]
    <3>1. r = [n \in 1..N |-> r[n]]
      BY <2>1, <2>2, Elements
    <3>2. QED BY <2>2, <3>1 DEF ToSet
  <2>5. r \in Seq(ToSet(r))
    BY <2>2, <2>4, SeqDef
  <2>6. r # <<>>
    BY <2>1, <2>2, EmptySeq
  <2>7. QED BY <1>1, <2>3, <2>5, <2>6 DEF IsHistory, r
<1>5. QED BY <1>1, <1>3, <1>4

\* After an edit each column holds its own data.
LEMMA MarkedType ==
  ASSUME NEW d, IsDatabase(d)
  PROVE  /\ IsDatabase(Marked(d))
         /\ \A t \in DOMAIN Marked(d) : \A col \in ToSet(Marked(d)[t].columns) : col.data = col.name
<1>1. DOMAIN d \subseteq Tables /\ \A t \in DOMAIN d : IsTable(d[t])
  BY DEF IsDatabase
<1>2. ASSUME NEW t \in DOMAIN d
      PROVE  /\ IsTable(Marked(d)[t])
             /\ \A col \in ToSet(Marked(d)[t].columns) : col.data = col.name
  <2> DEFINE tbl == d[t]
             cs  == [n \in DOMAIN tbl.columns |->
                       [name |-> tbl.columns[n].name, def |-> tbl.columns[n].def,
                        data |-> tbl.columns[n].name]]
  <2>1. IsTable(tbl)
    BY <1>1
  <2>2. Marked(d)[t] = [tbl EXCEPT !.columns = cs]
    BY DEF Marked
  <2> HIDE DEF tbl
  <2>3. Marked(d)[t] = [columns |-> cs, pk |-> tbl.pk, indexes |-> tbl.indexes]
    <3>1. tbl = [columns |-> tbl.columns, pk |-> tbl.pk, indexes |-> tbl.indexes]
      BY <2>1, PartsOfTable
    <3> HIDE DEF cs
    <3>2. QED BY <2>2, <3>1
  <2>4. /\ DOMAIN tbl.columns = 1..Len(tbl.columns) /\ Len(tbl.columns) \in Nat
        /\ \A n \in DOMAIN tbl.columns : tbl.columns[n] \in Column
    BY <2>1, PartsOfTable, Elements
  <2>5. cs \in Seq(Column)
    <3>1. cs \in [1..Len(tbl.columns) -> Column]
      BY <2>4 DEF Column
    <3>2. QED BY <2>4, <3>1, SeqDef
  <2>6. /\ \A col \in ToSet(cs) : col.data = col.name
        /\ {col.name : col \in ToSet(cs)} = {col.name : col \in ToSet(tbl.columns)}
    <3>1. /\ DOMAIN cs = DOMAIN tbl.columns
          /\ \A n \in DOMAIN cs : cs[n].name = tbl.columns[n].name /\ cs[n].data = cs[n].name
      OBVIOUS
    <3> HIDE DEF cs
    <3>2. QED BY <3>1 DEF ToSet
  <2> HIDE DEF cs
  <2>7. IsTable(Marked(d)[t])
    <3>1. /\ tbl.pk \subseteq {col.name : col \in ToSet(tbl.columns)}
          /\ \A x \in tbl.indexes :
               x \in Index /\ ToSet(x.columns) \subseteq {col.name : col \in ToSet(tbl.columns)}
      BY <2>1, PartsOfTable
    <3>2. /\ tbl.pk \subseteq {col.name : col \in ToSet(cs)}
          /\ \A x \in tbl.indexes :
               x \in Index /\ ToSet(x.columns) \subseteq {col.name : col \in ToSet(cs)}
      BY <2>6, <3>1
    <3> DEFINE pk == tbl.pk
               xs == tbl.indexes
    <3> HIDE DEF pk, xs
    <3>3. IsTable([columns |-> cs, pk |-> pk, indexes |-> xs])
      BY <2>5, <3>2, TableFromParts DEF pk, xs
    <3>4. QED BY <2>3, <3>3 DEF pk, xs
  <2>8. QED BY <2>3, <2>6, <2>7
<1>3. DOMAIN Marked(d) = DOMAIN d /\ Marked(d) = [t \in DOMAIN d |-> Marked(d)[t]]
  BY DEF Marked
<1>4. \A t \in DOMAIN d : Marked(d)[t] \in TableState
  BY <1>2 DEF IsTable
<1>5. QED BY <1>1, <1>2, <1>3, <1>4 DEF IsDatabase

\* Marking the data leaves the tables well formed.
LEMMA MarkedWellFormed ==
  ASSUME NEW d, IsDatabase(d), \A t \in DOMAIN d : WellFormed(t, d[t])
  PROVE  \A t \in DOMAIN Marked(d) : WellFormed(t, Marked(d)[t])
<1> SUFFICES ASSUME NEW t \in DOMAIN Marked(d) PROVE WellFormed(t, Marked(d)[t])
  OBVIOUS
<1> DEFINE tbl == d[t]
           new == Marked(d)[t]
           h   == [y \in tbl.indexes |-> y]
           cs  == [n \in DOMAIN tbl.columns |->
                     [name |-> tbl.columns[n].name, def |-> tbl.columns[n].def,
                      data |-> tbl.columns[n].name]]
<1>1. t \in DOMAIN d /\ new = [tbl EXCEPT !.columns = cs]
  BY DEF Marked
<1>2. IsTable(tbl) /\ WellFormed(t, tbl) /\ IsTable(new)
  BY <1>1, MarkedType DEF IsDatabase
<1>3. /\ new.columns = cs /\ new.indexes = tbl.indexes
      /\ \A n \in DOMAIN tbl.columns : new.columns[n].name = tbl.columns[n].name
      /\ DOMAIN new.columns = DOMAIN tbl.columns
  <2>1. tbl = [columns |-> tbl.columns, pk |-> tbl.pk, indexes |-> tbl.indexes]
    BY <1>2, PartsOfTable
  <2> HIDE DEF tbl, new, h
  <2>2. QED BY <1>1, <2>1
<1>4. new.columns \in Seq(Column)
  BY <1>2, PartsOfTable
<1>5. DistinctColumns(new)
  <2> HIDE DEF tbl, new
  <2>1. QED BY <1>2, <1>3, <1>4, DistinctRenamed DEF WellFormed
<1>6. \A x \in new.indexes : x.columns # <<>> /\ \E y \in tbl.indexes : x = h[y]
  <2>1. \A x \in tbl.indexes : x = h[x] /\ x.columns # <<>>
    BY <1>2 DEF WellFormed
  <2> HIDE DEF tbl, new, h
  <2>2. QED BY <1>3, <2>1
<1>7. \A y \in tbl.indexes : h[y].table = y.table /\ h[y].name = y.name
  OBVIOUS
<1> HIDE DEF tbl, new, h
<1>8. WellFormed(t, new)
  BY <1>2, <1>5, <1>6, <1>7, WellFormedIndexes
<1>9. QED BY <1>8 DEF new

-----------------------------------------------------------------------------
(* What a database is read back as.                                        *)

Row == [name : IndexNames, unique : BOOLEAN]

\* A column is read back as a field under the Go name of its name.
LEMMA FieldOfType ==
  ASSUME NEW t \in Tables, NEW col \in Column, NEW isPk \in BOOLEAN,
         NEW row \in SUBSET Row, IsFiniteSet(row)
  PROVE  LET f == FieldOf(t, col, isPk, row)
         IN  /\ f \in Field /\ f.table = t
             /\ f.name = Camel[col.name] /\ f.column = Snake[Camel[col.name]]
<1> DEFINE Tag(r) == IF r.name = AsColumn[col.name] THEN Unnamed ELSE r.name
           Tagged(u) == {Tag(r) : r \in {q \in row : q.unique = u}}
<1>1. ASSUME NEW u \in BOOLEAN PROVE SetToSeq(Tagged(u)) \in Seq(RawIndexNames)
  <2> DEFINE kind == {q \in row : q.unique = u}
  <2>1. IsFiniteSet(kind)
    BY FS_Subset
  <2>2. IsFiniteSet(Tagged(u))
    <3> DEFINE f == [q \in kind |-> Tag(q)]
    <3>1. f \in Surjection(kind, Tagged(u))
      BY DEF Surjection
    <3> HIDE DEF f, kind, Tagged
    <3>2. QED BY <2>1, <3>1, FS_Surjection
  <2>3. Tagged(u) \subseteq RawIndexNames
    BY DEF Row, RawIndexNames
  <2> HIDE DEF Tagged
  <2>4. SetToSeq(Tagged(u)) \in Seq(Tagged(u))
    BY <2>2, SetToSeqType
  <2>5. QED BY <2>3, <2>4, SeqMonotonic
<1>2. col.name \in Columns /\ Camel[col.name] \in GoNames /\ Snake[Camel[col.name]] \in Columns
      /\ col.def \in Defs
  BY CaseAssumption DEF Column
<1>3. <<>> \in Seq(RawIndexNames)
  BY EmptySeq
<1>4. QED BY <1>1, <1>2, <1>3 DEF FieldOf, Field

\* The tables as a run read them, each field one of a column known to the last edit: one
\* the table had by then, or one that is declared since.
Reading(tables, file, was) ==
  /\ IsSchema(tables)
  /\ \A t \in DOMAIN tables \intersect DOMAIN file \intersect DOMAIN was :
       \A o \in ToSet(tables[t]) :
         \E k \in ColumnNames(was[t]) \union ColumnsOf(file[t]) :
           o.name = Camel[k] /\ o.column = Snake[Camel[k]]

\* The columns of the tables are known in this sense.
Known(d, file, was) ==
  \A t \in DOMAIN d \intersect DOMAIN file \intersect DOMAIN was :
    ColumnNames(d[t]) \subseteq ColumnNames(was[t]) \union ColumnsOf(file[t])

-----------------------------------------------------------------------------
(* What a plan may do to the column of a declared field.                   *)

\* A field and the old field it is compared with share a name.
LEMMA OldFieldShares ==
  ASSUME NEW old \in Seq(Field), NEW f \in Field, NEW o, OldField(old, f) = {o}
  PROVE  o.column \in {f.column, f.name} \/ o.name \in {f.column, f.name}
<1>1. DOMAIN old = 1..Len(old) /\ Len(old) \in Nat
  BY FieldsOf
<1>2. ASSUME NEW k, Keyed(old, k) # {}
      PROVE  LET q == old[LastOf(Keyed(old, k))] IN q.column = k \/ q.name = k
  <2>1. Keyed(old, k) \in SUBSET (1..Len(old))
    BY <1>1 DEF Keyed
  <2>2. LastOf(Keyed(old, k)) \in Keyed(old, k)
    BY <1>1, <1>2, <2>1, LastOfIsLast
  <2>3. QED BY <2>2 DEF Keyed
<1>3. CASE Keyed(old, f.column) # {}
  <2>1. o = old[LastOf(Keyed(old, f.column))]
    BY <1>3 DEF OldField
  <2>2. QED BY <1>2, <1>3, <2>1
<1>4. CASE Keyed(old, f.column) = {}
  <2>1. Keyed(old, f.name) # {} /\ o = old[LastOf(Keyed(old, f.name))]
    BY <1>4 DEF OldField
  <2>2. QED BY <1>2, <2>1
<1>5. QED BY <1>3, <1>4

\* A column that is dropped is not the one of a declared field, under either name.
LEMMA DropSpares ==
  ASSUME NEW tables, NEW file, NEW was, IsSchema(file), Reading(tables, file, was),
         NEW t \in DOMAIN tables \intersect DOMAIN file \intersect DOMAIN was,
         ~Respelled(was[t], file[t]),
         NEW o \in ToSet(tables[t]), IsDropped(file[t], o),
         NEW c \in ColumnNames(was[t]), NEW n \in DOMAIN file[t],
         file[t][n].column = c \/ file[t][n].name = Camel[c]
  PROVE  o.column \notin {c, file[t][n].column}
<1>1. PICK k \in ColumnNames(was[t]) \union ColumnsOf(file[t]) :
        o.name = Camel[k] /\ o.column = Snake[Camel[k]]
  BY DEF Reading
<1>2. o.column = k
  BY <1>1 DEF Respelled
<1>3. file[t][n].column # o.column /\ file[t][n].name # o.name
  BY DEF IsDropped, Keyed
<1>4. QED BY <1>1, <1>2, <1>3

\* The column of a declared field is changed to one that is still its own.
LEMMA ModifyKeeps ==
  ASSUME NEW tables, NEW file, NEW was, IsSource(file), Reading(tables, file, was),
         NEW t \in DOMAIN tables \intersect DOMAIN file \intersect DOMAIN was,
         ~Respelled(was[t], file[t]), ~Crossed(file[t]), ColumnNames(was[t]) \subseteq Columns,
         NEW o \in ToSet(tables[t]), NEW g \in ToSet(file[t]), OldField(tables[t], g) = {o},
         NEW c \in ColumnNames(was[t]), NEW n \in DOMAIN file[t],
         file[t][n].column = c \/ file[t][n].name = Camel[c],
         o.column \in {c, file[t][n].column}
  PROVE  g.column \in {c, file[t][n].column}
<1> DEFINE f == file[t][n]
<1>1. PICK k \in ColumnNames(was[t]) \union ColumnsOf(file[t]) :
        o.name = Camel[k] /\ o.column = Snake[Camel[k]]
  BY DEF Reading
<1>2. o.column = k
  BY <1>1 DEF Respelled
<1>3. IsSchema(file) /\ IsSchema(tables)
  BY DEF IsSource, Reading
<1>4. PICK m \in DOMAIN file[t] : g = file[t][m]
  BY DEF ToSet
<1>5. /\ tables[t] \in Seq(Field) /\ g \in Field /\ f \in Field
      /\ g.column \in ColumnsOf(file[t]) /\ g.column \in Columns /\ g.name \in GoNames
      /\ k \in Columns
  BY <1>3, <1>4, SchemaFields, FieldsOf DEF Field
<1>6. o.column \notin GoNames /\ o.name \in GoNames
  BY <1>1, <1>5, CaseAssumption
<1>7. g.column \notin GoNames
  <2>1. g.column = Snake[Camel[g.column]]
    BY <1>5 DEF Respelled
  <2>2. QED BY <1>5, <2>1, CaseAssumption
<1>8. o.column = g.column \/ o.name = g.name
  BY <1>5, <1>6, <1>7, OldFieldShares
<1>9. CASE o.column = g.column
  BY <1>9
<1>10. CASE o.name = g.name /\ o.column = f.column
  \* g is named after the column of f, which is g itself or a field it crosses.
  <2>1. g.name = Camel[f.column]
    BY <1>1, <1>2, <1>10
  <2>2. QED BY <1>4, <2>1 DEF Crossed
<1>11. CASE o.name = g.name /\ o.column = c /\ f.name = Camel[c]
  \* Both are named after c.
  <2>1. g.name = f.name /\ g.name \in Range(Camel)
    BY <1>1, <1>2, <1>5, <1>11, CaseAssumption DEF Range
  <2>2. m = n
    BY <1>4, <2>1 DEF IsSource
  <2>3. QED BY <1>4, <2>2
<1>12. QED BY <1>8, <1>9, <1>10, <1>11
=============================================================================
